---------------------------- MODULE WebUI_proofs ----------------------------
(***************************************************************************)
(* What the pages of the web UI show while the session, or the fleet of    *)
(* instances, goes on under them: the pages of agents and instances, the   *)
(* chat pages, the pages of one run, execution or session, and the lists.  *)
(*                                                                         *)
(* SessionInv is what the pages rely on in the session: a run that has     *)
(* ended writes no more, the last thing a completed run wrote is its       *)
(* answer, a message has an author that is there, and a child knows its    *)
(* parent.  ConsoleInv and DetailInv say what a page that is read in       *)
(* several statements has at each of them.                                 *)
(***************************************************************************)
EXTENDS Compaction_proofs, SequenceTheorems, RunPages, AdminPages, Paging, Membership_proofs

-----------------------------------------------------------------------------
(* The pages of agents and instances.                                      *)

\* An instance has its row as long as its tools, and the tool is known as long as an
\* instance has it: the foreign keys.
KeysOK == MemberTypeOK /\ capable \subseteq Registered /\ (capable # {} => toolKnown)

\* What has been read is what was so at the time, and what is still to be read was
\* listed: an instance that could work all along is among one or the other.
SheetInv ==
    ~gaps /\ sheet.at # "refused" =>
        /\ sheet.at = "closed" =>
              sheet.able = {} /\ sheet.where = {} /\ ~sheet.active /\ sheet.next = {} /\ ever = {} /\ through = {}
        /\ sheet.at \notin {"closed", "shown"} => through \subseteq Fit /\ Fit \subseteq ever
        /\ through \subseteq ever /\ sheet.able \subseteq ever
        /\ sheet.needs => sheet.where \subseteq ever
        /\ sheet.at \in {"probe", "ask", "list", "collect", "tools", "fleet", "where"} => sheet.kind = "agents"
        /\ sheet.at \in {"probe", "ask", "collect"} => sheet.needs
        /\ sheet.at \in {"rows", "leader", "name"} => sheet.kind = "instances"
        /\ sheet.at = "rows" /\ ~sheet.needs => sheet.next \subseteq ever
        /\ sheet.at = "rows" => through \subseteq sheet.able \cup sheet.next
        /\ sheet.at \in {"leader", "name", "shown"} /\ sheet.kind = "instances" => through \subseteq sheet.able
        /\ sheet.kind = "agents" /\ sheet.at # "closed" =>
              /\ sheet.at \in {"list", "collect"} => sheet.active
              /\ sheet.at \in {"probe", "ask"} => ~sheet.active
              /\ sheet.needs /\ sheet.active => ever # {}
              /\ sheet.at = "ask" => through \subseteq sheet.next
              /\ sheet.at = "collect" => through \subseteq sheet.able \cup sheet.next
              /\ sheet.at \in {"tools", "fleet", "where", "shown"} =>
                    through \subseteq (IF sheet.active THEN sheet.able ELSE {})
              /\ sheet.needs =>
                    /\ sheet.at \in {"fleet", "where"} => sheet.known \/ through = {}
                    /\ sheet.at = "where" => through \subseteq sheet.where \cup sheet.next
                    /\ sheet.at = "shown" => through \subseteq sheet.where

FleetInv == KeysOK /\ AdminTypeOK /\ SheetInv

\* Whatever goes, its registrations go with it.
LEMMA KeysStep == KeysOK /\ [MemberNext]_memberVars => KeysOK'
<1> SUFFICES ASSUME KeysOK, [MemberNext]_memberVars PROVE (capable \subseteq Registered /\ (capable # {} => toolKnown))'
  BY MemberTypeStep DEF KeysOK
<1> USE ConfigAssumption, MembersAssumption DEF KeysOK, MemberTypeOK, validate, NoRow, Registered
<1>1. CASE UNCHANGED memberVars
  BY <1>1 DEF memberVars
<1>2. CASE Tick
  <2>1. \A i \in Members : beat'[i] = NoRow => beat[i] = NoRow
    BY <1>2 DEF Tick
  <2> QED
    BY <1>2, <2>1 DEF Tick
<1>3. ASSUME NEW going, Unregister(going) PROVE (capable \subseteq Registered /\ (capable # {} => toolKnown))'
  <2>1. capable' = capable \ going /\ \A i \in Members : i \notin going => beat'[i] = beat[i]
    BY <1>3 DEF Unregister
  <2>2. CASE going \cap capable # {}
    <3>1. toolKnown' = (capable \ going # {})
      BY <1>3, <2>2, Zenon DEF Unregister
    <3> QED
      BY <2>1, <3>1
  <2>3. CASE going \cap capable = {}
    <3>1. toolKnown' = toolKnown
      BY <1>3, <2>3, Zenon DEF Unregister
    <3> QED
      BY <2>1, <2>3, <3>1
  <2> QED
    BY <2>2, <2>3
<1>4. ASSUME NEW i \in Members, MemberStep(i)
      PROVE  (capable \subseteq Registered /\ (capable # {} => toolKnown))'
  <2>1. CASE UnregisterInstance(i)
    BY <1>3, <2>1 DEF UnregisterInstance
  <2>2. CASE DeleteStaleInstances(i)
    BY <1>3, <2>2 DEF DeleteStaleInstances
  <2>3. CASE RegisterInstance(i) \/ UpdateHeartbeat(i)
    BY <2>3 DEF RegisterInstance, UpdateHeartbeat
  <2>4. CASE UpsertTool(i) \/ RegisterInstanceTool(i)
    BY <2>4 DEF UpsertTool, RegisterInstanceTool
  <2>5. CASE StartFails(i) \/ CancelLoops(i) \/ ReleaseLeader(i) \/ Die(i)
    BY <2>5 DEF StartFails, CancelLoops, ReleaseLeader, Die
  <2>6. CASE RefreshLeader(i) \/ TryAcquireLeader(i) \/ LeaderError(i) \/ LearnLeader(i)
    BY <2>6 DEF RefreshLeader, TryAcquireLeader, LeaderError, LearnLeader
  <2>7. CASE AskLeader(i) \/ EndSweep(i) \/ BeginCleanup(i)
    BY <2>7 DEF AskLeader, EndSweep, BeginCleanup
  <2> QED
    BY <1>4, <2>1, <2>2, <2>3, <2>4, <2>5, <2>6, <2>7 DEF MemberStep
<1> QED
  BY <1>1, <1>2, <1>4 DEF MemberNext

\* The page after a statement, as far as the invariant sees it.
Becomes(at, active, able, known, where, next) ==
    /\ UNCHANGED <<memberVars, gaps>>
    /\ sheet' \in Sheet /\ sheet'.kind = sheet.kind /\ sheet'.needs = sheet.needs
    /\ sheet'.at = at /\ sheet'.active = active /\ sheet'.able = able
    /\ sheet'.known = known /\ sheet'.where = where /\ sheet'.next = next


\* The statements of the page of agents, one by one.
LEMMA AgentsOpened ==
    ASSUME AdminTypeOK, OpenAgents
    PROVE  Becomes(IF sheet.needs THEN "probe" ELSE "list", ~sheet.needs,
                   sheet.able, sheet.known, sheet.where, sheet.next)
<1> DEFINE at == IF sheet.needs THEN "probe" ELSE "list"
           active == ~sheet.needs
<1>1. at \in SheetStages /\ active \in BOOLEAN
  BY DEF SheetStages
<1>2. sheet' = [sheet EXCEPT !.at = at, !.active = active] /\ UNCHANGED <<memberVars, gaps>>
  BY DEF OpenAgents, Fills
<1> HIDE DEF at, active
<1>3. Becomes(at, active, sheet.able, sheet.known, sheet.where, sheet.next)
  BY <1>1, <1>2 DEF Becomes, AdminTypeOK, Sheet
<1> QED
  BY <1>3 DEF at, active

\* A set of instances is read through, or is not.
LEMMA AfterStage ==
    ASSUME NEW S, NEW busy \in SheetStages, NEW at \in SheetStages
    PROVE  After(S, busy, at) \in SheetStages
  BY DEF After

\* The page of the agents begins to ask the instances, one by one.
LEMMA InstancesProbed ==
    ASSUME AdminTypeOK, Registered \subseteq Members, ProbeInstances
    PROVE  Becomes(After(Registered, "ask", "tools"), sheet.active,
                   sheet.able, sheet.known, sheet.where, Registered)
<1> DEFINE at == After(Registered, "ask", "tools")
<1>1. at \in SheetStages
  BY AfterStage DEF SheetStages
<1>2. sheet' = [sheet EXCEPT !.at = at, !.next = Registered] /\ UNCHANGED <<memberVars, gaps>>
  BY DEF ProbeInstances, Fills, ListInstances
<1> HIDE DEF at
<1> QED
  BY <1>1, <1>2 DEF Becomes, AdminTypeOK, Sheet, at

\* An instance is asked whether it has the agent; the first that has it ends the search.
LEMMA InstanceAsked ==
    ASSUME AdminTypeOK, AskInstance
    PROVE  \E i \in sheet.next :
              IF i \in capable
              THEN Becomes("list", TRUE, sheet.able, sheet.known, sheet.where, {})
              ELSE Becomes(After(sheet.next \ {i}, "ask", "tools"), sheet.active,
                           sheet.able, sheet.known, sheet.where, sheet.next \ {i})
<1>1. PICK i \in sheet.next :
        Fills(IF HasTool(i)
              THEN [sheet EXCEPT !.at = "list", !.active = TRUE, !.next = {}]
              ELSE [sheet EXCEPT !.at = After(sheet.next \ {i}, "ask", "tools"), !.next = @ \ {i}])
  BY DEF AskInstance
<1> DEFINE at == After(sheet.next \ {i}, "ask", "tools")
<1>2. at \in SheetStages /\ "list" \in SheetStages
  BY AfterStage DEF SheetStages
<1>3. CASE i \in capable
  <2>1. sheet' = [sheet EXCEPT !.at = "list", !.active = TRUE, !.next = {}] /\ UNCHANGED <<memberVars, gaps>>
    BY <1>1, <1>3 DEF Fills, HasTool
  <2>2. Becomes("list", TRUE, sheet.able, sheet.known, sheet.where, {})
    BY <1>2, <2>1 DEF Becomes, AdminTypeOK, Sheet
  <2> QED
    BY <1>3, <2>2
<1>4. CASE i \notin capable
  <2>1. sheet' = [sheet EXCEPT !.at = at, !.next = sheet.next \ {i}] /\ UNCHANGED <<memberVars, gaps>>
    BY <1>1, <1>4 DEF Fills, HasTool
  <2> HIDE DEF at
  <2>2. Becomes(at, sheet.active, sheet.able, sheet.known, sheet.where, sheet.next \ {i})
    BY <1>2, <2>1 DEF Becomes, AdminTypeOK, Sheet
  <2> QED
    BY <1>4, <2>2 DEF at
<1> QED
  BY <1>3, <1>4

\* The instances that will be looked at again, where the agent needs a tool.
LEMMA CapableListed ==
    ASSUME AdminTypeOK, Registered \subseteq Members, ListCapable
    PROVE  IF sheet.needs
           THEN Becomes(After(Registered, "collect", "tools"), sheet.active,
                        sheet.able, sheet.known, sheet.where, Registered)
           ELSE Becomes("tools", sheet.active, Registered, sheet.known, sheet.where, sheet.next)
<1> DEFINE at == After(Registered, "collect", "tools")
<1>1. at \in SheetStages /\ "tools" \in SheetStages
  BY AfterStage DEF SheetStages
<1>2. CASE sheet.needs
  <2>1. sheet' = [sheet EXCEPT !.at = at, !.next = Registered] /\ UNCHANGED <<memberVars, gaps>>
    BY <1>2 DEF ListCapable, Fills, ListInstances
  <2> HIDE DEF at
  <2> QED
    BY <1>1, <1>2, <2>1 DEF Becomes, AdminTypeOK, Sheet, at
<1>3. CASE ~sheet.needs
  <2>1. sheet' = [sheet EXCEPT !.at = "tools", !.able = Registered] /\ UNCHANGED <<memberVars, gaps>>
    BY <1>3 DEF ListCapable, Fills, ListInstances
  <2> QED
    BY <1>1, <1>3, <2>1 DEF Becomes, AdminTypeOK, Sheet
<1> QED
  BY <1>2, <1>3

\* An instance that has the tools by now is listed.
LEMMA InstanceCollected ==
    ASSUME AdminTypeOK, CollectInstance
    PROVE  \E i \in sheet.next :
              Becomes(After(sheet.next \ {i}, "collect", "tools"), sheet.active,
                      IF i \in capable THEN sheet.able \cup {i} ELSE sheet.able,
                      sheet.known, sheet.where, sheet.next \ {i})
<1>1. PICK i \in sheet.next :
        Fills([sheet EXCEPT !.at = After(sheet.next \ {i}, "collect", "tools"), !.next = @ \ {i},
                            !.able = IF HasTool(i) THEN @ \cup {i} ELSE @])
  BY DEF CollectInstance
<1> DEFINE at == After(sheet.next \ {i}, "collect", "tools")
           able == IF i \in capable THEN sheet.able \cup {i} ELSE sheet.able
<1>2. at \in SheetStages /\ able \subseteq Members
  BY AfterStage DEF SheetStages, AdminTypeOK, Sheet
<1>3. sheet' = [sheet EXCEPT !.at = at, !.next = sheet.next \ {i}, !.able = able] /\ UNCHANGED <<memberVars, gaps>>
  BY <1>1 DEF Fills, HasTool, AdminTypeOK, Sheet
<1> HIDE DEF at, able
<1>4. Becomes(at, sheet.active, able, sheet.known, sheet.where, sheet.next \ {i})
  BY <1>2, <1>3 DEF Becomes, AdminTypeOK, Sheet
<1> QED
  BY <1>4 DEF at, able

\* The tools, and the instances of the page that is about them.
LEMMA FleetListed ==
    ASSUME AdminTypeOK, Registered \subseteq Members, toolKnown \in BOOLEAN
    PROVE  /\ ListTools => Becomes("fleet", sheet.active, sheet.able, toolKnown, sheet.where, sheet.next)
           /\ ListFleet => Becomes(After(Registered, "where", "shown"), sheet.active,
                                   sheet.able, sheet.known, sheet.where, Registered)
<1> DEFINE at == After(Registered, "where", "shown")
<1>1. at \in SheetStages /\ "fleet" \in SheetStages
  BY AfterStage DEF SheetStages
<1>2. ASSUME ListTools
      PROVE  Becomes("fleet", sheet.active, sheet.able, toolKnown, sheet.where, sheet.next)
  BY <1>1, <1>2 DEF ListTools, Fills, Becomes, AdminTypeOK, Sheet
<1>3. ASSUME ListFleet
      PROVE  Becomes(at, sheet.active, sheet.able, sheet.known, sheet.where, Registered)
  <2>1. sheet' = [sheet EXCEPT !.at = at, !.next = Registered] /\ UNCHANGED <<memberVars, gaps>>
    BY <1>3 DEF ListFleet, Fills, ListInstances
  <2> HIDE DEF at
  <2> QED
    BY <1>1, <2>1 DEF Becomes, AdminTypeOK, Sheet
<1> QED
  BY <1>2, <1>3

\* The instances that have a tool which is listed.
LEMMA WhereRead ==
    ASSUME AdminTypeOK, ReadWhere
    PROVE  \E i \in sheet.next :
              Becomes(After(sheet.next \ {i}, "where", "shown"), sheet.active, sheet.able, sheet.known,
                      IF i \in capable /\ sheet.known THEN sheet.where \cup {i} ELSE sheet.where,
                      sheet.next \ {i})
<1>1. PICK i \in sheet.next :
        Fills([sheet EXCEPT !.at = After(sheet.next \ {i}, "where", "shown"), !.next = @ \ {i},
                            !.where = IF HasTool(i) /\ sheet.known THEN @ \cup {i} ELSE @])
  BY DEF ReadWhere
<1> DEFINE at == After(sheet.next \ {i}, "where", "shown")
           where == IF i \in capable /\ sheet.known THEN sheet.where \cup {i} ELSE sheet.where
<1>2. at \in SheetStages /\ where \subseteq Members
  BY AfterStage DEF SheetStages, AdminTypeOK, Sheet
<1>3. sheet' = [sheet EXCEPT !.at = at, !.next = sheet.next \ {i}, !.where = where] /\ UNCHANGED <<memberVars, gaps>>
  BY <1>1 DEF Fills, HasTool, AdminTypeOK, Sheet
<1> HIDE DEF at, where
<1>4. Becomes(at, sheet.active, sheet.able, sheet.known, where, sheet.next \ {i})
  BY <1>2, <1>3 DEF Becomes, AdminTypeOK, Sheet
<1> QED
  BY <1>4 DEF at, where

\* The statements of the page of instances.
LEMMA InstancesOpened ==
    ASSUME AdminTypeOK, Registered \subseteq Members, OpenInstances
    PROVE  Becomes(After(Registered, "rows", "leader"), sheet.active,
                   sheet.able, sheet.known, sheet.where, Registered)
<1> DEFINE at == After(Registered, "rows", "leader")
<1>1. at \in SheetStages
  BY AfterStage DEF SheetStages
<1>2. sheet' = [sheet EXCEPT !.at = at, !.next = Registered] /\ UNCHANGED <<memberVars, gaps>>
  BY DEF OpenInstances, Fills, ListInstances
<1> HIDE DEF at
<1> QED
  BY <1>1, <1>2 DEF Becomes, AdminTypeOK, Sheet, at

\* A row of the instances' page is read again.
LEMMA RowRead ==
    ASSUME AdminTypeOK, ReadRow
    PROVE  \E i \in sheet.next :
              Becomes(After(sheet.next \ {i}, "rows", "leader"), sheet.active,
                      IF i \in capable \/ ~sheet.needs THEN sheet.able \cup {i} ELSE sheet.able,
                      sheet.known, sheet.where, sheet.next \ {i})
<1>1. PICK i \in sheet.next :
        Fills([sheet EXCEPT !.at = After(sheet.next \ {i}, "rows", "leader"), !.next = @ \ {i},
                            !.able = IF HasTool(i) \/ ~sheet.needs THEN @ \cup {i} ELSE @])
  BY DEF ReadRow
<1> DEFINE at == After(sheet.next \ {i}, "rows", "leader")
           able == IF i \in capable \/ ~sheet.needs THEN sheet.able \cup {i} ELSE sheet.able
<1>2. at \in SheetStages /\ able \subseteq Members
  BY AfterStage DEF SheetStages, AdminTypeOK, Sheet
<1>3. sheet' = [sheet EXCEPT !.at = at, !.next = sheet.next \ {i}, !.able = able] /\ UNCHANGED <<memberVars, gaps>>
  BY <1>1 DEF Fills, HasTool, AdminTypeOK, Sheet
<1> HIDE DEF at, able
<1>4. Becomes(at, sheet.active, able, sheet.known, sheet.where, sheet.next \ {i})
  BY <1>2, <1>3 DEF Becomes, AdminTypeOK, Sheet
<1> QED
  BY <1>4 DEF at, able

\* The leader is shown, or its name is looked up.
LEMMA LeaderNamed ==
    ASSUME AdminTypeOK, KeysOK, GetLeader \/ NameLeader
    PROVE  \E at \in {"shown", "name"} :
              Becomes(at, sheet.active, sheet.able, sheet.known, sheet.where, sheet.next)
<1>0. {"shown", "name"} \subseteq SheetStages
  BY DEF SheetStages
<1>1. CASE GetLeader
  <2> DEFINE holder == IF lease.left > 0 THEN lease.holder ELSE Nobody
             at == IF holder = Nobody THEN "shown" ELSE "name"
  <2>1. at \in {"shown", "name"} /\ holder \in Members \cup {Nobody}
    BY DEF KeysOK, MemberTypeOK
  <2>2. sheet' = [sheet EXCEPT !.at = at, !.leader = holder] /\ UNCHANGED <<memberVars, gaps>>
    BY <1>1 DEF GetLeader, Fills
  <2> HIDE DEF holder, at
  <2> QED
    BY <1>0, <2>1, <2>2 DEF Becomes, AdminTypeOK, Sheet
<1>2. CASE NameLeader
  <2> DEFINE named == sheet.leader \in ListInstances
  <2>1. named \in BOOLEAN
    OBVIOUS
  <2>2. sheet' = [sheet EXCEPT !.at = "shown", !.named = named] /\ UNCHANGED <<memberVars, gaps>>
    BY <1>2 DEF NameLeader, Fills
  <2> HIDE DEF named
  <2> QED
    BY <1>0, <2>1, <2>2 DEF Becomes, AdminTypeOK, Sheet
<1> QED
  BY <1>1, <1>2

\* A statement that fails leaves the page a page.
LEMMA FailureTypes ==
    ASSUME AdminTypeOK, SheetFails
    PROVE  sheet' \in Sheet /\ gaps' = TRUE
<1> USE DEF AdminTypeOK, Sheet
<1>0. gaps' = TRUE /\ {"refused", "leader", "tools", "shown"} \subseteq SheetStages
  BY DEF SheetFails, SheetStages
<1>1. CASE \E i \in sheet.next :
             sheet' = [sheet EXCEPT
                    !.next = @ \ {i},
                    !.at = After(sheet.next \ {i}, @, CASE @ \in {"ask", "collect"} -> "tools"
                                                        [] @ = "where" -> "shown"
                                                        [] @ = "rows" -> "leader"),
                    !.able = IF sheet.at = "rows" /\ ~sheet.needs THEN @ \cup {i} ELSE @]
           /\ sheet.at \in {"ask", "collect", "where", "rows"}
  <2>1. PICK i \in sheet.next :
             sheet' = [sheet EXCEPT
                    !.next = @ \ {i},
                    !.at = After(sheet.next \ {i}, @, CASE @ \in {"ask", "collect"} -> "tools"
                                                        [] @ = "where" -> "shown"
                                                        [] @ = "rows" -> "leader"),
                    !.able = IF sheet.at = "rows" /\ ~sheet.needs THEN @ \cup {i} ELSE @]
           /\ sheet.at \in {"ask", "collect", "where", "rows"}
    BY <1>1
  <2> DEFINE end == CASE sheet.at \in {"ask", "collect"} -> "tools"
                      [] sheet.at = "where" -> "shown"
                      [] sheet.at = "rows" -> "leader"
             at == After(sheet.next \ {i}, sheet.at, end)
             able == IF sheet.at = "rows" /\ ~sheet.needs THEN sheet.able \cup {i} ELSE sheet.able
  <2>2. end \in SheetStages
    BY <1>0, <2>1
  <2>3. at \in SheetStages /\ able \subseteq Members
    BY <2>2, AfterStage
  <2>4. sheet' = [sheet EXCEPT !.next = sheet.next \ {i}, !.at = at, !.able = able]
    BY <2>1
  <2> HIDE DEF at, able
  <2> QED
    BY <1>0, <2>3, <2>4
<1> QED
  BY <1>0, <1>1 DEF SheetFails

\* What a statement of the page does, in short.
LEMMA SheetRead ==
    ASSUME KeysOK, AdminTypeOK, SheetStep, ~SheetFails
    PROVE  UNCHANGED <<memberVars, gaps>> /\ sheet' \in Sheet /\ sheet.at \notin {"shown", "refused"}
<1>0. Registered \subseteq Members /\ toolKnown \in BOOLEAN
  BY DEF Registered, KeysOK, MemberTypeOK
<1> USE <1>0 DEF Becomes
<1>1. CASE OpenAgents
  BY <1>1, AgentsOpened DEF OpenAgents
<1>2. CASE ProbeInstances
  BY <1>2, InstancesProbed DEF ProbeInstances
<1>3. CASE AskInstance
  BY <1>3, InstanceAsked DEF AskInstance
<1>4. CASE ListCapable
  BY <1>4, CapableListed DEF ListCapable
<1>5. CASE CollectInstance
  BY <1>5, InstanceCollected DEF CollectInstance
<1>6. CASE ListTools
  BY <1>6, FleetListed DEF ListTools
<1>7. CASE ListFleet
  BY <1>7, FleetListed DEF ListFleet
<1>8. CASE ReadWhere
  BY <1>8, WhereRead DEF ReadWhere
<1>9. CASE OpenInstances
  BY <1>9, InstancesOpened DEF OpenInstances
<1>10. CASE ReadRow
  BY <1>10, RowRead DEF ReadRow
<1>11. CASE GetLeader \/ NameLeader
  BY <1>11, LeaderNamed DEF GetLeader, NameLeader
<1> QED
  BY <1>1, <1>2, <1>3, <1>4, <1>5, <1>6, <1>7, <1>8, <1>9, <1>10, <1>11 DEF SheetStep

\* A step of the page or of the instances is no step of the others.
LEMMA FleetStep ==
    ASSUME KeysOK, AdminTypeOK, [AdminNext]_<<memberVars, adminVars>>
    PROVE  [MemberNext]_memberVars
  BY SheetRead DEF AdminNext, SheetFails

\* Every step keeps the type of what is read and watched.
LEMMA SheetTypes ==
    ASSUME KeysOK, KeysOK', AdminTypeOK, [AdminNext]_<<memberVars, adminVars>>
    PROVE  AdminTypeOK'
<1>0. Registered' \subseteq Members /\ capable' \subseteq Members
  BY DEF Registered, KeysOK, MemberTypeOK
<1>1. CASE UNCHANGED <<memberVars, adminVars>>
  BY <1>1 DEF AdminTypeOK, adminVars
<1>2. CASE AdminNext
  <2>1. Fit' \subseteq Members
    BY <1>0 DEF Fit
  <2>2. ever' \subseteq Members /\ through' \subseteq Members
    BY <1>2, <2>1 DEF AdminNext, Watch, AdminTypeOK
  <2>3. sheet' \in Sheet /\ gaps' \in BOOLEAN
    BY <1>2, SheetRead, FailureTypes DEF AdminNext, AdminTypeOK
  <2> QED
    BY <2>2, <2>3 DEF AdminTypeOK
<1> QED
  BY <1>1, <1>2

\* A statement of the page adds what is so when it is made.
LEMMA SheetInvStep ==
    ASSUME KeysOK, KeysOK', AdminTypeOK, AdminTypeOK', SheetInv, [AdminNext]_<<memberVars, adminVars>>
    PROVE  SheetInv'
<1>1. CASE UNCHANGED <<memberVars, adminVars>>
  BY <1>1 DEF SheetInv, adminVars, memberVars, Fit, Registered
<1>2. ASSUME MemberNext, UNCHANGED <<sheet, gaps>>, Watch PROVE SheetInv'
  BY <1>2 DEF SheetInv, Watch, AdminTypeOK
<1>3. CASE SheetFails
  BY <1>3, FailureTypes DEF SheetInv
<1>4. ASSUME SheetStep, ~SheetFails, Watch PROVE SheetInv'
  <2>0. /\ gaps' = gaps /\ UNCHANGED memberVars /\ sheet.at \notin {"shown", "refused"}
    BY <1>4, SheetRead
  <2>1. /\ Fit \subseteq Registered /\ Registered' = Registered /\ capable' = capable
        /\ capable \subseteq Registered /\ Registered \subseteq Members /\ toolKnown \in BOOLEAN
        /\ (capable # {} => toolKnown)
    BY <2>0 DEF KeysOK, Fit, memberVars, Registered, MemberTypeOK
  <2>2. sheet \in Sheet /\ sheet.needs \in BOOLEAN /\ sheet.active \in BOOLEAN
    BY DEF AdminTypeOK, Sheet
  <2> USE <2>0, <2>1, <2>2 DEF SheetInv, Becomes, After, Fit
  <2>3. CASE OpenAgents
    BY <1>4, <2>3, AgentsOpened DEF OpenAgents, Watch
  <2>4. CASE sheet.at # "closed"
    <3>1. sheet'.at # "closed" => ever' = ever \cup Fit' /\ through' = through \cap Fit'
      BY <1>4, <2>4 DEF Watch
    <3>2. CASE ProbeInstances
      BY <2>4, <3>1, <3>2, InstancesProbed DEF ProbeInstances
    <3>3. CASE AskInstance
      BY <2>4, <3>1, <3>3, InstanceAsked DEF AskInstance
    <3>4. CASE ListCapable
      BY <2>4, <3>1, <3>4, CapableListed DEF ListCapable
    <3>5. CASE CollectInstance
      BY <2>4, <3>1, <3>5, InstanceCollected DEF CollectInstance
    <3>6. CASE ListTools
      BY <2>4, <3>1, <3>6, FleetListed DEF ListTools
    <3>7. CASE ListFleet
      BY <2>4, <3>1, <3>7, FleetListed DEF ListFleet
    <3>8. CASE ReadWhere
      BY <2>4, <3>1, <3>8, WhereRead DEF ReadWhere
    <3>10. CASE ReadRow
      BY <2>4, <3>1, <3>10, RowRead DEF ReadRow
    <3>11. CASE GetLeader \/ NameLeader
      BY <2>4, <3>1, <3>11, LeaderNamed DEF GetLeader, NameLeader
    <3> QED
      BY <1>4, <2>4, <3>2, <3>3, <3>4, <3>5, <3>6, <3>7, <3>8, <3>10, <3>11
         DEF SheetStep, OpenAgents, OpenInstances
  <2>5. CASE OpenInstances
    BY <1>4, <2>5, InstancesOpened DEF OpenInstances, Watch
  <2> QED
    BY <1>4, <2>3, <2>4, <2>5
       DEF SheetStep, ProbeInstances, AskInstance, ListCapable, CollectInstance, ListTools, ListFleet,
           ReadWhere, ReadRow, GetLeader, NameLeader
<1> QED
  BY <1>1, <1>2, <1>3, <1>4 DEF AdminNext

\* What a page has read is so in every reachable state, and what it has not read yet it
\* has listed.
THEOREM FleetInvHolds == AdminSpec => []FleetInv
<1>1. MemberInit /\ AdminInit => FleetInv
  <2> SUFFICES ASSUME MemberInit, AdminInit PROVE FleetInv
    OBVIOUS
  <2>1. MemberTypeOK /\ capable = {}
    <3>1. toolKnown \in BOOLEAN
      BY Zenon DEF MemberInit
    <3> QED
      BY <3>1, ConfigAssumption DEF validate, MemberInit, MemberTypeOK, Lives, NoRow
  <2>2. KeysOK
    BY <2>1 DEF KeysOK
  <2>3. AdminTypeOK
    <3>1. PICK kind \in {"agents", "instances"}, needs \in BOOLEAN :
            sheet = [kind |-> kind, at |-> "closed", needs |-> needs, active |-> FALSE, able |-> {},
                     known |-> FALSE, where |-> {}, leader |-> Nobody, named |-> FALSE, next |-> {}]
      BY DEF AdminInit
    <3>2. sheet \in Sheet
      BY <3>1 DEF Sheet, SheetStages
    <3> QED
      BY <3>2 DEF AdminInit, AdminTypeOK
  <2>4. SheetInv
    BY DEF AdminInit, SheetInv
  <2> QED
    BY <2>2, <2>3, <2>4 DEF FleetInv
<1>2. FleetInv /\ [AdminNext]_<<memberVars, adminVars>> => FleetInv'
  BY FleetStep, KeysStep, SheetTypes, SheetInvStep DEF FleetInv
<1> QED
  BY <1>1, <1>2, PTL DEF AdminSpec

\* The pages list as capable every instance that was so all the time they were read and
\* none that never was, and show an agent as active accordingly (agents.go:117, 153;
\* instances.go:66): for any number of instances that come and go meanwhile.
THEOREM FleetIsShown == AdminSpec => []FleetShown
<1>1. FleetInv => FleetShown
  BY DEF FleetInv, SheetInv, FleetShown, AdminTypeOK, Sheet
<1> QED
  BY <1>1, FleetInvHolds, PTL

-----------------------------------------------------------------------------
(* The session under the pages.                                            *)

\* A run works only while it runs.
AtWork == \A r \in SessionRuns : runs[r].at # "idle" => runs[r].state = "running"

\* Every message is a run's that was created before it.
Authors == \A m \in log : m.run \in SessionRuns /\ runs[m.run].state # "none"

\* A child run was started for a call of a run that was created before it, and the call
\* names no other child.
Families ==
    /\ \A r \in SessionRuns : runs[r].state = "none" => runs[r].asks = NoUse
    /\ \A k \in Kids : runs[k].state # "none" => runs[k].asks # NoUse
    /\ \A r \in SessionRuns : runs[r].asks # NoUse => calls[runs[r].asks].state \notin {"none", "asked"}
    /\ \A u \in Uses : calls[u].state # "none" =>
          calls[u].of \in SessionRuns /\ runs[calls[u].of].state # "none"
    /\ \A u \in Uses : calls[u].kid # NoRun => runs[calls[u].kid].asks = u

Mine(r) == {m \in log : m.run = r}

\* The last message of the run is not one of results.
Spoke(r) ==
    \E m \in Mine(r) : (\A n \in Mine(r) : n.id <= m.id) /\ \E b \in m.body : b.kind # "result"

\* A run that is settled has its last word in the session, whole: unless it failed, only
\* the message it is just writing has no blocks.
LastWord(r) ==
    /\ runs[r].at \notin {"prompting", "answering"} /\ runs[r].state # "failed" => \A m \in Mine(r) : m.filled
    /\ runs[r].at \in {"prompting", "answering"} => \A m, n \in Mine(r) : m.filled \/ n.filled \/ m = n
    /\ runs[r].at \in {"answering", "answered"} \/ runs[r].state = "completed" => Spoke(r)

SessionInv ==
    /\ MessagesOK /\ RunsOK
    /\ AtWork /\ Authors /\ Families
    /\ \A r \in SessionRuns : LastWord(r)

\* What a run writes: a message of its own, or the blocks of one.
Adds(r, new) == new \in Message /\ new.run = r /\ new.id = count + 1 /\ log' = log \cup {new}

\* A message is added with an ID of its own.
LEMMA Inserted ==
    ASSUME MessagesOK, NEW r \in SessionRuns, NEW role \in {"user", "assistant"}, NEW body \in SUBSET Blocks
    PROVE  /\ Insert(Fresh(r, role, body)) =>
                \E new \in Message : Adds(r, new) /\ new.body = body /\ ~new.filled
           /\ Insert([Fresh(r, role, body) EXCEPT !.filled = TRUE]) =>
                \E new \in Message : Adds(r, new) /\ new.body = body /\ new.filled
<1>0. count + 1 \in Nat
  BY DEF MessagesOK
<1> DEFINE first == Fresh(r, role, body)
           whole == [Fresh(r, role, body) EXCEPT !.filled = TRUE]
<1>1. /\ first \in Message /\ first.run = r /\ first.body = body /\ ~first.filled
      /\ whole \in Message /\ whole.run = r /\ whole.body = body /\ whole.filled
  BY DEF Fresh, Message
<1> HIDE DEF first, whole
<1>2. ASSUME NEW m \in Message, Insert(m), m.run = r
      PROVE  \E new \in Message : Adds(r, new) /\ new.body = m.body /\ new.filled = m.filled
  <2> DEFINE new == [m EXCEPT !.id = count + 1]
  <2>1. new \in Message /\ new.run = r /\ new.id = count + 1 /\ new.body = m.body /\ new.filled = m.filled
    BY <1>0, <1>2 DEF Message
  <2>2. log' = log \cup {new}
    BY <1>2 DEF Insert
  <2> HIDE DEF new
  <2> QED
    BY <2>1, <2>2 DEF Adds
<1>3. Insert(first) => \E new \in Message : Adds(r, new) /\ new.body = body /\ ~new.filled
  BY <1>1, <1>2
<1>4. Insert(whole) => \E new \in Message : Adds(r, new) /\ new.body = body /\ new.filled
  BY <1>1, <1>2
<1> QED
  BY <1>3, <1>4 DEF first, whole

\* The prompt of a run.
LEMMA Prompted ==
    ASSUME MessagesOK, NEW r \in SessionRuns, InsertPrompt(r)
    PROVE  \E new \in Message : Adds(r, new)
<1>1. Insert(Fresh(r, "user", {Text})) /\ {Text} \in SUBSET Blocks
  BY TextBody DEF InsertPrompt
<1> QED
  BY <1>1, Inserted

\* An answer of the API, which is not a list of results.
LEMMA Answered ==
    ASSUME MessagesOK, NEW r \in SessionRuns, InsertAnswer(r)
    PROVE  \E new \in Message : Adds(r, new) /\ \E b \in new.body : b.kind # "result"
<1>1. PICK U \in SUBSET Uses :
        Insert(Fresh(r, "assistant", IF U = {} THEN {Text} ELSE {UseOf(u) : u \in U}))
  BY DEF InsertAnswer
<1> DEFINE body == IF U = {} THEN {Text} ELSE {UseOf(u) : u \in U}
<1>2. body \in SUBSET Blocks /\ \E b \in body : b.kind # "result"
  <2>1. CASE U = {}
    BY <2>1 DEF Blocks, Text
  <2>2. ASSUME NEW u \in U PROVE body \in SUBSET Blocks /\ \E b \in body : b.kind # "result"
    <3>1. UseOf(u) \in body /\ UseOf(u).kind = "use"
      BY <2>2 DEF UseOf
    <3> QED
      BY <2>2, <3>1 DEF Blocks
  <2> QED
    BY <2>1, <2>2
<1>4. Insert(Fresh(r, "assistant", body))
  BY <1>1
<1> HIDE DEF body
<1>5. body \in SUBSET Blocks
  BY <1>2
<1>3. \E new \in Message : Adds(r, new) /\ new.body = body
  BY <1>4, <1>5, Inserted
<1> QED
  BY <1>2, <1>3

\* The results of a turn, with their message.
LEMMA Continued ==
    ASSUME MessagesOK, NEW r \in SessionRuns, ContinueTurn(r)
    PROVE  \E new \in Message : Adds(r, new) /\ new.filled
<1> DEFINE asked == {u \in Uses : calls[u].of = r /\ calls[u].turn = runs[r].turn}
           body == {ResultOf(u) : u \in asked}
<1>1. body \in SUBSET Blocks
  BY DEF Blocks
<1>2. Insert([Fresh(r, "user", body) EXCEPT !.filled = TRUE])
  BY DEF ContinueTurn
<1> HIDE DEF body
<1> QED
  BY <1>1, <1>2, Inserted

\* The blocks of a message of the run.
LEMMA FilledOwn ==
    ASSUME MessagesOK, NEW r \in SessionRuns, FillOwn(r)
    PROVE  \E m \in Mine(r), new \in Message :
              /\ ~m.filled /\ new.filled /\ new.id = m.id /\ new.run = r /\ new.body = m.body
              /\ log' = (log \ {m}) \cup {new}
<1>1. PICK m \in log : m.run = r /\ Fill(m)
  BY DEF FillOwn
<1> DEFINE new == [m EXCEPT !.filled = TRUE]
<1>2. m \in Message
  BY DEF MessagesOK
<1>3. new \in Message /\ new.id = m.id /\ new.run = r /\ new.body = m.body /\ new.filled
  BY <1>1, <1>2 DEF Message
<1>4. ~m.filled /\ log' = (log \ {m}) \cup {new}
  BY <1>1 DEF Fill
<1> HIDE DEF new
<1> QED
  BY <1>1, <1>3, <1>4 DEF Mine

\* Two statements of a run write nothing, and the others nothing of another run.
Silent(r) == r \in SessionRuns /\ (Submit(r) \/ Take(r) \/ SettleTurn(r) \/ FailSessionRun(r) \/ LinkChild(r))
Writes(r) == r \in SessionRuns /\ (InsertPrompt(r) \/ InsertAnswer(r) \/ FillOwn(r) \/ ContinueTurn(r))
Tools == \E u \in Uses : RunTool(u) \/ \E k \in Kids : Delegate(u, k)

\* The steps of the session, by what they write.
LEMMA LogNextParts ==
    LogNext => (\E r \in SessionRuns : Silent(r) \/ Writes(r)) \/ Tools
  BY DEF LogNext, RunWrites, Silent, Writes, Tools

\* A run writes messages of its own.
LEMMA OthersSame ==
    ASSUME MessagesOK, NEW r, Writes(r), NEW q, q # r
    PROVE  Mine(q)' = Mine(q)
<1>1. \A new : Adds(r, new) => Mine(q)' = Mine(q)
  BY DEF Adds, Mine
<1>2. CASE FillOwn(r)
  BY <1>2, FilledOwn DEF Mine, Writes
<1> QED
  BY <1>1, <1>2, Prompted, Answered, Continued DEF Writes

\* The other steps write none.
LEMMA SilentSame == (\E r : Silent(r)) \/ Tools => UNCHANGED <<log, count>>
  BY DEF Silent, Tools, Submit, Take, SettleTurn, FailSessionRun, LinkChild, RunTool, Delegate

\* The rows of runs.
LEMMA RowsChange ==
    ASSUME RunsOK, AtWork, NEW r, Writes(r)
    PROVE  /\ \A q \in SessionRuns : q # r => runs'[q] = runs[q]
           /\ runs'[r].asks = runs[r].asks
           /\ runs[r].state \in LiveStates /\ runs'[r].state \in LiveStates
           /\ InsertPrompt(r) => runs[r].at = "prompt" /\ runs'[r].at = "prompting" /\ runs'[r].state = runs[r].state
           /\ InsertAnswer(r) => runs[r].at = "ask" /\ runs'[r].at = "answering" /\ runs'[r].state = runs[r].state
           /\ FillOwn(r) => /\ \/ runs[r].at = "prompting" /\ runs'[r].at = "ask"
                               \/ runs[r].at = "answering" /\ runs'[r].at = "answered"
                            /\ runs'[r].state = runs[r].state
           /\ ContinueTurn(r) => /\ runs[r].state = "pending_tools" /\ runs'[r].state = "pending"
                                 /\ runs'[r].at = runs[r].at
<1>0. r \in SessionRuns /\ runs \in [SessionRuns -> RunOfSession] /\ runs[r] \in RunOfSession
  BY DEF RunsOK, Writes
<1>1. ASSUME NEW at \in Steps, runs' = [runs EXCEPT ![r].at = at]
      PROVE  /\ \A q \in SessionRuns : q # r => runs'[q] = runs[q]
             /\ runs'[r].asks = runs[r].asks /\ runs'[r].at = at /\ runs'[r].state = runs[r].state
  BY <1>0, <1>1 DEF RunOfSession
<1>2. CASE InsertPrompt(r)
  <2>1. "prompting" \in Steps /\ runs' = [runs EXCEPT ![r].at = "prompting"] /\ runs[r].at = "prompt"
    BY <1>2 DEF InsertPrompt, Steps
  <2> QED
    BY <1>0, <1>1, <2>1 DEF AtWork, LiveStates, InsertAnswer, FillOwn, ContinueTurn
<1>3. CASE InsertAnswer(r)
  <2>1. /\ runs[r].at = "ask"
        /\ runs' = [runs EXCEPT ![r].at = "answering", ![r].turn = @ + 1]
    BY <1>3 DEF InsertAnswer
  <2>2. /\ \A q \in SessionRuns : q # r => runs'[q] = runs[q]
        /\ runs'[r].asks = runs[r].asks /\ runs'[r].at = "answering" /\ runs'[r].state = runs[r].state
    BY <1>0, <2>1 DEF RunOfSession
  <2> QED
    BY <1>0, <2>1, <2>2 DEF AtWork, LiveStates, InsertPrompt, FillOwn, ContinueTurn
<1>4. CASE FillOwn(r)
  <2> DEFINE at == IF runs[r].at = "prompting" THEN "ask" ELSE "answered"
  <2>1. at \in Steps /\ runs' = [runs EXCEPT ![r].at = at] /\ runs[r].at \in {"prompting", "answering"}
    BY <1>0, <1>4 DEF FillOwn, Steps, RunOfSession
  <2>2. /\ \A q \in SessionRuns : q # r => runs'[q] = runs[q]
        /\ runs'[r].asks = runs[r].asks /\ runs'[r].at = at /\ runs'[r].state = runs[r].state
    BY <1>1, <2>1
  <2> QED
    BY <1>0, <2>1, <2>2 DEF AtWork, LiveStates, InsertPrompt, InsertAnswer, ContinueTurn
<1>5. CASE ContinueTurn(r)
  <2>1. runs[r].state = "pending_tools" /\ runs' = [runs EXCEPT ![r].state = "pending"]
    BY <1>5 DEF ContinueTurn
  <2>2. /\ \A q \in SessionRuns : q # r => runs'[q] = runs[q]
        /\ runs'[r].asks = runs[r].asks /\ runs'[r].at = runs[r].at /\ runs'[r].state = "pending"
    BY <1>0, <2>1 DEF RunOfSession
  <2> QED
    BY <1>0, <2>1, <2>2 DEF AtWork, LiveStates, InsertPrompt, InsertAnswer, FillOwn
<1> QED
  BY <1>2, <1>3, <1>4, <1>5 DEF Writes

\* How a run goes on: it is created once, and ends once.
Onward(q) ==
    /\ runs'[q].at # "idle" => runs'[q].state = "running"
    /\ \A s \in {"completed", "failed"} : runs[q].state = s => runs'[q].state = s
    /\ runs[q].state # "none" => runs'[q].state # "none" /\ runs'[q].asks = runs[q].asks
    /\ runs[q].state = "none" /\ runs'[q].state # "none" =>
          \/ q \in Roots /\ runs'[q].asks = runs[q].asks
          \/ q \in Kids /\ runs'[q].asks \in Uses /\ calls'[runs'[q].asks].state = "running"
    /\ runs'[q].state = "none" => runs'[q].asks = runs[q].asks

\* A run that writes nothing begins no message, and leaves none half-way unless it fails.
Wordless(q) ==
    /\ runs'[q].at \in {"prompting", "answering"} => runs'[q].at = runs[q].at
    /\ runs[q].at \in {"prompting", "answering"} => runs'[q].at = runs[q].at \/ runs'[q].state = "failed"
    /\ runs'[q].at = "answered" \/ runs'[q].state = "completed" =>
          runs[q].at = "answered" \/ runs[q].state = "completed"

\* Runs that write nothing go on.
LEMMA SilentRows ==
    ASSUME RunsOK, AtWork, (\E r : Silent(r)) \/ Tools, NEW q \in SessionRuns
    PROVE  Onward(q) /\ Wordless(q)
<1>0. /\ runs \in [SessionRuns -> RunOfSession] /\ runs[q] \in RunOfSession
      /\ calls \in [Uses -> CallOfSession]
  BY DEF RunsOK
<1>1. runs'[q] = runs[q] => Onward(q) /\ Wordless(q)
  BY DEF Onward, Wordless, AtWork
<1>2. ASSUME NEW r, Silent(r) PROVE Onward(q) /\ Wordless(q)
  <2>0. r \in SessionRuns /\ runs[r] \in RunOfSession
    BY <1>0, <1>2 DEF Silent
  <2>1. CASE Submit(r)
    <3>1. runs' = [runs EXCEPT ![r].state = "pending"] /\ r \in Roots /\ runs[r].state = "none"
      BY <2>1 DEF Submit
    <3> QED
      BY <1>0, <1>1, <2>0, <3>1 DEF RunOfSession, Onward, Wordless, AtWork
  <2>2. CASE Take(r)
    <3> DEFINE at == IF runs[r].turn = 0 THEN "prompt" ELSE "ask"
    <3>1. runs' = [runs EXCEPT ![r].state = "running", ![r].at = at] /\ runs[r].state = "pending"
      BY <2>2 DEF Take
    <3>2. at \in {"prompt", "ask"}
      OBVIOUS
    <3> HIDE DEF at
    <3>3. q = r => runs'[q].state = "running" /\ runs'[q].at = at /\ runs'[q].asks = runs[q].asks
      BY <1>0, <2>0, <3>1 DEF RunOfSession
    <3>4. q # r => runs'[q] = runs[q]
      BY <1>0, <2>0, <3>1
    <3> QED
      BY <1>1, <3>1, <3>2, <3>3, <3>4 DEF Onward, Wordless, AtWork
  <2>3. CASE SettleTurn(r)
    <3>1. /\ runs[r].at = "answered"
          /\ \E s \in {"completed", "pending_tools"} :
                runs' = [runs EXCEPT ![r].state = s, ![r].at = "idle"]
      BY <2>3 DEF SettleTurn
    <3> QED
      BY <1>0, <1>1, <2>0, <3>1 DEF RunOfSession, Onward, Wordless, AtWork
  <2>4. CASE FailSessionRun(r)
    <3>1. runs' = [runs EXCEPT ![r].state = "failed", ![r].at = "idle"] /\ runs[r].state \in LiveStates
      BY <2>4 DEF FailSessionRun
    <3> QED
      BY <1>0, <1>1, <2>0, <3>1 DEF RunOfSession, Onward, Wordless, AtWork, LiveStates
  <2>5. CASE LinkChild(r)
    BY <1>1, <2>5 DEF LinkChild
  <2> QED
    BY <1>2, <2>1, <2>2, <2>3, <2>4, <2>5 DEF Silent
<1>3. ASSUME NEW u \in Uses, RunTool(u) PROVE Onward(q) /\ Wordless(q)
  BY <1>1, <1>3 DEF RunTool
<1>4. ASSUME NEW u \in Uses, NEW k \in Kids, Delegate(u, k) PROVE Onward(q) /\ Wordless(q)
  <2>1. /\ runs' = [runs EXCEPT ![k].state = "pending", ![k].asks = u] /\ runs[k].state = "none"
        /\ calls' = [calls EXCEPT ![u].state = "running"]
    BY <1>4 DEF Delegate
  <2>2. k \in SessionRuns /\ runs[k] \in RunOfSession /\ calls'[u].state = "running"
    BY <1>0, <2>1 DEF SessionRuns, CallOfSession
  <2> QED
    BY <1>0, <1>1, <2>1, <2>2 DEF RunOfSession, Onward, Wordless, AtWork
<1> QED
  BY <1>2, <1>3, <1>4 DEF Tools

\* So does a run that writes, and the others stay as they are.
LEMMA WritingRows ==
    ASSUME RunsOK, AtWork, NEW r, Writes(r), NEW q \in SessionRuns
    PROVE  Onward(q) /\ (q # r => Wordless(q))
<1>1. runs'[q] = runs[q] => Onward(q) /\ Wordless(q)
  BY DEF Onward, Wordless, AtWork
<1>2. CASE q = r
  BY <1>2, RowsChange DEF Onward, AtWork, LiveStates, Writes
<1> QED
  BY <1>1, <1>2, RowsChange

\* What becomes of the calls.
CallsOnward ==
    \A u \in Uses :
        /\ calls[u].state # "none" => calls'[u].state # "none" /\ calls'[u].of = calls[u].of
        /\ calls[u].state \notin {"none", "asked"} => calls'[u].state \notin {"none", "asked"}
        /\ calls[u].state = "none" /\ calls'[u].state # "none" =>
              calls'[u].of \in SessionRuns /\ runs[calls'[u].of].state # "none"
        /\ calls'[u].kid # calls[u].kid => calls[u].kid = NoRun /\ runs[calls'[u].kid].asks = u

\* How the calls of tools go on.
LEMMA CallsStep ==
    ASSUME RunsOK, AtWork, LogNext
    PROVE  CallsOnward
<1>0. runs \in [SessionRuns -> RunOfSession] /\ calls \in [Uses -> CallOfSession]
  BY DEF RunsOK
<1>1. calls' = calls => CallsOnward
  BY DEF CallsOnward
<1>2. ASSUME NEW r \in SessionRuns, calls' = ParentTold(r) PROVE CallsOnward
  <2>1. \A u \in Uses : /\ calls'[u].kid = calls[u].kid /\ calls'[u].of = calls[u].of
                        /\ calls'[u].state = calls[u].state
                           \/ (calls[u].state = "running" /\ calls'[u].state = "ended")
    BY <1>0, <1>2 DEF ParentTold, CallOfSession
  <2> QED
    BY <2>1 DEF CallsOnward
<1>3. ASSUME NEW r \in SessionRuns, InsertAnswer(r) PROVE CallsOnward
  <2>1. PICK U \in SUBSET {u \in Uses : calls[u].state = "none"} :
          calls' = [u \in Uses |-> IF u \in U
                                   THEN [calls[u] EXCEPT !.state = "asked", !.of = r,
                                                         !.turn = runs[r].turn + 1]
                                   ELSE calls[u]]
    BY <1>3 DEF InsertAnswer
  <2>2. runs[r].state # "none"
    BY <1>3 DEF InsertAnswer, AtWork
  <2>3. \A u \in Uses :
          IF u \in U THEN /\ calls[u].state = "none" /\ calls'[u].state = "asked" /\ calls'[u].of = r
                          /\ calls'[u].kid = calls[u].kid
                     ELSE calls'[u] = calls[u]
    BY <1>0, <2>1 DEF CallOfSession
  <2> QED
    BY <2>2, <2>3 DEF CallsOnward
<1>4. ASSUME NEW r \in SessionRuns, SettleTurn(r) PROVE CallsOnward
  <2> DEFINE asked == {u \in Uses : calls[u].of = r /\ calls[u].state = "asked"}
  <2>1. CASE calls' = ParentTold(r)
    BY <1>2, <2>1
  <2>2. CASE calls' = [u \in Uses |-> IF u \in asked THEN [calls[u] EXCEPT !.state = "pending"] ELSE calls[u]]
    <3>1. \A u \in Uses :
            IF u \in asked THEN /\ calls[u].state = "asked" /\ calls'[u].state = "pending"
                                /\ calls'[u].of = calls[u].of /\ calls'[u].kid = calls[u].kid
                           ELSE calls'[u] = calls[u]
      BY <1>0, <2>2 DEF CallOfSession
    <3> QED
      BY <3>1 DEF CallsOnward
  <2> QED
    BY <1>4, <2>1, <2>2 DEF SettleTurn
<1>5. ASSUME NEW u \in Uses, calls[u].state = "pending",
             NEW s \in {"ended", "running"}, calls' = [calls EXCEPT ![u].state = s]
      PROVE  CallsOnward
  <2>1. \A v \in Uses : /\ v # u => calls'[v] = calls[v]
                        /\ calls'[u].state = s /\ calls'[u].of = calls[u].of /\ calls'[u].kid = calls[u].kid
    BY <1>0, <1>5 DEF CallOfSession
  <2> QED
    BY <1>5, <2>1 DEF CallsOnward
<1>6. ASSUME NEW k \in SessionRuns, LinkChild(k) PROVE CallsOnward
  <2>1. /\ k \in Kids /\ runs[k].asks # NoUse /\ calls[runs[k].asks].kid = NoRun
        /\ calls' = [calls EXCEPT ![runs[k].asks].kid = k]
    BY <1>6 DEF LinkChild
  <2>2. runs[k].asks \in Uses
    BY <1>0, <2>1 DEF RunOfSession
  <2>3. \A v \in Uses : /\ v # runs[k].asks => calls'[v] = calls[v]
                        /\ v = runs[k].asks => /\ calls'[v].kid = k /\ calls'[v].of = calls[v].of
                                               /\ calls'[v].state = calls[v].state
    BY <1>0, <2>1, <2>2 DEF CallOfSession
  <2> QED
    BY <2>1, <2>2, <2>3 DEF CallsOnward
<1>7. ASSUME NEW r \in SessionRuns, RunWrites(r) PROVE CallsOnward
  BY <1>1, <1>2, <1>3, <1>4, <1>6, <1>7
     DEF RunWrites, Submit, Take, InsertPrompt, FillOwn, ContinueTurn, FailSessionRun
<1>8. ASSUME NEW u \in Uses, RunTool(u) \/ \E k \in Kids : Delegate(u, k) PROVE CallsOnward
  BY <1>5, <1>8 DEF RunTool, Delegate
<1> QED
  BY <1>7, <1>8 DEF LogNext

\* Whatever the step.
LEMMA LogGoesOn ==
    ASSUME RunsOK, AtWork, LogNext, NEW q \in SessionRuns
    PROVE  Onward(q)
  BY LogNextParts, SilentRows, WritingRows

\* A child keeps its call, and the call its child.
LEMMA FamiliesStep ==
    ASSUME RunsOK, RunsOK', AtWork, Families, LogNext
    PROVE  Families'
<1>0. /\ \A q \in SessionRuns : runs[q].asks \in Uses \cup {NoUse} /\ runs'[q].asks \in Uses \cup {NoUse}
      /\ \A u \in Uses : /\ calls[u].of \in SessionRuns \cup {NoRun}
                         /\ calls'[u].kid \in Kids \cup {NoRun} /\ calls[u].kid \in Kids \cup {NoRun}
      /\ Kids \subseteq SessionRuns /\ NoRun \notin SessionRuns /\ NoUse \notin Uses /\ Roots \cap Kids = {}
  BY RunsAssumption, UsesAssumption DEF RunsOK, RunOfSession, CallOfSession, SessionRuns
<1>1. CallsOnward /\ \A q \in SessionRuns : Onward(q)
  BY CallsStep, LogGoesOn
<1>2. ASSUME NEW r \in SessionRuns, runs'[r].state = "none" PROVE runs'[r].asks = NoUse
  BY <1>1, <1>2 DEF Onward, Families
<1>3. ASSUME NEW k \in Kids, runs'[k].state # "none" PROVE runs'[k].asks # NoUse
  BY <1>0, <1>1, <1>3 DEF Onward, Families
<1>4. ASSUME NEW r \in SessionRuns, runs'[r].asks # NoUse
      PROVE  calls'[runs'[r].asks].state \notin {"none", "asked"}
  <2>1. CASE runs'[r].asks = runs[r].asks
    BY <1>0, <1>1, <1>4, <2>1 DEF CallsOnward, Families
  <2>2. CASE runs'[r].asks # runs[r].asks
    BY <1>0, <1>1, <2>2 DEF Onward
  <2> QED
    BY <2>1, <2>2
<1>5. ASSUME NEW u \in Uses, calls'[u].state # "none"
      PROVE  calls'[u].of \in SessionRuns /\ runs'[calls'[u].of].state # "none"
  <2>1. calls'[u].of \in SessionRuns /\ runs[calls'[u].of].state # "none"
    BY <1>1, <1>5 DEF CallsOnward, Families
  <2> QED
    BY <1>1, <2>1 DEF Onward
<1>6. ASSUME NEW u \in Uses, calls'[u].kid # NoRun PROVE runs'[calls'[u].kid].asks = u
  <2> DEFINE k == calls'[u].kid
  <2>1. runs[k].asks = u /\ k \in SessionRuns
    BY <1>0, <1>1, <1>6 DEF CallsOnward, Families
  <2>2. runs[k].state # "none"
    BY <1>0, <2>1 DEF Families
  <2> QED
    BY <1>1, <2>1, <2>2 DEF Onward
<1> QED
  BY <1>2, <1>3, <1>4, <1>5, <1>6 DEF Families

\* A message has an author that was created.
LEMMA AuthorsStep ==
    ASSUME MessagesOK, RunsOK, AtWork, Authors, LogNext
    PROVE  Authors'
<1>1. \A q \in SessionRuns : runs[q].state # "none" => runs'[q].state # "none"
  BY LogGoesOn DEF Onward
<1>2. UNCHANGED log => Authors'
  BY <1>1 DEF Authors
<1>3. ASSUME NEW r, Writes(r) PROVE Authors'
  <2>1. r \in SessionRuns /\ runs[r].state # "none"
    BY <1>3, RowsChange DEF Writes, LiveStates
  <2>2. (\E new : Adds(r, new)) => Authors'
    BY <1>1, <2>1 DEF Adds, Authors
  <2>3. CASE FillOwn(r)
    BY <1>1, <2>1, <2>3, FilledOwn DEF Authors, Mine
  <2> QED
    BY <1>3, <2>2, <2>3, Prompted, Answered, Continued DEF Writes
<1> QED
  BY <1>2, <1>3, LogNextParts, SilentSame

\* One message more of the run, the newest.
LEMMA MineAdds ==
    ASSUME MessagesOK, NEW r, NEW new, Adds(r, new)
    PROVE  Mine(r)' = Mine(r) \cup {new} /\ \A n \in Mine(r)' : n.id <= new.id
  BY DEF Mine, Adds, MessagesOK

\* The last message of a run that has answered is its answer.
LEMMA LastWordStep ==
    ASSUME SessionInv, LogNext, NEW q \in SessionRuns
    PROVE  LastWord(q)'
<1>0. MessagesOK /\ RunsOK /\ AtWork /\ LastWord(q)
  BY DEF SessionInv
<1>1. ASSUME Mine(q)' = Mine(q), Onward(q), Wordless(q) PROVE LastWord(q)'
  <2>1. Spoke(q) => Spoke(q)'
    BY <1>1 DEF Spoke
  <2>2. runs'[q].state # "failed" => runs[q].state # "failed"
    BY <1>1 DEF Onward
  <2> QED
    BY <1>0, <1>1, <2>1, <2>2 DEF LastWord, Wordless
<1>2. CASE (\E r : Silent(r)) \/ Tools
  <2>1. Mine(q)' = Mine(q)
    BY <1>2, SilentSame DEF Mine
  <2> QED
    BY <1>0, <1>1, <1>2, <2>1, SilentRows
<1>3. ASSUME NEW r, Writes(r), r # q PROVE LastWord(q)'
  BY <1>0, <1>1, <1>3, OthersSame, WritingRows
<1>4. ASSUME Writes(q) PROVE LastWord(q)'
  <2>0. /\ runs[q].state \in LiveStates /\ runs'[q].state \in LiveStates
        /\ "completed" \notin LiveStates /\ "failed" \notin LiveStates /\ runs[q].state # "failed"
        /\ runs'[q].state \notin {"completed", "failed"}
    BY <1>0, <1>4, RowsChange DEF LiveStates
  <2>1. CASE InsertPrompt(q)
    <3>1. PICK new \in Message : Adds(q, new)
      BY <1>0, <2>1, Prompted
    <3>2. runs[q].at = "prompt" /\ runs'[q].at = "prompting"
      BY <1>0, <1>4, <2>1, RowsChange
    <3>3. \A m \in Mine(q) : m.filled
      BY <1>0, <2>0, <3>2 DEF LastWord
    <3> QED
      BY <1>0, <2>0, <3>1, <3>2, <3>3, MineAdds DEF LastWord
  <2>2. CASE InsertAnswer(q)
    <3>1. PICK new \in Message : Adds(q, new) /\ \E b \in new.body : b.kind # "result"
      BY <1>0, <2>2, Answered
    <3>2. runs[q].at = "ask" /\ runs'[q].at = "answering"
      BY <1>0, <1>4, <2>2, RowsChange
    <3>3. \A m \in Mine(q) : m.filled
      BY <1>0, <2>0, <3>2 DEF LastWord
    <3>4. Mine(q)' = Mine(q) \cup {new} /\ \A n \in Mine(q)' : n.id <= new.id
      BY <1>0, <3>1, MineAdds
    <3>5. Spoke(q)'
      BY <3>1, <3>4 DEF Spoke
    <3> QED
      BY <2>0, <3>2, <3>3, <3>4, <3>5 DEF LastWord
  <2>3. CASE FillOwn(q)
    <3>1. PICK m \in Mine(q), new \in Message :
             /\ ~m.filled /\ new.filled /\ new.id = m.id /\ new.run = q /\ new.body = m.body
             /\ log' = (log \ {m}) \cup {new}
      BY <1>0, <2>3, FilledOwn
    <3>2. Mine(q)' = (Mine(q) \ {m}) \cup {new}
      BY <3>1 DEF Mine
    <3>3. /\ runs[q].at \in {"prompting", "answering"}
          /\ runs'[q].at = (IF runs[q].at = "prompting" THEN "ask" ELSE "answered")
      BY <1>0, <1>4, <2>3, RowsChange
    <3>4. \A n \in Mine(q)' : n.filled
      BY <1>0, <3>1, <3>2, <3>3 DEF LastWord
    <3>5. Spoke(q) => Spoke(q)'
      BY <3>1, <3>2 DEF Spoke
    <3> QED
      BY <1>0, <2>0, <3>3, <3>4, <3>5 DEF LastWord
  <2>4. CASE ContinueTurn(q)
    <3>1. PICK new \in Message : Adds(q, new) /\ new.filled
      BY <1>0, <2>4, Continued
    <3>2. /\ runs[q].state = "pending_tools" /\ runs'[q].state = "pending" /\ runs'[q].at = runs[q].at
          /\ runs[q].at = "idle"
      BY <1>0, <1>4, <2>4, RowsChange DEF AtWork
    <3>3. \A m \in Mine(q) : m.filled
      BY <1>0, <2>0, <3>2 DEF LastWord
    <3> QED
      BY <1>0, <2>0, <3>1, <3>2, <3>3, MineAdds DEF LastWord
  <2> QED
    BY <1>4, <2>1, <2>2, <2>3, <2>4 DEF Writes
<1> QED
  BY <1>2, <1>3, <1>4, LogNextParts

\* SessionInv is inductive,
LEMMA SessionStep ==
    ASSUME SessionInv, [LogNext]_logVars
    PROVE  SessionInv'
<1>1. CASE UNCHANGED logVars
  BY <1>1 DEF SessionInv, logVars, MessagesOK, RunsOK, AtWork, Authors, Families, LastWord, Spoke, Mine
<1>2. CASE LogNext
  <2>1. MessagesOK /\ RunsOK /\ AtWork /\ Authors /\ Families
    BY DEF SessionInv
  <2>2. LogTypeOK
    BY <2>1 DEF LogTypeOK, MessagesOK, RunsOK
  <2>3. MessagesOK' /\ RunsOK'
    BY <1>2, <2>1, <2>2, LogNextShape, MessagesStep, RunsStep
  <2>4. AtWork'
    BY <1>2, <2>1, LogGoesOn DEF AtWork, Onward
  <2> QED
    BY <1>2, <2>1, <2>3, <2>4, AuthorsStep, FamiliesStep, LastWordStep DEF SessionInv
<1> QED
  BY <1>1, <1>2

\* and holds at the start.
LEMMA SessionBegins == LogInit => SessionInv
<1> SUFFICES ASSUME LogInit PROVE SessionInv
  OBVIOUS
<1>1. MessagesOK
  BY FS_EmptySet DEF LogInit, MessagesOK
<1>2. RunsOK
  BY DEF LogInit, RunsOK, RunOfSession, CallOfSession, Steps
<1>3. AtWork /\ Authors
  BY DEF LogInit, AtWork, Authors
<1>4. Families
  BY UsesAssumption DEF LogInit, Families, SessionRuns
<1>5. \A r \in SessionRuns : LastWord(r)
  BY DEF LogInit, LastWord, Mine
<1> QED
  BY <1>1, <1>2, <1>3, <1>4, <1>5 DEF SessionInv

-----------------------------------------------------------------------------
(* What a page may rely on while the session goes on.                      *)

\* A run that is completed stays so and has written its answer, which is no message of
\* results.
LEMMA AnswerStays ==
    ASSUME SessionInv, [LogNext]_logVars, NEW r \in SessionRuns, runs[r].state \in {"completed", "failed"}
    PROVE  runs'[r].state = runs[r].state /\ Mine(r)' = Mine(r) /\ AnswerOf(r)' = AnswerOf(r)
<1>1. runs'[r].state = runs[r].state /\ Mine(r)' = Mine(r)
  <2>1. CASE UNCHANGED logVars
    BY <2>1 DEF logVars, Mine
  <2>2. CASE LogNext
    <3>0. MessagesOK /\ RunsOK /\ AtWork
      BY DEF SessionInv
    <3>1. ~Writes(r)
      BY <3>0, RowsChange DEF LiveStates
    <3>2. Mine(r)' = Mine(r)
      <4>1. CASE UNCHANGED <<log, count>>
        BY <4>1 DEF Mine
      <4>2. ASSUME NEW q, Writes(q) PROVE Mine(r)' = Mine(r)
        BY <3>0, <3>1, <4>2, OthersSame
      <4> QED
        BY <2>2, <4>1, <4>2, LogNextParts, SilentSame
    <3> QED
      BY <2>2, <3>0, <3>2, LogGoesOn DEF Onward
  <2> QED
    BY <2>1, <2>2
<1>2. AnswerOf(r) = {m \in Mine(r) : m.filled /\ \A n \in Mine(r) : n.id <= m.id}
  BY DEF AnswerOf, Mine
<1>3. AnswerOf(r)' = {m \in Mine(r)' : m.filled /\ \A n \in Mine(r)' : n.id <= m.id}
  BY DEF AnswerOf, Mine
<1> QED
  BY <1>1, <1>2, <1>3

\* A completed run has one answer.
LEMMA AnswerThere ==
    ASSUME SessionInv, NEW r \in SessionRuns, runs[r].state = "completed"
    PROVE  \E m \in log : AnswerOf(r) = {m} /\ m.run = r /\ m.filled /\ ~ResultOnly(m)
<1>0. MessagesOK /\ AtWork /\ LastWord(r)
  BY DEF SessionInv
<1>1. runs[r].at = "idle"
  BY <1>0 DEF AtWork
<1>2. PICK m \in Mine(r) : (\A n \in Mine(r) : n.id <= m.id) /\ \E b \in m.body : b.kind # "result"
  BY <1>0 DEF LastWord, Spoke
<1>3. m \in log /\ m.run = r /\ m.filled /\ ~ResultOnly(m)
  BY <1>0, <1>1, <1>2 DEF LastWord, Mine, ResultOnly
<1>4. m \in AnswerOf(r)
  BY <1>2, <1>3 DEF AnswerOf, Mine
<1>5. ASSUME NEW n \in AnswerOf(r) PROVE n = m
  <2>1. n \in log /\ n.id <= m.id /\ m.id <= n.id /\ n.id \in Nat /\ m.id \in Nat
    BY <1>0, <1>3, <1>4, <1>5 DEF AnswerOf, MessagesOK
  <2> QED
    BY <1>0, <1>3, <2>1 DEF MessagesOK
<1> QED
  BY <1>3, <1>4, <1>5

\* Messages are added and filled; the pages read no session that is compacted.
LEMMA LogGrows ==
    ASSUME SessionInv, SessionInv', [LogNext]_logVars
    PROVE  Cardinality(log) \in Nat /\ Cardinality(log') \in Nat /\ Cardinality(log) <= Cardinality(log')
<1>0. MessagesOK /\ MessagesOK' /\ IsFiniteSet(log) /\ IsFiniteSet(log')
  BY DEF SessionInv, MessagesOK
<1>1. Cardinality(log) \in Nat /\ Cardinality(log') \in Nat
  BY <1>0, FS_CardinalityType
<1>2. (\E r, new : Adds(r, new)) => Cardinality(log) <= Cardinality(log')
  BY <1>0, FS_Subset DEF Adds
<1>3. ASSUME NEW r \in SessionRuns, FillOwn(r) PROVE Cardinality(log) <= Cardinality(log')
  <2>1. PICK m \in Mine(r), new \in Message : new.id = m.id /\ log' = (log \ {m}) \cup {new}
    BY <1>0, <1>3, FilledOwn
  <2>2. m \in log /\ (new \in log => new = m)
    BY <1>0, <2>1 DEF Mine, MessagesOK
  <2>3. IsFiniteSet(log \ {m}) /\ Cardinality(log \ {m}) = Cardinality(log) - 1
    BY <1>0, <2>2, FS_RemoveElement
  <2>4. Cardinality((log \ {m}) \cup {new}) = Cardinality(log \ {m}) + 1
    BY <2>2, <2>3, FS_AddElement
  <2> QED
    BY <1>1, <2>1, <2>3, <2>4
<1>4. CASE UNCHANGED log
  BY <1>1, <1>4
<1>5. ASSUME NEW r, Writes(r) PROVE Cardinality(log) <= Cardinality(log')
  BY <1>0, <1>2, <1>3, <1>5, Prompted, Answered, Continued DEF Writes
<1> QED
  BY <1>1, <1>4, <1>5, LogNextParts, SilentSame DEF logVars

-----------------------------------------------------------------------------
(* Sets of numbers, and the oldest of a set of messages.                   *)

\* The elements of a finite set whose keys are distinct numbers can be counted off.
Before(S, key, x) == {y \in S : key[y] < key[x]}
Rank(S, key) == [x \in S |-> Cardinality(Before(S, key, x))]

\* Ranks by different keys are 0, 1, 2, and so on.
LEMMA Ranked ==
    ASSUME NEW S, IsFiniteSet(S), NEW key \in [S -> Nat], \A x, y \in S : key[x] = key[y] => x = y
    PROVE  /\ Rank(S, key) \in Injection(S, 0 .. Cardinality(S) - 1)
           /\ Rank(S, key) \in Surjection(S, 0 .. Cardinality(S) - 1)
<1> DEFINE c == Cardinality(S)
           rank == Rank(S, key)
<1>0. c \in Nat
  BY FS_CardinalityType
<1>1. \A x \in S : /\ IsFiniteSet(Before(S, key, x))
                   /\ Cardinality(Before(S, key, x)) \in 0 .. c - 1
  <2> TAKE x \in S
  <2>1. Before(S, key, x) \in SUBSET (S \ {x})
    BY DEF Before
  <2>2. IsFiniteSet(S \ {x}) /\ Cardinality(S \ {x}) = c - 1
    BY FS_RemoveElement
  <2>3. IsFiniteSet(Before(S, key, x)) /\ Cardinality(Before(S, key, x)) <= c - 1
    BY <2>1, <2>2, FS_Subset
  <2> QED
    BY <1>0, <2>3, FS_CardinalityType
<1>2. \A x, y \in S : key[x] < key[y] => rank[x] < rank[y]
  <2> SUFFICES ASSUME NEW x \in S, NEW y \in S, key[x] < key[y] PROVE rank[x] < rank[y]
    OBVIOUS
  <2>1. x \in Before(S, key, y) /\ Before(S, key, x) \in SUBSET (Before(S, key, y) \ {x})
    BY DEF Before
  <2>2. /\ IsFiniteSet(Before(S, key, y) \ {x})
        /\ Cardinality(Before(S, key, y) \ {x}) = Cardinality(Before(S, key, y)) - 1
    BY <1>1, <2>1, FS_RemoveElement
  <2>3. Cardinality(Before(S, key, x)) <= Cardinality(Before(S, key, y)) - 1
    BY <2>1, <2>2, FS_Subset
  <2>4. Cardinality(Before(S, key, x)) \in Nat /\ Cardinality(Before(S, key, y)) \in Nat
    BY <1>1
  <2> QED
    BY <2>3, <2>4 DEF Rank
<1>3. rank \in [S -> 0 .. c - 1]
  BY <1>1 DEF Rank
<1>4. \A x, y \in S : rank[x] = rank[y] => x = y
  <2> SUFFICES ASSUME NEW x \in S, NEW y \in S, rank[x] = rank[y] PROVE x = y
    OBVIOUS
  <2>1. rank[x] \in Int /\ key[x] \in Nat /\ key[y] \in Nat
    BY <1>0, <1>3
  <2> HIDE DEF rank
  <2> QED
    BY <1>2, <2>1
<1>5. rank \in Injection(S, 0 .. c - 1)
  <2> HIDE DEF rank
  <2> QED
    BY <1>3, <1>4 DEF Injection, IsInjective
<1>6. IsFiniteSet(0 .. c - 1) /\ Cardinality(0 .. c - 1) = c
  BY <1>0, FS_Interval
<1>7. rank \in Surjection(S, 0 .. c - 1)
  <2> HIDE DEF rank
  <2> QED
    BY <1>5, <1>6, FS_Injection
<1> QED
  BY <1>5, <1>7

\* A finite set of numbers has a least and a greatest one.
LEMMA NumberedEnds ==
    ASSUME NEW T \in SUBSET Nat, IsFiniteSet(T), T # {}
    PROVE  /\ \E x \in T : \A y \in T : x <= y
           /\ \E x \in T : \A y \in T : y <= x
<1> DEFINE key == [x \in T |-> x]
           c == Cardinality(T)
<1>1. key \in [T -> Nat] /\ \A x, y \in T : key[x] = key[y] => x = y
  OBVIOUS
<1>2. c \in Nat /\ c # 0
  BY FS_CardinalityType, FS_EmptySet
<1>3. /\ Rank(T, key) \in Surjection(T, 0 .. c - 1)
  <2> HIDE DEF key
  <2> QED
    BY <1>1, Ranked
<1>4. \A x \in T : /\ IsFiniteSet(Before(T, key, x)) /\ Cardinality(Before(T, key, x)) = Rank(T, key)[x]
                   /\ Before(T, key, x) = {y \in T : y < x}
  <2>1. \A x \in T : Before(T, key, x) \in SUBSET T /\ Before(T, key, x) = {y \in T : y < x}
    BY DEF Before
  <2> QED
    BY <2>1, FS_Subset DEF Rank
<1>5. \E x \in T : \A y \in T : x <= y
  <2>1. PICK x \in T : Rank(T, key)[x] = 0
    BY <1>2, <1>3 DEF Surjection
  <2>2. {y \in T : y < x} = {}
    BY <1>4, <2>1, FS_EmptySet
  <2> QED
    BY <2>2
<1>6. \E x \in T : \A y \in T : y <= x
  <2>1. PICK x \in T : Rank(T, key)[x] = c - 1
    BY <1>2, <1>3 DEF Surjection
  <2>2. IsFiniteSet(T \ {x}) /\ Cardinality(T \ {x}) = c - 1
    BY FS_RemoveElement
  <2>3. {y \in T : y < x} \in SUBSET (T \ {x}) /\ Cardinality({y \in T : y < x}) = c - 1
    BY <1>4, <2>1
  <2>4. {y \in T : y < x} = T \ {x}
    BY <2>2, <2>3, FS_Subset
  <2> QED
    BY <2>4
<1> QED
  BY <1>5, <1>6

\* A message is among the oldest unless as many as a page asks for are.
LEMMA OldestOrFull ==
    ASSUME NEW S, IsFiniteSet(S), \A m \in S : m.id \in Nat, \A m, n \in S : m.id = n.id => m = n,
           NEW x \in S, x \notin Oldest100(S)
    PROVE  Cardinality(Oldest100(S)) = PageLimit /\ PageLimit <= Cardinality(S)
<1> DEFINE key == [m \in S |-> m.id]
           c == Cardinality(S)
           f == [m \in Oldest100(S) |-> Rank(S, key)[m]]
<1>0. PageLimit \in Nat \ {0} /\ c \in Nat
  BY LimitsAssumption, FS_CardinalityType
<1>1. /\ Rank(S, key) \in Injection(S, 0 .. c - 1)
      /\ Rank(S, key) \in Surjection(S, 0 .. c - 1)
  <2>1. key \in [S -> Nat] /\ \A m, n \in S : key[m] = key[n] => m = n
    OBVIOUS
  <2> HIDE DEF key
  <2> QED
    BY <2>1, Ranked
<1>2. \A m \in S : Rank(S, key)[m] = Cardinality({n \in S : n.id < m.id})
  BY DEF Rank, Before
<1>3. Oldest100(S) = {m \in S : Rank(S, key)[m] < PageLimit}
  BY <1>2 DEF Oldest100
<1> HIDE DEF key
<1>4. PageLimit <= c - 1
  BY <1>0, <1>1, <1>3 DEF Surjection
<1>5. /\ f \in [Oldest100(S) -> 0 .. PageLimit - 1]
      /\ \A m, n \in Oldest100(S) : f[m] = f[n] => m = n
  BY <1>0, <1>1, <1>3 DEF Injection, IsInjective
<1>6. f \in Surjection(Oldest100(S), 0 .. PageLimit - 1)
  <2>1. \A i \in 0 .. PageLimit - 1 : \E m \in Oldest100(S) : f[m] = i
    <3> TAKE i \in 0 .. PageLimit - 1
    <3>1. i \in 0 .. c - 1
      BY <1>0, <1>4
    <3>2. PICK m \in S : Rank(S, key)[m] = i
      BY <1>1, <3>1 DEF Surjection
    <3>3. m \in Oldest100(S)
      BY <1>0, <1>3, <3>2
    <3> QED
      BY <3>2, <3>3
  <2>2. f \in [Oldest100(S) -> 0 .. PageLimit - 1]
    BY <1>5
  <2> HIDE DEF f
  <2> QED
    BY <2>1, <2>2 DEF Surjection
<1>7. f \in Injection(Oldest100(S), 0 .. PageLimit - 1)
  <2> HIDE DEF f
  <2> QED
    BY <1>5 DEF Injection, IsInjective
<1>8. IsFiniteSet(0 .. PageLimit - 1) /\ Cardinality(0 .. PageLimit - 1) = PageLimit
  BY <1>0, FS_Interval
<1>9. Cardinality(Oldest100(S)) = PageLimit
  <2> HIDE DEF f
  <2> QED
    BY <1>6, <1>7, <1>8, FS_Injection
<1> QED
  BY <1>0, <1>4, <1>9

-----------------------------------------------------------------------------
(* The runs of the session in their order.                                 *)

\* What SetToSeq chooses for no element,
LEMMA SeqOfNone == SetToSeq({}) = <<>>
<1> DEFINE f == SetToSeq({})
<1>1. Cardinality({}) = 0
  BY FS_EmptySet
<1>2. <<>> \in [1 .. 0 -> {}] /\ IsInjective(<<>>)
  BY DEF IsInjective
<1>3. f \in [1 .. 0 -> {}]
  BY <1>1, <1>2 DEF SetToSeq
<1> QED
  BY <1>3

\* and for one.
LEMMA SeqOfOne == ASSUME NEW x PROVE SetToSeq({x}) = <<x>>
<1> DEFINE f == SetToSeq({x})
<1>1. Cardinality({x}) = 1
  BY FS_Singleton
<1>2. <<x>> \in [1 .. 1 -> {x}] /\ IsInjective(<<x>>)
  BY DEF IsInjective
<1>3. f \in [1 .. 1 -> {x}]
  BY <1>1, <1>2 DEF SetToSeq
<1> HIDE DEF f
<1>4. f = <<x>>
  BY <1>3
<1> QED
  BY <1>4 DEF f

-----------------------------------------------------------------------------
(* The chat pages.                                                         *)

PageRow ==
    [view : {"top-level", "hierarchy"}, stage : PageStages, reads : {"messages", "runs"},
     run : SessionRuns \cup {NoRun}, url : SessionRuns \cup {NoRun},
     msgs : SUBSET Message, groups : SUBSET SessionRuns]

\* The runs are listed as they are created.
RunsListed ==
    /\ created \in Seq(SessionRuns)
    /\ \A r \in SessionRuns : runs[r].state # "none" <=> r \in ToSet(created)

\* A child run comes after its parent.
InOrder ==
    \A i \in 1 .. Len(created) : created[i] \in Kids => \E j \in 1 .. i - 1 : created[j] = ParentOf(created[i])

\* What a page asks for it has thrown away before.
Emptied(p) ==
    page[p].stage \in {"closed", "opening", "refreshing", "loading"} /\ page[p].reads = "messages"
        => page[p].msgs = {}

\* The runs are read in the hierarchy view only, and the page loads when its run has ended.
Follows(p) ==
    /\ page[p].reads = "runs" =>
          page[p].view = "hierarchy" /\ page[p].stage \in {"opening", "refreshing", "loading"}
    /\ page[p].stage \in {"polling", "refreshing", "loading"} => page[p].run \in SessionRuns
    /\ page[p].stage \in {"loading", "still"} /\ page[p].run \in SessionRuns => Ended(page[p].run)

\* The messages of a page are of runs that were there when it asked for the runs.
Grouping(p) ==
    /\ \A m \in page[p].msgs : m.run \in ToSet(created)
    /\ Len(created) <= RunLimit /\ page[p].view = "hierarchy" /\ page[p].reads = "messages"
            /\ page[p].stage \in {"finding", "polling", "still"}
          => \A m \in page[p].msgs : m.run \in page[p].groups

\* A page that read the messages after its run had ended has the answer, if it is among the oldest.
Answering(p) ==
    (page[p].stage = "loading" /\ page[p].reads = "runs") \/ page[p].stage = "still" =>
        (page[p].run \in Roots /\ runs[page[p].run].state = "completed" =>
            \/ AnswerOf(page[p].run) # {} /\ AnswerOf(page[p].run) \subseteq page[p].msgs
            \/ Cardinality(page[p].msgs) = PageLimit
            \/ page[p].view = "hierarchy" /\ Cardinality(log) >= PageLimit)

PageFits(p) == Emptied(p) /\ Follows(p) /\ Grouping(p) /\ Answering(p)

ConsoleInv ==
    /\ SessionInv
    /\ page \in [Pages -> PageRow]
    /\ RunsListed /\ InOrder
    /\ \A p \in Pages : PageFits(p)

\* No run is created, or one.
Grew ==
    \/ created' = created /\ \A r \in SessionRuns : runs'[r].state # "none" <=> runs[r].state # "none"
    \/ \E x \in SessionRuns :
          /\ created' = Append(created, x)
          /\ \A r \in SessionRuns : runs'[r].state # "none" <=> runs[r].state # "none" \/ r = x

\* A step of the session creates at most one run.
LEMMA OneCreated ==
    ASSUME RunsOK, AtWork, LogNext
    PROVE  \/ {r \in SessionRuns : runs[r].state = "none" /\ runs'[r].state # "none"} = {}
           \/ \E x \in SessionRuns : {r \in SessionRuns : runs[r].state = "none" /\ runs'[r].state # "none"} = {x}
<1> DEFINE new == {r \in SessionRuns : runs[r].state = "none" /\ runs'[r].state # "none"}
<1>0. runs \in [SessionRuns -> RunOfSession]
  BY DEF RunsOK
<1>1. ASSUME NEW x \in SessionRuns, \A r \in SessionRuns : r # x => runs'[r] = runs[r]
      PROVE  new = {} \/ new = {x}
  BY <1>1
<1>2. ASSUME NEW r, Writes(r) PROVE new = {} \/ \E x \in SessionRuns : new = {x}
  <2>1. r \in SessionRuns /\ \A q \in SessionRuns : q # r => runs'[q] = runs[q]
    BY <1>2, RowsChange DEF Writes
  <2> QED
    BY <1>1, <2>1
<1>3. ASSUME NEW r, Silent(r) PROVE new = {} \/ \E x \in SessionRuns : new = {x}
  <2>1. r \in SessionRuns /\ \A q \in SessionRuns : q # r => runs'[q] = runs[q]
    BY <1>0, <1>3 DEF Silent, Submit, Take, SettleTurn, FailSessionRun, LinkChild
  <2> QED
    BY <1>1, <2>1
<1>4. ASSUME Tools PROVE new = {} \/ \E x \in SessionRuns : new = {x}
  <2>1. CASE runs' = runs
    BY <2>1
  <2>2. ASSUME NEW u \in Uses, NEW k \in Kids, Delegate(u, k)
        PROVE  k \in SessionRuns /\ \A q \in SessionRuns : q # k => runs'[q] = runs[q]
    BY <1>0, <2>2 DEF Delegate, SessionRuns
  <2> QED
    BY <1>1, <1>4, <2>1, <2>2 DEF Tools, RunTool
<1> QED
  BY <1>2, <1>3, <1>4, LogNextParts

\* A run that a page sends is created,
LEMMA SubmitGrows ==
    ASSUME RunsOK, NEW x \in Roots, Submit(x)
    PROVE  LogNext /\ x \in SessionRuns
           /\ \A r \in SessionRuns : runs'[r].state # "none" <=> runs[r].state # "none" \/ r = x
<1>1. x \in SessionRuns /\ LogNext
  BY DEF SessionRuns, LogNext, RunWrites
<1>2. runs' = [runs EXCEPT ![x].state = "pending"] /\ runs[x].state = "none"
  BY DEF Submit
<1> QED
  BY <1>1, <1>2 DEF RunsOK, RunOfSession

\* and listed, as any other.
LEMMA StepGrows ==
    ASSUME SessionInv, RunsListed, LogStep
    PROVE  Grew
<1> DEFINE new == {r \in SessionRuns : runs[r].state = "none" /\ runs'[r].state # "none"}
<1>0. RunsOK /\ AtWork /\ LogNext /\ created' = created \o SetToSeq(new)
  BY DEF SessionInv, LogStep
<1>1. \A r \in SessionRuns : runs[r].state # "none" => runs'[r].state # "none"
  BY <1>0, LogGoesOn DEF Onward
<1>2. CASE new = {}
  <2>1. created' = created
    BY <1>0, <1>2, SeqOfNone, ConcatEmptySeq DEF RunsListed
  <2> QED
    BY <1>1, <1>2, <2>1 DEF Grew
<1>3. ASSUME NEW x \in SessionRuns, new = {x} PROVE Grew
  <2>1. created' = created \o <<x>>
    BY <1>0, <1>3, SeqOfOne
  <2>2. created' = Append(created, x)
    BY <2>1 DEF RunsListed
  <2> QED
    BY <1>1, <1>3, <2>2 DEF Grew
<1> QED
  BY <1>0, <1>2, <1>3, OneCreated

\* The list of the runs has their order.
LEMMA CreatedStep ==
    ASSUME SessionInv, SessionInv', [LogNext]_logVars, RunsListed, InOrder, Grew
    PROVE  /\ RunsListed' /\ InOrder'
           /\ Len(created) \in Nat /\ Len(created') \in Nat /\ Len(created) <= Len(created')
           /\ ToSet(created) \subseteq ToSet(created')
<1>0. /\ RunsOK /\ AtWork /\ Families /\ Families' /\ RunsOK'
      /\ created \in Seq(SessionRuns) /\ Len(created) \in Nat
      /\ \A i \in 1 .. Len(created) : created[i] \in SessionRuns
      /\ ToSet(created) = {created[i] : i \in 1 .. Len(created)}
      /\ Kids \subseteq SessionRuns
  BY DEF SessionInv, RunsListed, ToSet, SessionRuns
<1>1. \A k \in ToSet(created) : k \in SessionRuns /\ runs[k].state # "none"
  BY <1>0 DEF RunsListed
<1>2. \A k \in Kids : k \in ToSet(created) => ParentOf(k)' = ParentOf(k)
  <2> SUFFICES ASSUME NEW k \in Kids, k \in ToSet(created) PROVE ParentOf(k)' = ParentOf(k)
    OBVIOUS
  <2>1. CASE UNCHANGED logVars
    BY <2>1 DEF logVars, ParentOf
  <2>2. CASE LogNext
    <3>1. runs'[k].asks = runs[k].asks
      BY <1>0, <1>1, <2>2, LogGoesOn DEF Onward
    <3>2. runs[k].asks \in Uses /\ calls[runs[k].asks].state # "none"
      BY <1>0, <1>1 DEF Families, RunsOK, RunOfSession
    <3> QED
      BY <1>0, <2>2, <3>1, <3>2, CallsStep DEF CallsOnward, ParentOf
  <2> QED
    BY <2>1, <2>2
<1>3. CASE created' = created /\ \A r \in SessionRuns : runs'[r].state # "none" <=> runs[r].state # "none"
  <2>1. RunsListed'
    BY <1>0, <1>3 DEF RunsListed
  <2>2. InOrder'
    BY <1>0, <1>2, <1>3 DEF InOrder
  <2> QED
    BY <1>0, <1>3, <2>1, <2>2
<1>4. ASSUME NEW x \in SessionRuns, created' = Append(created, x),
             \A r \in SessionRuns : runs'[r].state # "none" <=> runs[r].state # "none" \/ r = x
      PROVE  /\ RunsListed' /\ InOrder'
             /\ Len(created') \in Nat /\ Len(created) <= Len(created') /\ ToSet(created) \subseteq ToSet(created')
  <2>1. /\ created' \in Seq(SessionRuns) /\ Len(created') = Len(created) + 1
        /\ \A i \in 1 .. Len(created) : created'[i] = created[i]
        /\ created'[Len(created) + 1] = x
    BY <1>0, <1>4
  <2>2. ToSet(created') = ToSet(created) \cup {x}
    <3>1. ToSet(created') = {created'[i] : i \in 1 .. Len(created) + 1}
      BY <1>0, <2>1 DEF ToSet
    <3> QED
      BY <1>0, <2>1, <3>1
  <2>3. RunsListed'
    BY <1>4, <2>1, <2>2 DEF RunsListed
  <2>4. ASSUME x \in Kids, runs[x].state = "none" PROVE ParentOf(x)' \in ToSet(created)
    <3>1. LogNext
      BY <1>0, <1>4, <2>4 DEF logVars
    <3>2. runs'[x].state # "none"
      BY <1>4
    <3>3. runs'[x].asks \in Uses /\ calls'[runs'[x].asks].state = "running"
      BY <1>0, <2>4, <3>1, <3>2, LogGoesOn, RunsAssumption DEF Onward
    <3>4. CallsOnward
      BY <1>0, <3>1, CallsStep
    <3>5. ParentOf(x)' \in SessionRuns /\ runs[ParentOf(x)'].state # "none"
      BY <1>0, <3>3, <3>4 DEF CallsOnward, ParentOf, Families
    <3> QED
      BY <3>5 DEF RunsListed
  <2>5. ASSUME NEW i \in 1 .. Len(created'), created'[i] \in Kids
        PROVE  \E j \in 1 .. i - 1 : created'[j] = calls'[runs'[created'[i]].asks].of
    <3>1. CASE i <= Len(created)
      <4>1. i \in 1 .. Len(created) /\ created'[i] = created[i] /\ created[i] \in ToSet(created)
        BY <1>0, <2>1, <3>1
      <4>2. PICK j \in 1 .. i - 1 : created[j] = ParentOf(created[i])
        BY <2>5, <4>1 DEF InOrder
      <4>3. created'[j] = created[j]
        BY <1>0, <2>1, <4>1
      <4> DEFINE k == created[i]
      <4>4. calls'[runs'[k].asks].of = calls[runs[k].asks].of
        <5> HIDE DEF k
        <5>1. k \in Kids /\ k \in ToSet(created)
          BY <2>5, <4>1 DEF k
        <5> QED
          BY <1>2, <5>1 DEF ParentOf
      <4> QED
        BY <4>1, <4>2, <4>3, <4>4 DEF ParentOf
    <3>2. CASE i = Len(created) + 1 /\ runs[x].state = "none"
      <4>1. created'[i] = x /\ x \in Kids
        BY <2>1, <2>5, <3>2
      <4>2. calls'[runs'[x].asks].of \in ToSet(created)
        BY <2>4, <3>2, <4>1 DEF ParentOf
      <4>3. PICK j \in 1 .. Len(created) : created[j] = calls'[runs'[x].asks].of
        BY <1>0, <4>2
      <4>4. j \in 1 .. i - 1 /\ created'[j] = created[j]
        BY <1>0, <2>1, <3>2
      <4> QED
        BY <4>1, <4>3, <4>4 DEF ParentOf
    <3>3. CASE i = Len(created) + 1 /\ runs[x].state # "none"
      <4>1. created'[i] = x /\ x \in Kids /\ x \in ToSet(created)
        BY <2>1, <2>5, <3>3 DEF RunsListed
      <4>2. PICK l \in 1 .. Len(created) : created[l] = x
        BY <1>0, <4>1
      <4>3. PICK j \in 1 .. l - 1 : created[j] = ParentOf(x)
        BY <4>1, <4>2 DEF InOrder
      <4>4. j \in 1 .. i - 1 /\ created'[j] = created[j]
        BY <1>0, <2>1, <3>3
      <4>5. calls'[runs'[x].asks].of = calls[runs[x].asks].of
        BY <1>2, <4>1 DEF ParentOf
      <4> QED
        BY <4>1, <4>3, <4>4, <4>5 DEF ParentOf
    <3> QED
      BY <1>0, <2>1, <3>1, <3>2, <3>3
  <2>6. InOrder'
    BY <2>5 DEF InOrder, ParentOf
  <2> QED
    BY <1>0, <2>1, <2>2, <2>3, <2>6
<1> QED
  BY <1>0, <1>3, <1>4 DEF Grew

\* The newest runs, and all of them if they are few.
LEMMA NewestRuns ==
    ASSUME RunsListed, NEW n \in Nat
    PROVE  /\ Newest(n) \subseteq ToSet(created) /\ ToSet(created) \subseteq SessionRuns
           /\ Len(created) <= n => Newest(n) = ToSet(created)
<1>1. created \in Seq(SessionRuns) /\ DOMAIN created = 1 .. Len(created) /\ Len(created) \in Nat
  BY DEF RunsListed
<1> QED
  BY <1>1 DEF Newest, ToSet

\* Where every run is read, every run has its place: by induction on the order they were
\* created in, the first without one is neither a root nor below one with a place.
LEMMA AllGrouped ==
    ASSUME RunsListed, InOrder, Len(created) <= RunLimit
    PROVE  ToSet(created) \subseteq Grouped(Newest(RunLimit))
<1>0. /\ Newest(RunLimit) = ToSet(created) /\ ToSet(created) \subseteq SessionRuns
      /\ Len(created) \in Nat /\ ToSet(created) = {created[i] : i \in 1 .. Len(created)}
  BY NewestRuns, LimitsAssumption DEF RunsListed, ToSet
<1>1. ASSUME NEW S \in SUBSET ToSet(created),
             \A q \in ToSet(created) : q \in Roots \/ ParentOf(q) \in S => q \in S
      PROVE  ToSet(created) \subseteq S
  <2> DEFINE T == {i \in 1 .. Len(created) : created[i] \notin S}
  <2>1. T = {}
    <3> SUFFICES ASSUME T # {} PROVE FALSE
      OBVIOUS
    <3>1. T \in SUBSET Nat /\ IsFiniteSet(T)
      <4>1. T \in SUBSET (1 .. Len(created)) /\ IsFiniteSet(1 .. Len(created))
        BY <1>0, FS_Interval
      <4>2. IsFiniteSet(T)
        BY <4>1, FS_Subset
      <4> QED
        BY <4>1, <4>2
    <3> HIDE DEF T
    <3>2. PICK i \in T : \A j \in T : i <= j
      BY <3>1, NumberedEnds
    <3>3. i \in 1 .. Len(created) /\ created[i] \in ToSet(created) /\ created[i] \notin S
      BY <1>0, <3>2 DEF T
    <3>4. created[i] \in Kids
      BY <1>0, <1>1, <3>3 DEF SessionRuns
    <3>5. PICK j \in 1 .. i - 1 : created[j] = ParentOf(created[i])
      BY <3>3, <3>4 DEF InOrder
    <3>6. created[j] \in S
      BY <1>0, <3>2, <3>3, <3>5 DEF T
    <3> QED
      BY <1>1, <3>3, <3>5, <3>6
  <2> QED
    BY <1>0, <2>1
<1> QED
  BY <1>0, <1>1 DEF Grouped

\* What is read of a session in which the run is completed.
LEMMA AnswerRead ==
    ASSUME SessionInv, NEW r \in SessionRuns, runs[r].state = "completed"
    PROVE  /\ r \in Roots => \/ AnswerOf(r) # {} /\ AnswerOf(r) \subseteq Conversation
                             \/ Cardinality(Conversation) = PageLimit
           /\ \/ AnswerOf(r) # {} /\ AnswerOf(r) \subseteq HierarchyMessages
              \/ Cardinality(log) >= PageLimit
<1>0. /\ IsFiniteSet(log) /\ \A m \in log : m.id \in Nat
      /\ \A m, n \in log : m.id = n.id => m = n
  BY DEF SessionInv, MessagesOK
<1>1. PICK m \in log : AnswerOf(r) = {m} /\ m.run = r /\ ~ResultOnly(m)
  BY AnswerThere
<1> DEFINE S == {n \in log : n.run \in Roots /\ ~ResultOnly(n)}
<1>2. r \in Roots /\ m \notin Conversation => Cardinality(Conversation) = PageLimit
  <2>1. S \in SUBSET log /\ IsFiniteSet(S)
    BY <1>0, FS_Subset
  <2>2. Conversation = Oldest100(S)
    BY DEF Conversation
  <2>3. r \in Roots => m \in S
    BY <1>1
  <2> HIDE DEF S
  <2> QED
    BY <1>0, <2>1, <2>2, <2>3, OldestOrFull
<1>3. m \notin Oldest100(log) => PageLimit <= Cardinality(log)
  BY <1>0, OldestOrFull
<1>4. m \in Oldest100(log) => m \in HierarchyMessages
  BY <1>1 DEF HierarchyMessages
<1>5. Cardinality(log) \in Nat /\ PageLimit \in Nat
  BY <1>0, FS_CardinalityType, LimitsAssumption
<1> QED
  BY <1>1, <1>2, <1>3, <1>4, <1>5

\* What a page reads are messages of runs that were created.
LEMMA WhatIsRead ==
    ASSUME SessionInv, RunsListed
    PROVE  /\ Conversation \subseteq log /\ HierarchyMessages \subseteq log /\ log \subseteq Message
           /\ \A m \in log : m.run \in ToSet(created)
  BY DEF Conversation, HierarchyMessages, Oldest100, SessionInv, MessagesOK, Authors, RunsListed

-----------------------------------------------------------------------------
(* The steps of the pages.                                                 *)

\* A page that does nothing is left as it was by a step of the session.
LEMMA OtherPages ==
    ASSUME SessionInv, SessionInv', [LogNext]_logVars,
           Len(created) \in Nat, Len(created') \in Nat, Len(created) <= Len(created'),
           ToSet(created) \subseteq ToSet(created'),
           NEW p \in Pages, page'[p] = page[p], page[p] \in PageRow, PageFits(p)
    PROVE  PageFits(p)'
<1>0. /\ RunLimit \in Nat /\ PageLimit \in Nat
      /\ Cardinality(log) \in Nat /\ Cardinality(log') \in Nat /\ Cardinality(log) <= Cardinality(log')
      /\ Roots \subseteq SessionRuns
  BY LimitsAssumption, LogGrows DEF SessionRuns
<1>1. Emptied(p)'
  BY DEF PageFits, Emptied
<1>2. ASSUME NEW r \in SessionRuns, Ended(r) PROVE Ended(r)' /\ runs'[r].state = runs[r].state
  BY <1>2, AnswerStays DEF Ended
<1>3. Follows(p)'
  <2>1. Follows(p)
    BY DEF PageFits
  <2>2. page[p].run \in SessionRuns /\ Ended(page[p].run) => runs'[page[p].run].state \in {"completed", "failed"}
    BY <1>2 DEF Ended
  <2> QED
    BY <2>1, <2>2 DEF Follows, Ended
<1>4. Grouping(p)'
  <2>1. Grouping(p)
    BY DEF PageFits
  <2> QED
    BY <1>0, <2>1 DEF Grouping
<1>5. Answering(p)'
  <2>1. Answering(p) /\ Follows(p)
    BY DEF PageFits
  <2>2. ASSUME page[p].stage \in {"loading", "still"}, page[p].run \in Roots,
               runs'[page[p].run].state = "completed"
        PROVE  runs[page[p].run].state = "completed" /\ AnswerOf(page[p].run)' = AnswerOf(page[p].run)
    <3>0. PICK r \in SessionRuns : r = page[p].run
      BY <1>0, <2>2
    <3>1. runs[r].state \in {"completed", "failed"} /\ runs'[r].state = "completed"
      BY <2>1, <2>2, <3>0 DEF Follows, Ended
    <3>2. runs[r].state = "completed" /\ AnswerOf(r)' = AnswerOf(r)
      BY <3>1, AnswerStays
    <3> QED
      BY <3>0, <3>2 DEF AnswerOf
  <2> QED
    BY <1>0, <2>1, <2>2 DEF Answering, AnswerOf
<1> QED
  BY <1>1, <1>3, <1>4, <1>5 DEF PageFits

\* One page changes.
LEMMA PageSet ==
    ASSUME page \in [Pages -> PageRow], NEW p \in Pages, NEW rec \in PageRow, Set(p, rec)
    PROVE  page' \in [Pages -> PageRow] /\ page'[p] = rec /\ \A q \in Pages : q # p => page'[q] = page[q]
  BY DEF Set

\* The page opens and throws away what it had.
LEMMA OpenFits ==
    ASSUME ConsoleInv, NEW p \in Pages, OpenPage(p)
    PROVE  /\ page' \in [Pages -> PageRow] /\ PageFits(p)'
           /\ \A q \in Pages : q # p => page'[q] = page[q]
<1> DEFINE rec == [page[p] EXCEPT !.stage = "opening", !.run = page[p].url, !.msgs = {}, !.groups = {}]
<1>0. page \in [Pages -> PageRow] /\ page[p] \in PageRow
  BY DEF ConsoleInv
<1>1. /\ rec \in PageRow /\ Set(p, rec)
      /\ rec.stage = "opening" /\ rec.reads = "messages" /\ rec.msgs = {}
  BY <1>0 DEF OpenPage, PageRow, PageStages
<1> HIDE DEF rec
<1>2. page' \in [Pages -> PageRow] /\ page'[p] = rec /\ \A q \in Pages : q # p => page'[q] = page[q]
  BY <1>0, <1>1, PageSet
<1>3. PageFits(p)'
  BY <1>1, <1>2 DEF PageFits, Emptied, Follows, Grouping, Answering
<1> QED
  BY <1>2, <1>3

\* The stage a page goes on to when all is read.
Arrived(stage) == CASE stage = "opening" -> "finding"
                    [] stage = "refreshing" -> "polling"
                    [] stage = "loading" -> "still"

\* What a page that has read all goes on to.
LEMMA ArriveRow ==
    ASSUME NEW rec \in PageRow, rec.stage \in {"opening", "refreshing", "loading"}
    PROVE  /\ Arrive(rec) \in PageRow
           /\ Arrive(rec).reads = "messages" /\ Arrive(rec).stage = Arrived(rec.stage)
           /\ Arrive(rec).view = rec.view /\ Arrive(rec).run = rec.run
           /\ Arrive(rec).msgs = rec.msgs /\ Arrive(rec).groups = rec.groups
<1> DEFINE s == Arrived(rec.stage)
<1>1. s \in PageStages
  BY DEF Arrived, PageStages
<1>2. Arrive(rec) = [rec EXCEPT !.reads = "messages", !.stage = s]
  BY DEF Arrive, Arrived
<1> HIDE DEF s
<1>3. [rec EXCEPT !.reads = "messages", !.stage = s] \in PageRow
  BY <1>1 DEF PageRow
<1> QED
  BY <1>1, <1>2, <1>3 DEF PageRow, s

\* The messages are read,
LEMMA MessagesFit ==
    ASSUME ConsoleInv, NEW p \in Pages, ReadMessages(p)
    PROVE  /\ page' \in [Pages -> PageRow] /\ PageFits(p)'
           /\ \A q \in Pages : q # p => page'[q] = page[q]
<1>0. /\ page \in [Pages -> PageRow] /\ page[p] \in PageRow /\ SessionInv /\ RunsListed /\ Follows(p)
      /\ page[p].stage \in {"opening", "refreshing", "loading"} /\ page[p].reads = "messages"
      /\ UNCHANGED <<log, count, runs, calls, created>> /\ Roots \subseteq SessionRuns
  BY DEF ConsoleInv, PageFits, ReadMessages, logVars, SessionRuns
<1>1. /\ Conversation \in SUBSET Message /\ HierarchyMessages \in SUBSET Message
      /\ \A m \in Conversation \cup HierarchyMessages : m.run \in ToSet(created)
  BY <1>0, WhatIsRead
<1>2. CASE page[p].view = "hierarchy"
  <2> DEFINE rec == [page[p] EXCEPT !.msgs = HierarchyMessages, !.reads = "runs"]
  <2>1. /\ rec \in PageRow /\ Set(p, rec)
        /\ rec.stage = page[p].stage /\ rec.reads = "runs" /\ rec.msgs = HierarchyMessages
        /\ rec.view = "hierarchy" /\ rec.run = page[p].run
    BY <1>0, <1>1, <1>2 DEF ReadMessages, PageRow
  <2> HIDE DEF rec
  <2>2. page' \in [Pages -> PageRow] /\ page'[p] = rec /\ \A q \in Pages : q # p => page'[q] = page[q]
    BY <1>0, <2>1, PageSet
  <2>3. Emptied(p)' /\ Follows(p)' /\ Grouping(p)'
    BY <1>0, <1>1, <2>1, <2>2 DEF Emptied, Follows, Grouping, Ended
  <2>4. Answering(p)'
    BY <1>0, <2>1, <2>2, AnswerRead DEF Answering, AnswerOf
  <2> QED
    BY <2>2, <2>3, <2>4 DEF PageFits
<1>3. CASE page[p].view # "hierarchy"
  <2> DEFINE read == [page[p] EXCEPT !.msgs = Conversation]
             rec == Arrive(read)
  <2>1. /\ read \in PageRow /\ read.stage = page[p].stage /\ read.view = page[p].view
        /\ read.run = page[p].run /\ read.msgs = Conversation
    BY <1>0, <1>1 DEF PageRow
  <2>2. Set(p, rec)
    BY <1>3 DEF ReadMessages
  <2> HIDE DEF read
  <2>3. /\ rec \in PageRow /\ rec.reads = "messages" /\ rec.stage = Arrived(page[p].stage)
        /\ rec.view = page[p].view /\ rec.run = page[p].run /\ rec.msgs = Conversation
    BY <1>0, <2>1, ArriveRow
  <2> HIDE DEF rec
  <2>4. page' \in [Pages -> PageRow] /\ page'[p] = rec /\ \A q \in Pages : q # p => page'[q] = page[q]
    BY <1>0, <2>2, <2>3, PageSet
  <2>5. Emptied(p)' /\ Follows(p)' /\ Grouping(p)'
    BY <1>0, <1>1, <1>3, <2>3, <2>4 DEF Arrived, Emptied, Follows, Grouping, Ended
  <2>6. Answering(p)'
    BY <1>0, <2>3, <2>4, AnswerRead DEF Arrived, Answering, AnswerOf
  <2> QED
    BY <2>4, <2>5, <2>6 DEF PageFits
<1> QED
  BY <1>2, <1>3

\* and the runs after them.
LEMMA RunsFit ==
    ASSUME ConsoleInv, NEW p \in Pages, ReadRuns(p)
    PROVE  /\ page' \in [Pages -> PageRow] /\ PageFits(p)'
           /\ \A q \in Pages : q # p => page'[q] = page[q]
<1>0. /\ page \in [Pages -> PageRow] /\ page[p] \in PageRow /\ RunsListed /\ InOrder /\ PageFits(p)
      /\ page[p].reads = "runs" /\ UNCHANGED <<log, count, runs, calls, created>>
      /\ page[p].view = "hierarchy" /\ page[p].stage \in {"opening", "refreshing", "loading"}
  BY DEF ConsoleInv, PageFits, Follows, ReadRuns, logVars
<1> DEFINE groups == Grouped(Newest(RunLimit))
           read == [page[p] EXCEPT !.groups = groups]
           rec == Arrive(read)
<1>1. /\ groups \in SUBSET SessionRuns
      /\ Len(created) <= RunLimit => ToSet(created) \subseteq groups
  BY <1>0, NewestRuns, AllGrouped, LimitsAssumption DEF Grouped
<1>2. Set(p, rec)
  BY DEF ReadRuns
<1> HIDE DEF groups
<1>3. /\ read \in PageRow /\ read.stage = page[p].stage /\ read.view = page[p].view
      /\ read.run = page[p].run /\ read.msgs = page[p].msgs /\ read.groups = groups
  BY <1>0, <1>1 DEF PageRow
<1> HIDE DEF read
<1>4. /\ rec \in PageRow /\ rec.reads = "messages" /\ rec.stage = Arrived(page[p].stage)
      /\ rec.view = page[p].view /\ rec.run = page[p].run /\ rec.msgs = page[p].msgs /\ rec.groups = groups
  BY <1>0, <1>3, ArriveRow
<1> HIDE DEF rec
<1>5. page' \in [Pages -> PageRow] /\ page'[p] = rec /\ \A q \in Pages : q # p => page'[q] = page[q]
  BY <1>0, <1>2, <1>4, PageSet
<1>6. Emptied(p)' /\ Follows(p)'
  BY <1>0, <1>4, <1>5 DEF Arrived, PageFits, Emptied, Follows, Ended
<1>7. Grouping(p)'
  BY <1>0, <1>1, <1>4, <1>5 DEF PageFits, Grouping
<1>8. Answering(p)'
  BY <1>0, <1>4, <1>5 DEF Arrived, PageFits, Answering, AnswerOf
<1> QED
  BY <1>5, <1>6, <1>7, <1>8 DEF PageFits

\* The page finds the run it is to follow.
LEMMA FindFits ==
    ASSUME ConsoleInv, NEW p \in Pages, FindPending(p)
    PROVE  /\ page' \in [Pages -> PageRow] /\ PageFits(p)'
           /\ \A q \in Pages : q # p => page'[q] = page[q]
<1>0. /\ page \in [Pages -> PageRow] /\ page[p] \in PageRow /\ RunsListed /\ PageFits(p)
      /\ page[p].stage = "finding" /\ UNCHANGED <<log, count, runs, calls, created>>
      /\ page[p].reads = "messages"
  BY DEF ConsoleInv, PageFits, Follows, FindPending, logVars, PageRow
<1>1. ASSUME NEW rec, Set(p, rec), rec \in PageRow, rec.reads = "messages", rec.view = page[p].view,
             rec.msgs = page[p].msgs, rec.groups = page[p].groups,
             (rec.stage = "polling" /\ rec.run \in SessionRuns) \/ (rec.stage = "still" /\ rec.run = NoRun)
      PROVE  /\ page' \in [Pages -> PageRow] /\ PageFits(p)'
             /\ \A q \in Pages : q # p => page'[q] = page[q]
  <2>1. page' \in [Pages -> PageRow] /\ page'[p] = rec /\ \A q \in Pages : q # p => page'[q] = page[q]
    BY <1>0, <1>1, PageSet
  <2>2. NoRun \notin SessionRuns /\ Roots \subseteq SessionRuns
    BY RunsAssumption DEF SessionRuns
  <2>3. Emptied(p)' /\ Follows(p)'
    BY <1>1, <2>1, <2>2 DEF Emptied, Follows
  <2>4. Grouping(p)'
    BY <1>0, <1>1, <2>1 DEF PageFits, Grouping
  <2>5. Answering(p)'
    BY <1>1, <2>1, <2>2 DEF Answering
  <2> QED
    BY <2>1, <2>3, <2>4, <2>5 DEF PageFits
<1> DEFINE found == {i \in DOMAIN created : created[i] \in Newest(PendingLimit) /\ Live(created[i])}
           follows == page[p].run # NoRun /\ Live(page[p].run)
<1>2. CASE follows
  <2> DEFINE rec == [page[p] EXCEPT !.stage = "polling"]
  <2>1. Set(p, rec) /\ page[p].run \in SessionRuns
    BY <1>0, <1>2 DEF FindPending, PageRow
  <2>2. /\ rec \in PageRow /\ rec.reads = "messages" /\ rec.view = page[p].view /\ rec.stage = "polling"
        /\ rec.run = page[p].run /\ rec.msgs = page[p].msgs /\ rec.groups = page[p].groups
    BY <1>0 DEF PageRow, PageStages
  <2> HIDE DEF rec
  <2> QED
    BY <1>1, <2>1, <2>2
<1>3. CASE ~follows /\ found # {}
  <2> DEFINE run == created[Max(found)]
             rec == [page[p] EXCEPT !.stage = "polling", !.run = run]
  <2>1. Set(p, rec)
    BY <1>3 DEF FindPending
  <2>2. found \in SUBSET Nat /\ IsFiniteSet(found)
    <3>1. found \in SUBSET (1 .. Len(created)) /\ IsFiniteSet(1 .. Len(created))
      BY <1>0, FS_Interval DEF RunsListed
    <3>2. IsFiniteSet(found)
      BY <3>1, FS_Subset
    <3> QED
      BY <3>1, <3>2
  <2>3. Max(found) \in found
    <3> HIDE DEF found
    <3>1. PICK x \in found : \A y \in found : x >= y
      BY <1>3, <2>2, NumberedEnds
    <3> QED
      BY <3>1 DEF Max
  <2>4. run \in SessionRuns
    BY <1>0, <2>3 DEF RunsListed
  <2> HIDE DEF run
  <2>5. /\ rec \in PageRow /\ rec.reads = "messages" /\ rec.view = page[p].view /\ rec.stage = "polling"
        /\ rec.run = run /\ rec.msgs = page[p].msgs /\ rec.groups = page[p].groups
    BY <1>0, <2>4 DEF PageRow, PageStages
  <2> HIDE DEF rec
  <2> QED
    BY <1>1, <2>1, <2>4, <2>5
<1>4. CASE ~follows /\ found = {}
  <2> DEFINE rec == [page[p] EXCEPT !.stage = "still", !.run = NoRun]
  <2>1. Set(p, rec)
    BY <1>4 DEF FindPending
  <2>2. /\ rec \in PageRow /\ rec.reads = "messages" /\ rec.view = page[p].view /\ rec.stage = "still"
        /\ rec.run = NoRun /\ rec.msgs = page[p].msgs /\ rec.groups = page[p].groups
    BY <1>0 DEF PageRow, PageStages
  <2> HIDE DEF rec
  <2> QED
    BY <1>1, <2>1, <2>2
<1> QED
  BY <1>2, <1>3, <1>4

\* It sees how the run goes on, or the reading fails.
LEMMA PollFits ==
    ASSUME ConsoleInv, NEW p \in Pages, PollRun(p) \/ LoadFails(p)
    PROVE  /\ page' \in [Pages -> PageRow] /\ PageFits(p)'
           /\ \A q \in Pages : q # p => page'[q] = page[q]
<1>0. /\ page \in [Pages -> PageRow] /\ page[p] \in PageRow /\ PageFits(p)
      /\ UNCHANGED <<log, count, runs, calls, created>>
  BY DEF ConsoleInv, PollRun, LoadFails, logVars
<1>1. ASSUME NEW stage \in {"loading", "refreshing", "polling", "missed"}, NEW rec,
             Set(p, rec), rec \in PageRow, rec.stage = stage, rec.msgs = {}, rec.reads = "messages",
             rec.run \in SessionRuns, stage = "loading" => Ended(rec.run)
      PROVE  /\ page' \in [Pages -> PageRow] /\ PageFits(p)'
             /\ \A q \in Pages : q # p => page'[q] = page[q]
  <2>1. page' \in [Pages -> PageRow] /\ page'[p] = rec /\ \A q \in Pages : q # p => page'[q] = page[q]
    BY <1>0, <1>1, PageSet
  <2>2. PageFits(p)'
    BY <1>0, <1>1, <2>1 DEF PageFits, Emptied, Follows, Grouping, Answering, Ended
  <2> QED
    BY <2>1, <2>2
<1>2. CASE PollRun(p)
  <2>1. PICK stage \in {"loading", "refreshing"} :
          /\ page[p].stage = "polling" /\ (stage = "loading" => Ended(page[p].run))
          /\ Set(p, [page[p] EXCEPT !.stage = stage, !.msgs = {}, !.groups = {}])
    BY <1>2 DEF PollRun
  <2> DEFINE rec == [page[p] EXCEPT !.stage = stage, !.msgs = {}, !.groups = {}]
  <2>2. /\ rec \in PageRow /\ rec.stage = stage /\ rec.msgs = {} /\ rec.run = page[p].run
        /\ rec.reads = page[p].reads /\ Set(p, rec)
    BY <1>0, <2>1 DEF PageRow, PageStages
  <2>3. page[p].reads = "messages" /\ page[p].run \in SessionRuns
    BY <1>0, <2>1 DEF PageFits, Follows, PageRow
  <2> HIDE DEF rec
  <2> QED
    BY <1>1, <2>1, <2>2, <2>3
<1>3. CASE LoadFails(p)
  <2> DEFINE stage == IF page[p].stage = "loading" THEN "missed" ELSE "polling"
             rec == [page[p] EXCEPT !.stage = stage]
  <2>1. /\ page[p].stage \in {"refreshing", "loading"} /\ page[p].reads = "messages"
        /\ Set(p, rec)
    BY <1>0, <1>3 DEF LoadFails, PageRow
  <2>2. stage \in {"missed", "polling"}
    OBVIOUS
  <2> HIDE DEF stage
  <2>3. /\ rec \in PageRow /\ rec.stage = stage /\ rec.msgs = page[p].msgs /\ rec.run = page[p].run
        /\ rec.reads = page[p].reads
    BY <1>0, <2>2 DEF PageRow, PageStages
  <2>4. page[p].msgs = {} /\ page[p].run \in SessionRuns
    BY <1>0, <2>1 DEF PageFits, Emptied, Follows
  <2> HIDE DEF rec
  <2> QED
    BY <1>1, <2>1, <2>2, <2>3, <2>4
<1> QED
  BY <1>2, <1>3

\* It creates a run itself.
LEMMA SendFits ==
    ASSUME ConsoleInv, NEW p \in Pages, NEW r \in Roots, Send(p, r) \/ SendNew(p, r)
    PROVE  /\ page' \in [Pages -> PageRow] /\ PageFits(p)'
           /\ \A q \in Pages : q # p => page'[q] = page[q]
<1>0. page \in [Pages -> PageRow] /\ page[p] \in PageRow /\ PageFits(p) /\ r \in SessionRuns
  BY DEF ConsoleInv, SessionRuns
<1>1. ASSUME NEW stage \in {"polling", "opening"}, NEW rec,
             Set(p, rec), rec \in PageRow, rec.stage = stage, rec.msgs = {}, rec.reads = "messages", rec.run = r
      PROVE  /\ page' \in [Pages -> PageRow] /\ PageFits(p)'
             /\ \A q \in Pages : q # p => page'[q] = page[q]
  <2>1. page' \in [Pages -> PageRow] /\ page'[p] = rec /\ \A q \in Pages : q # p => page'[q] = page[q]
    BY <1>0, <1>1, PageSet
  <2>2. PageFits(p)'
    BY <1>0, <1>1, <2>1 DEF PageFits, Emptied, Follows, Grouping, Answering
  <2> QED
    BY <2>1, <2>2
<1>2. CASE Send(p, r)
  <2> DEFINE rec == [page[p] EXCEPT !.stage = "polling", !.run = r, !.msgs = {}, !.groups = {}]
  <2>1. page[p].stage \in {"still", "polling", "missed"} /\ Set(p, rec)
    BY <1>2 DEF Send
  <2>2. page[p].reads = "messages"
    BY <1>0, <2>1 DEF PageFits, Follows, PageRow
  <2>3. /\ rec \in PageRow /\ rec.stage = "polling" /\ rec.msgs = {} /\ rec.run = r
        /\ rec.reads = page[p].reads
    BY <1>0 DEF PageRow, PageStages
  <2> HIDE DEF rec
  <2> QED
    BY <1>1, <2>1, <2>2, <2>3
<1>3. CASE SendNew(p, r)
  <2> DEFINE rec == [page[p] EXCEPT !.stage = "opening", !.run = r, !.url = r]
  <2>1. page[p].stage = "closed" /\ Set(p, rec)
    BY <1>3 DEF SendNew
  <2>2. page[p].reads = "messages" /\ page[p].msgs = {}
    BY <1>0, <2>1 DEF PageFits, Follows, Emptied, PageRow
  <2>3. /\ rec \in PageRow /\ rec.stage = "opening" /\ rec.msgs = page[p].msgs /\ rec.run = r
        /\ rec.reads = page[p].reads
    BY <1>0 DEF PageRow, PageStages
  <2> HIDE DEF rec
  <2> QED
    BY <1>1, <2>1, <2>2, <2>3
<1> QED
  BY <1>2, <1>3

\* ConsoleInv is inductive,
LEMMA ConsoleStep ==
    ASSUME ConsoleInv, [ConsoleNext]_<<logVars, page, created>>
    PROVE  ConsoleInv'
<1>0. /\ SessionInv /\ page \in [Pages -> PageRow] /\ RunsListed /\ InOrder
      /\ RunsOK /\ \A p \in Pages : PageFits(p) /\ page[p] \in PageRow
  BY DEF ConsoleInv, SessionInv
<1>1. ASSUME [LogNext]_logVars, Grew, page' \in [Pages -> PageRow],
             \A p \in Pages : page'[p] # page[p] => PageFits(p)'
      PROVE  ConsoleInv'
  <2>1. SessionInv'
    BY <1>0, <1>1, SessionStep
  <2>2. /\ RunsListed' /\ InOrder'
        /\ Len(created) \in Nat /\ Len(created') \in Nat /\ Len(created) <= Len(created')
        /\ ToSet(created) \subseteq ToSet(created')
    BY <1>0, <1>1, <2>1, CreatedStep
  <2>3. ASSUME NEW p \in Pages, page'[p] = page[p] PROVE PageFits(p)'
    BY <1>0, <1>1, <2>1, <2>2, <2>3, OtherPages
  <2> QED
    BY <1>1, <2>1, <2>2, <2>3 DEF ConsoleInv
<1>2. CASE LogStep
  BY <1>0, <1>1, <1>2, StepGrows DEF LogStep
<1>3. CASE UNCHANGED <<logVars, page, created>>
  BY <1>0, <1>1, <1>3 DEF Grew, logVars
<1>4. ASSUME UNCHANGED <<logVars, created>> PROVE [LogNext]_logVars /\ Grew
  BY <1>4 DEF Grew, logVars
<1>5. ASSUME NEW p \in Pages, PageStep(p) PROVE ConsoleInv'
  <2>1. /\ page' \in [Pages -> PageRow] /\ PageFits(p)'
        /\ \A q \in Pages : q # p => page'[q] = page[q]
    BY <1>5, OpenFits, MessagesFit, RunsFit, FindFits, PollFits, SendFits DEF PageStep
  <2>2. [LogNext]_logVars /\ Grew
    <3>1. ASSUME NEW r \in Roots, Send(p, r) \/ SendNew(p, r) PROVE [LogNext]_logVars /\ Grew
      <4>1. created' = Append(created, r) /\ Submit(r)
        <5>1. CASE Send(p, r)
          BY <5>1 DEF Send
        <5>2. CASE SendNew(p, r)
          <6>1. created = <<>> /\ created' = <<r>> /\ Submit(r) /\ <<r>> = Append(<<>>, r)
            BY <5>2 DEF SendNew
          <6> QED
            BY <6>1
        <5> QED
          BY <3>1, <5>1, <5>2
      <4>2. /\ LogNext /\ r \in SessionRuns
            /\ \A q \in SessionRuns : runs'[q].state # "none" <=> runs[q].state # "none" \/ q = r
        BY <1>0, <4>1, SubmitGrows
      <4>3. Grew
        BY <4>1, <4>2 DEF Grew
      <4> QED
        BY <4>2, <4>3
    <3> QED
      BY <1>4, <1>5, <3>1 DEF PageStep, OpenPage, ReadMessages, ReadRuns, FindPending, PollRun, LoadFails
  <2>3. \A q \in Pages : page'[q] # page[q] => PageFits(q)'
    <3> TAKE q \in Pages
    <3>1. q # p => page'[q] = page[q]
      BY <2>1
    <3>2. q = p => PageFits(q)'
      BY <2>1
    <3> QED
      BY <3>1, <3>2
  <2> QED
    BY <1>1, <2>1, <2>2, <2>3
<1> QED
  BY <1>2, <1>3, <1>5 DEF ConsoleNext

\* holds at the start,
LEMMA ConsoleBegins == LogInit /\ ConsoleInit => ConsoleInv
<1> SUFFICES ASSUME LogInit, ConsoleInit PROVE ConsoleInv
  OBVIOUS
<1>1. SessionInv
  BY SessionBegins
<1>2. /\ page \in [Pages -> PageRow]
      /\ \A p \in Pages : page[p].stage = "closed" /\ page[p].reads = "messages" /\ page[p].msgs = {}
  BY DEF ConsoleInit, PageRow, PageStages
<1>3. created = <<>> /\ <<>> \in Seq(SessionRuns) /\ Len(<<>>) = 0 /\ ToSet(<<>>) = {}
  BY DEF ConsoleInit, ToSet
<1>4. RunsListed /\ InOrder
  BY <1>3 DEF LogInit, RunsListed, InOrder
<1>5. \A p \in Pages : PageFits(p)
  BY <1>2 DEF PageFits, Emptied, Follows, Grouping, Answering
<1> QED
  BY <1>1, <1>2, <1>4, <1>5 DEF ConsoleInv

\* and says what the pages are to show.
LEMMA ConsoleShows ==
    ConsoleInv => ConsoleTypeOK /\ ChatAnswerShown /\ HierarchyShowsAll
<1> SUFFICES ASSUME ConsoleInv PROVE ConsoleTypeOK /\ ChatAnswerShown /\ HierarchyShowsAll
  OBVIOUS
<1>1. ConsoleTypeOK
  BY DEF ConsoleInv, SessionInv, MessagesOK, RunsOK, LogTypeOK, ConsoleTypeOK, RunsListed, PageRow
<1>2. ChatAnswerShown
  BY DEF ConsoleInv, PageFits, Answering, ChatAnswerShown
<1>3. HierarchyShowsAll
  BY DEF ConsoleInv, PageFits, Grouping, HierarchyShowsAll
<1> QED
  BY <1>1, <1>2, <1>3

-----------------------------------------------------------------------------
(* The pages of one run, execution or session.                             *)

\* The child was started for a call of the run that names it.
IsChild(k, r) ==
    /\ k \in Kids /\ runs[k].asks \in Uses
    /\ calls[runs[k].asks].kid = k /\ ParentOf(k) = r

\* Which pages read what.
Statements ==
    /\ sight.at = "caller" => sight.kind = "call"
    /\ sight.at \in {"calls", "children"} => sight.kind \in {"run", "talk"}
    /\ sight.at = "runs" => sight.kind = "session"
    /\ sight.at \in {"messages", "blocks"} => sight.kind # "call"
    /\ sight.at = "kids" => sight.kind # "session"
    /\ sight.at \in {"root", "tree"} => sight.kind = "run" /\ sight.of \in Roots
    /\ sight.at = "conversation" => sight.kind \in {"talk", "session"}

\* What was read is still so: an execution keeps its child, a completed run stays completed.
StillSo ==
    /\ sight.at \in {"closed", "caller"} => sight.heads = {} /\ sight.kids = {} /\ sight.nodes = {}
    /\ sight.at = "closed" => sight.calls = {}
    /\ sight.at = "caller" => runs[sight.of].state # "none"
    /\ \A e \in sight.calls :
          /\ calls[e.use].of = sight.of /\ calls[e.use].state \notin {"none", "asked"}
          /\ e.kid # NoRun => calls[e.use].kid = e.kid
    /\ \A h \in sight.heads :
          /\ h.state = "completed" => runs[h.run].state = "completed"
          /\ sight.kind # "session" => h.run = sight.of
    /\ \A k \in sight.kids : IsChild(k.run, sight.of)
    /\ sight.at = "kids" => \A k \in sight.next : IsChild(k, sight.of)
    /\ IsFiniteSet(sight.unread) /\ (sight.at = "blocks" => sight.unread # {})

\* A message in the list of a page.
InList(m) == [id |-> m.id, blocks |-> m.body]

\* The answer of a run shown as completed is read, or listed and still to be read.
OnList(r) ==
    \A m \in AnswerOf(r) :
        \/ sight.at = "blocks" /\ m.id \in sight.unread
        \/ InList(m) \in sight.msgs

AnswerListed ==
    sight.kind \in {"run", "talk"}
        /\ sight.at \in {"blocks", "children", "kids", "root", "tree", "conversation", "shown"} =>
        \A h \in sight.heads : h.state = "completed" => OnList(h.run)

AnswerTalked ==
    sight.kind \in {"talk", "session"} /\ sight.at = "shown" =>
        \A h \in sight.heads : h.state = "completed" /\ h.run \in Roots =>
            \/ AnswerOf(h.run) # {} /\ AnswerOf(h.run) \subseteq sight.talk
            \/ Cardinality(sight.talk) = PageLimit

\* A listed child is in the tree or still to be put there, and what is put there is below.
TreeGrows ==
    /\ sight.kind = "run" /\ sight.of \in Roots =>
          /\ sight.at = "tree" =>
                sight.of \in sight.next \/ \A k \in sight.kids : k.run \in sight.nodes \cup sight.next
          /\ sight.at = "shown" => \A k \in sight.kids : k.run \in sight.nodes
    /\ sight.nodes \subseteq Below(sight.of)
    /\ sight.at = "tree" => sight.next \subseteq Below(sight.of)

DetailInv ==
    /\ DetailTypeOK /\ Statements /\ StillSo
    /\ ~partial => AnswerListed /\ AnswerTalked /\ TreeGrows

\* The executions that were created name the children of a run.
LEMMA Children ==
    ASSUME SessionInv, NEW r \in SessionRuns
    PROVE  \A k : k \in ChildrenIn(GetToolExecutionsByRun(r)) <=> IsChild(k, r)
<1>0. /\ Families /\ NoRun \notin Kids /\ NoUse \notin Uses /\ Kids \subseteq SessionRuns
      /\ \A u \in Uses : calls[u].kid \in Kids \cup {NoRun}
      /\ \A q \in SessionRuns : runs[q].asks \in Uses \cup {NoUse}
  BY RunsAssumption, UsesAssumption DEF SessionInv, SessionRuns, RunsOK, RunOfSession, CallOfSession
<1>1. ASSUME NEW k \in ChildrenIn(GetToolExecutionsByRun(r)) PROVE IsChild(k, r)
  <2>1. PICK u \in Uses : calls[u].of = r /\ calls[u].kid = k /\ k # NoRun
    BY DEF ChildrenIn, GetToolExecutionsByRun
  <2>2. k \in Kids /\ runs[k].asks = u
    BY <1>0, <2>1 DEF Families
  <2> QED
    BY <2>1, <2>2 DEF IsChild, ParentOf
<1>2. ASSUME NEW k, IsChild(k, r) PROVE k \in ChildrenIn(GetToolExecutionsByRun(r))
  <2> DEFINE u == runs[k].asks
             e == [use |-> u, kid |-> calls[u].kid]
  <2>1. /\ k \in SessionRuns /\ u \in Uses /\ calls[u].kid = k /\ calls[u].of = r
        /\ k # NoRun /\ u # NoUse
    BY <1>0, <1>2 DEF IsChild, ParentOf
  <2>2. calls[u].state \notin {"none", "asked"}
    BY <1>0, <2>1 DEF Families
  <2>3. e \in GetToolExecutionsByRun(r) /\ e.kid = k
    BY <2>1, <2>2 DEF GetToolExecutionsByRun
  <2> QED
    BY <2>1, <2>3 DEF ChildrenIn
<1> QED
  BY <1>1, <1>2

\* A child was created.
LEMMA ChildrenCreated ==
    ASSUME SessionInv, NEW r, NEW k, IsChild(k, r)
    PROVE  k \in SessionRuns /\ runs[k].state # "none"
  BY UsesAssumption DEF SessionInv, Families, IsChild, SessionRuns

\* The executions that were read name their children.
LEMMA ChildrenOfRead ==
    ASSUME SessionInv, DetailTypeOK, StillSo, NEW k \in ChildrenIn(sight.calls)
    PROVE  IsChild(k, sight.of)
<1>1. PICK e \in sight.calls : e.kid = k /\ k # NoRun
  BY DEF ChildrenIn
<1>2. e.use \in Uses /\ k \in Kids
  BY <1>1 DEF DetailTypeOK, RunDetail, ToolExecutionSummary
<1>3. calls[e.use].of = sight.of /\ calls[e.use].kid = k
  BY <1>1 DEF StillSo
<1>4. runs[k].asks = e.use
  BY <1>1, <1>2, <1>3 DEF SessionInv, Families
<1> QED
  BY <1>2, <1>3, <1>4 DEF IsChild, ParentOf

\* What is shown of a run.
LEMMA RunSummarized ==
    ASSUME RunsOK, NEW r \in SessionRuns, runs[r].state # "none"
    PROVE  /\ RunToSummary(r) \in RunSummary /\ RunToSummary(r).run = r
           /\ RunToSummary(r).state = runs[r].state
  BY DEF RunsOK, RunOfSession, RunToSummary, RunSummary

\* What is below a run.
LEMMA BelowItself == ASSUME NEW r \in SessionRuns PROVE r \in Below(r)
  BY DEF Below

\* A child of a run that is below is below too.
LEMMA BelowChild ==
    ASSUME NEW r, NEW s \in Below(r), NEW k, IsChild(k, s)
    PROVE  k \in Below(r)
<1>1. k \in Kids /\ k \in SessionRuns /\ runs[k].asks # NoUse /\ ParentOf(k) = s
  BY UsesAssumption DEF IsChild, SessionRuns
<1> QED
  BY <1>1 DEF Below, Descend

-----------------------------------------------------------------------------
(* The session goes on under such a page.                                  *)

\* A child keeps the call it was started for, and its parent.
LEMMA FamilyStays ==
    ASSUME SessionInv, [LogNext]_logVars, NEW k \in Kids, runs[k].asks # NoUse
    PROVE  runs'[k].asks = runs[k].asks /\ ParentOf(k)' = ParentOf(k)
<1>0. RunsOK /\ AtWork /\ Families /\ k \in SessionRuns
  BY DEF SessionInv, SessionRuns
<1>1. CASE UNCHANGED logVars
  BY <1>1 DEF logVars, ParentOf
<1>2. CASE LogNext
  <2>1. runs[k].state # "none"
    BY <1>0 DEF Families
  <2>2. runs'[k].asks = runs[k].asks
    BY <1>0, <1>2, <2>1, LogGoesOn DEF Onward
  <2>3. runs[k].asks \in Uses /\ calls[runs[k].asks].state # "none"
    BY <1>0 DEF Families, RunsOK, RunOfSession
  <2> QED
    BY <1>0, <1>2, <2>2, <2>3, CallsStep DEF CallsOnward, ParentOf
<1> QED
  BY <1>1, <1>2

\* An execution keeps its run and its child.
LEMMA CallStays ==
    ASSUME SessionInv, [LogNext]_logVars, NEW u \in Uses, calls[u].state \notin {"none", "asked"}
    PROVE  /\ calls'[u].state \notin {"none", "asked"} /\ calls'[u].of = calls[u].of
           /\ calls[u].kid # NoRun => calls'[u].kid = calls[u].kid
<1>1. CASE UNCHANGED logVars
  BY <1>1 DEF logVars
<1>2. CASE LogNext
  BY <1>2, CallsStep DEF SessionInv, CallsOnward
<1> QED
  BY <1>1, <1>2

\* A child stays one,
LEMMA ChildStays ==
    ASSUME SessionInv, [LogNext]_logVars, NEW k, NEW r, IsChild(k, r)
    PROVE  IsChild(k, r)'
<1>1. /\ k \in Kids /\ runs[k].asks \in Uses /\ runs[k].asks # NoUse /\ k # NoRun
      /\ calls[runs[k].asks].kid = k /\ ParentOf(k) = r
  BY RunsAssumption, UsesAssumption DEF IsChild
<1>2. calls[runs[k].asks].state \notin {"none", "asked"}
  BY <1>1 DEF SessionInv, Families, SessionRuns
<1>3. runs'[k].asks = runs[k].asks /\ ParentOf(k)' = ParentOf(k)
  BY <1>1, FamilyStays
<1>4. calls'[runs[k].asks].kid = k
  BY <1>1, <1>2, CallStays
<1> QED
  BY <1>1, <1>3, <1>4 DEF IsChild, ParentOf

\* and what is below a run stays there.
LEMMA BelowGrows ==
    ASSUME SessionInv, [LogNext]_logVars, NEW r, NEW s \in Below(r)
    PROVE  s \in Below(r)'
<1>1. ASSUME NEW S, Descend(S)' PROVE Descend(S)
  <2>1. ASSUME NEW k \in Kids, runs[k].asks # NoUse, ParentOf(k) \in S PROVE k \in S
    <3>1. runs'[k].asks = runs[k].asks /\ ParentOf(k)' = ParentOf(k)
      BY <2>1, FamilyStays
    <3> QED
      BY <1>1, <2>1, <3>1 DEF Descend
  <2> QED
    BY <2>1 DEF Descend
<1>2. s \in SessionRuns /\ \A S \in SUBSET SessionRuns : r \in S /\ Descend(S) => s \in S
  BY DEF Below
<1>3. \A S \in SUBSET SessionRuns : r \in S /\ Descend(S)' => s \in S
  BY <1>1, <1>2
<1> QED
  BY <1>2, <1>3 DEF Below

\* A run that was created stays.
LEMMA StatesStay ==
    ASSUME SessionInv, [LogNext]_logVars, NEW r \in SessionRuns
    PROVE  runs[r].state # "none" => runs'[r].state # "none"
<1>1. CASE UNCHANGED logVars
  BY <1>1 DEF logVars
<1>2. CASE LogNext
  BY <1>2, LogGoesOn DEF SessionInv, Onward
<1> QED
  BY <1>1, <1>2

\* A page that is not read on stays right while the session goes on.
LEMMA DetailStays ==
    ASSUME SessionInv, [LogNext]_logVars, DetailInv, UNCHANGED detailVars
    PROVE  DetailInv'
<1>0. /\ sight' = sight /\ partial' = partial /\ DetailTypeOK /\ Statements /\ StillSo
      /\ sight \in RunDetail /\ sight.of \in SessionRuns
      /\ \A h \in sight.heads : h.run \in SessionRuns
      /\ \A e \in sight.calls : e.use \in Uses
      /\ NoRun \notin Kids /\ Roots \subseteq SessionRuns
  BY RunsAssumption DEF detailVars, DetailInv, DetailTypeOK, RunDetail, RunSummary, ToolExecutionSummary, SessionRuns
<1>1. PICK of \in SessionRuns : of = sight.of /\ of = sight'.of
  BY <1>0
<1>2. DetailTypeOK' /\ Statements'
  BY <1>0 DEF DetailTypeOK, Statements
<1>3. \A h \in sight.heads : h.state = "completed" =>
          /\ runs'[h.run].state = "completed" /\ AnswerOf(h.run)' = AnswerOf(h.run)
  BY <1>0, AnswerStays DEF StillSo
<1>4. StillSo'
  <2>1. sight.at = "caller" => runs'[of].state # "none"
    BY <1>0, <1>1, StatesStay DEF StillSo
  <2>2. \A e \in sight.calls :
           /\ calls'[e.use].of = of /\ calls'[e.use].state \notin {"none", "asked"}
           /\ e.kid # NoRun => calls'[e.use].kid = e.kid
    BY <1>0, <1>1, CallStays DEF StillSo
  <2>3. /\ \A k \in sight.kids : IsChild(k.run, of)'
        /\ sight.at = "kids" => \A k \in sight.next : IsChild(k, of)'
    BY <1>0, <1>1, ChildStays DEF StillSo
  <2>4. /\ \A k \in sight'.kids : IsChild(k.run, sight.of)'
        /\ sight'.at = "kids" => \A k \in sight'.next : IsChild(k, sight.of)'
    BY <1>0, <1>1, <2>3 DEF IsChild
  <2> QED
    BY <1>0, <1>1, <1>3, <2>1, <2>2, <2>4 DEF StillSo
<1>5. ASSUME ~partial PROVE AnswerListed' /\ AnswerTalked' /\ TreeGrows'
  <2>0. AnswerListed /\ AnswerTalked /\ TreeGrows
    BY <1>5 DEF DetailInv
  <2>1. AnswerListed'
    <3>1. ASSUME NEW r, AnswerOf(r)' = AnswerOf(r), OnList(r) PROVE OnList(r)'
      BY <1>0, <3>1 DEF OnList
    <3> QED
      BY <1>0, <1>3, <2>0, <3>1 DEF AnswerListed
  <2>2. AnswerTalked'
    BY <1>0, <1>3, <2>0 DEF AnswerTalked
  <2>3. TreeGrows'
    <3>1. \A s \in Below(of) : s \in Below(of)'
      BY BelowGrows
    <3>2. \A s : s \in Below(sight.of) => s \in Below(sight.of)'
      <4>1. Below(sight.of) = Below(of) /\ Below(sight.of)' = Below(of)'
        BY <1>0, <1>1 DEF Below
      <4> QED
        BY <3>1, <4>1
    <3> QED
      BY <1>0, <2>0, <3>2 DEF TreeGrows
  <2> QED
    BY <2>1, <2>2, <2>3
<1> QED
  BY <1>0, <1>2, <1>4, <1>5 DEF DetailInv

-----------------------------------------------------------------------------
(* The statements of such a page.                                          *)

\* What a statement leaves as it was.
SameKind == sight'.kind = sight.kind /\ sight'.of = sight.of
SameHeads == sight'.heads = sight.heads /\ sight'.kids = sight.kids
SameRead == sight'.calls = sight.calls /\ sight'.msgs = sight.msgs /\ sight'.talk = sight.talk
SameTree == sight'.nodes = sight.nodes
SameNext == sight'.unread = sight.unread /\ sight'.next = sight.next

\* A statement that only reads leaves the answers and the families as they are.
LEMMA Quiet ==
    ASSUME UNCHANGED logVars
    PROVE  /\ UNCHANGED <<log, count, runs, calls>>
           /\ \A r : AnswerOf(r)' = AnswerOf(r) /\ Below(r)' = Below(r)
           /\ \A r : \A k : IsChild(k, r)' <=> IsChild(k, r)
           /\ sight'.of = sight.of => Below(sight.of)' = Below(sight.of)
<1>1. UNCHANGED <<log, count, runs, calls>>
  BY DEF logVars
<1>2. \A k : ParentOf(k)' = ParentOf(k)
  BY <1>1 DEF ParentOf
<1>3. \A S : Descend(S)' <=> Descend(S)
  BY <1>1, <1>2 DEF Descend
<1> QED
  BY <1>1, <1>2, <1>3 DEF AnswerOf, Below, IsChild

\* The parts of the invariant that a statement changes no part of.
LEMMA StillListed ==
    ASSUME UNCHANGED logVars, AnswerListed, SameKind, SameRead, sight'.heads = sight.heads,
           sight.kind \in {"run", "talk"} =>
              \/ sight.at = "blocks" /\ sight'.at = "blocks" /\ sight'.unread = sight.unread
              \/ sight.at \in {"children", "kids", "root", "tree", "conversation", "shown"}
              \/ sight'.at \in {"calls", "messages", "refused"}
    PROVE  AnswerListed'
<1>1. ASSUME NEW r, OnList(r), sight.at # "blocks" \/ (sight'.at = "blocks" /\ sight'.unread = sight.unread)
      PROVE  OnList(r)'
  BY <1>1, Quiet DEF OnList, SameRead
<1> QED
  BY <1>1 DEF AnswerListed, SameKind

\* So is the tree.
LEMMA TreeSame ==
    ASSUME UNCHANGED logVars, TreeGrows, SameKind, SameTree,
           sight'.at # "tree",
           sight'.at = "shown" => ~(sight.kind = "run" /\ sight.of \in Roots)
    PROVE  TreeGrows'
  BY Quiet DEF TreeGrows, SameKind, SameTree

\* The run of the page, or none.
LEMMA OpenRunFits ==
    ASSUME SessionInv, DetailInv, OpenRun
    PROVE  DetailInv'
<1>0. /\ sight \in RunDetail /\ sight.of \in SessionRuns /\ DetailTypeOK /\ Statements /\ StillSo /\ RunsOK
      /\ sight.at = "closed" /\ sight.kind \in {"run", "talk"} /\ UNCHANGED logVars /\ partial' = partial
  BY DEF DetailInv, DetailTypeOK, RunDetail, OpenRun, Goes, SessionInv
<1>1. CASE runs[sight.of].state = "none"
  <2>1. /\ sight' \in RunDetail /\ sight'.at = "refused"
        /\ SameKind /\ SameHeads /\ SameRead /\ SameTree /\ SameNext
    BY <1>0, <1>1 DEF OpenRun, Goes, RunDetail, DetailStages, SameKind, SameHeads, SameRead, SameTree, SameNext
  <2>2. DetailTypeOK' /\ Statements'
    BY <1>0, <2>1 DEF DetailTypeOK, Statements
  <2>3. StillSo'
    BY <1>0, <2>1, Quiet DEF StillSo, SameKind, SameHeads, SameRead, SameTree, SameNext
  <2>4. ~partial => TreeGrows'
    BY <1>0, <2>1, TreeSame DEF DetailInv
  <2> QED
    BY <1>0, <2>1, <2>2, <2>3, <2>4 DEF DetailInv, AnswerListed, AnswerTalked
<1>2. CASE runs[sight.of].state # "none"
  <2>1. /\ RunToSummary(sight.of) \in RunSummary /\ RunToSummary(sight.of).run = sight.of
        /\ RunToSummary(sight.of).state = runs[sight.of].state
    BY <1>0, <1>2, RunSummarized
  <2>2. /\ sight' \in RunDetail /\ sight'.at = "calls" /\ sight'.heads = {RunToSummary(sight.of)}
        /\ sight'.kids = sight.kids
        /\ SameKind /\ SameRead /\ SameTree /\ SameNext
    BY <1>0, <1>2, <2>1 DEF OpenRun, Goes, RunDetail, DetailStages, SameKind, SameRead, SameTree, SameNext
  <2>3. DetailTypeOK' /\ Statements'
    BY <1>0, <2>2 DEF DetailTypeOK, Statements, SameKind
  <2>4. StillSo'
    BY <1>0, <2>1, <2>2, Quiet DEF StillSo, SameKind, SameRead, SameTree, SameNext
  <2>5. ~partial => TreeGrows'
    BY <1>0, <2>2, TreeSame DEF DetailInv
  <2> QED
    BY <1>0, <2>2, <2>3, <2>4, <2>5 DEF DetailInv, AnswerListed, AnswerTalked
<1> QED
  BY <1>1, <1>2

\* The run's executions.
LEMMA ReadCallsFits ==
    ASSUME SessionInv, DetailInv, ReadCalls
    PROVE  DetailInv'
<1>0. /\ sight \in RunDetail /\ sight.of \in SessionRuns /\ DetailTypeOK /\ Statements /\ StillSo /\ RunsOK
      /\ sight.at = "calls" /\ sight.kind \in {"run", "talk"} /\ UNCHANGED logVars /\ partial' = partial
  BY DEF DetailInv, DetailTypeOK, RunDetail, ReadCalls, Goes, SessionInv, Statements
<1> DEFINE E == GetToolExecutionsByRun(sight.of)
<1>1. /\ E \in SUBSET ToolExecutionSummary
      /\ \A e \in E : /\ calls[e.use].of = sight.of /\ calls[e.use].state \notin {"none", "asked"}
                      /\ calls[e.use].kid = e.kid
  BY <1>0 DEF GetToolExecutionsByRun, ToolExecutionSummary, RunsOK, CallOfSession
<1>2. sight' = [sight EXCEPT !.at = "messages", !.calls = E]
  BY DEF ReadCalls, Goes
<1> HIDE DEF E
<1>3. /\ sight' \in RunDetail /\ sight'.at = "messages" /\ sight'.calls = E
      /\ sight'.msgs = sight.msgs /\ sight'.talk = sight.talk
      /\ SameKind /\ SameHeads /\ SameTree /\ SameNext
  BY <1>0, <1>1, <1>2 DEF RunDetail, DetailStages, SameKind, SameHeads, SameTree, SameNext
<1>4. DetailTypeOK' /\ Statements'
  BY <1>0, <1>3 DEF DetailTypeOK, Statements, SameKind
<1>5. StillSo'
  BY <1>0, <1>1, <1>3, Quiet DEF StillSo, SameKind, SameHeads, SameTree, SameNext
<1>6. ~partial => TreeGrows'
  BY <1>0, <1>3, TreeSame DEF DetailInv
<1> QED
  BY <1>0, <1>3, <1>4, <1>5, <1>6 DEF DetailInv, AnswerListed, AnswerTalked

\* The messages are finitely many.
LEMMA FiniteIds ==
    ASSUME SessionInv, NEW S \in SUBSET {m.id : m \in log}
    PROVE  IsFiniteSet(S) /\ S \subseteq Nat
<1>1. S \in SUBSET (1 .. count) /\ count \in Nat
  BY DEF SessionInv, MessagesOK
<1>2. IsFiniteSet(1 .. count)
  BY <1>1, FS_Interval
<1>3. IsFiniteSet(S)
  BY <1>1, <1>2, FS_Subset
<1> QED
  BY <1>1, <1>3

Lists(ids) == sight' = [sight EXCEPT !.at = AfterBlocks(ids), !.unread = ids]

\* The messages that are listed, whose blocks are still to be read.
LEMMA ReadMessagesFits ==
    ASSUME SessionInv, DetailInv, ReadRunMessages \/ ReadSessionMessages
    PROVE  DetailInv'
<1>0. /\ sight \in RunDetail /\ sight.of \in SessionRuns /\ DetailTypeOK /\ Statements /\ StillSo
      /\ sight.at = "messages" /\ sight.kind \in {"run", "talk", "session"}
      /\ UNCHANGED logVars /\ partial' = partial
  BY DEF DetailInv, DetailTypeOK, RunDetail, DetailKinds, ReadRunMessages, ReadSessionMessages, Goes, Statements
<1>1. PICK ids : /\ Lists(ids)
                 /\ ids \in SUBSET {m.id : m \in log}
                 /\ sight.kind # "session" => ids = GetMessagesByRun(sight.of)
  <2>1. CASE ReadRunMessages
    <3> DEFINE ids == GetMessagesByRun(sight.of)
    <3>1. Lists(ids)
      BY <2>1 DEF ReadRunMessages, Goes, Lists
    <3>2. ids \in SUBSET {m.id : m \in log}
      BY DEF GetMessagesByRun
    <3> QED
      BY <3>1, <3>2
  <2>2. CASE ReadSessionMessages
    <3> DEFINE ids == {m.id : m \in {n \in log : Cardinality({o \in log : o.id < n.id}) < RecentMessages}}
    <3>1. Lists(ids) /\ sight.kind = "session"
      BY <2>2 DEF ReadSessionMessages, Goes, Lists
    <3>2. ids \in SUBSET {m.id : m \in log}
      OBVIOUS
    <3> HIDE DEF ids
    <3> QED
      BY <3>1, <3>2
  <2> QED
    BY <2>1, <2>2
<1>2. IsFiniteSet(ids) /\ ids \subseteq Nat
  BY <1>1, FiniteIds
<1> DEFINE at == AfterBlocks(ids)
<1>3. /\ at \in DetailStages
      /\ ids # {} => at = "blocks"
      /\ ids = {} => at = (IF sight.kind = "session" THEN "conversation" ELSE "children")
  BY DEF AfterBlocks, DetailStages
<1> HIDE DEF at
<1>4. /\ sight' \in RunDetail /\ sight'.at = at /\ sight'.unread = ids /\ sight'.next = sight.next
      /\ SameKind /\ SameHeads /\ SameRead /\ SameTree
  BY <1>0, <1>1, <1>2, <1>3 DEF Lists, at, RunDetail, SameKind, SameHeads, SameRead, SameTree
<1>5. DetailTypeOK' /\ Statements'
  BY <1>0, <1>3, <1>4 DEF DetailTypeOK, Statements, SameKind
<1>6. StillSo'
  BY <1>0, <1>2, <1>3, <1>4, Quiet DEF StillSo, SameKind, SameHeads, SameRead, SameTree
<1>7. AnswerListed'
  <2>1. ASSUME NEW r, r = sight.of, sight.kind # "session" PROVE OnList(r)'
    <3>1. \A m \in AnswerOf(r) : m.id \in ids
      BY <1>1, <2>1 DEF AnswerOf, GetMessagesByRun
    <3> QED
      BY <1>0, <1>3, <1>4, <3>1, Quiet DEF OnList
  <2>2. \A h \in sight.heads : sight.kind # "session" => OnList(h.run)'
    BY <1>0, <2>1 DEF StillSo
  <2> QED
    BY <1>4, <2>2 DEF AnswerListed, SameKind, SameHeads
<1>8. AnswerTalked'
  BY <1>3, <1>4 DEF AnswerTalked
<1>9. ~partial => TreeGrows'
  BY <1>0, <1>3, <1>4, TreeSame DEF DetailInv
<1> QED
  BY <1>0, <1>5, <1>6, <1>7, <1>8, <1>9 DEF DetailInv

\* The blocks of one of them.
LEMMA ReadBlocksFits ==
    ASSUME SessionInv, DetailInv, ReadBlocks
    PROVE  DetailInv'
<1>0. /\ sight \in RunDetail /\ sight.of \in SessionRuns /\ DetailTypeOK /\ Statements /\ StillSo
      /\ sight.at = "blocks" /\ sight.kind \in {"run", "talk", "session"}
      /\ UNCHANGED logVars /\ partial' = partial
      /\ sight.unread \in SUBSET Nat /\ sight.unread # {} /\ IsFiniteSet(sight.unread)
  BY DEF DetailInv, DetailTypeOK, RunDetail, DetailKinds, ReadBlocks, Goes, Statements, StillSo
<1>1. PICK id : id = Min(sight.unread)
  OBVIOUS
<1>2. id \in sight.unread /\ id \in Nat
  BY <1>0, <1>1, NumberedEnds DEF Min
<1> DEFINE blocks == GetContentBlocks(id)
           left == sight.unread \ {id}
           at == AfterBlocks(left)
           read == [id |-> id, blocks |-> blocks]
<1>3. sight' = [sight EXCEPT !.at = at, !.unread = left, !.msgs = @ \cup {read}]
  BY <1>1 DEF ReadBlocks, Goes
<1>4. blocks \in SUBSET Blocks
  BY DEF SessionInv, MessagesOK, Message, GetContentBlocks
<1>5. \A m \in log : m.id = id /\ m.filled => blocks = m.body
  BY DEF SessionInv, MessagesOK, GetContentBlocks
<1>6. /\ at \in DetailStages
      /\ left # {} => at = "blocks"
      /\ left = {} => at = (IF sight.kind = "session" THEN "conversation" ELSE "children")
  BY DEF AfterBlocks, DetailStages
<1>7. left \in SUBSET Nat /\ IsFiniteSet(left)
  BY <1>0, FS_RemoveElement
<1> HIDE DEF blocks
<1>8. read \in MessageSummary /\ \A m \in AnswerOf(sight.of) : m.id = id => InList(m) = read
  BY <1>2, <1>4, <1>5 DEF MessageSummary, AnswerOf, InList
<1> HIDE DEF left, at, read
<1>9. /\ sight' \in RunDetail /\ sight'.at = at /\ sight'.unread = left /\ sight'.next = sight.next
      /\ sight'.msgs = sight.msgs \cup {read} /\ sight'.calls = sight.calls
      /\ SameKind /\ SameHeads /\ SameTree
  BY <1>0, <1>3, <1>6, <1>7, <1>8 DEF RunDetail, SameKind, SameHeads, SameTree
<1>10. DetailTypeOK' /\ Statements'
  BY <1>0, <1>6, <1>9 DEF DetailTypeOK, Statements, SameKind
<1>11. StillSo'
  BY <1>0, <1>6, <1>7, <1>9, Quiet DEF StillSo, SameKind, SameHeads, SameTree
<1>12. ASSUME ~partial PROVE AnswerListed'
  <2>1. ASSUME NEW r, r = sight.of, OnList(r) PROVE OnList(r)'
    <3>1. \A m \in AnswerOf(r) : \/ m.id \in left
                                 \/ InList(m) \in sight.msgs \cup {read}
      BY <1>8, <2>1 DEF OnList, left
    <3>2. AnswerOf(r)' = AnswerOf(r)
      BY <1>0, Quiet
    <3>3. \A m \in AnswerOf(r) : \/ sight'.at = "blocks" /\ m.id \in sight'.unread
                                 \/ InList(m) \in sight'.msgs
      BY <1>6, <1>9, <3>1
    <3> QED
      BY <3>2, <3>3 DEF OnList
  <2>2. \A h \in sight.heads : sight.kind # "session" /\ OnList(h.run) => OnList(h.run)'
    BY <1>0, <2>1 DEF StillSo
  <2>3. AnswerListed
    BY <1>12 DEF DetailInv
  <2> QED
    BY <1>0, <1>9, <2>2, <2>3 DEF AnswerListed, SameKind, SameHeads
<1>13. AnswerTalked'
  BY <1>6, <1>9 DEF AnswerTalked
<1>14. ~partial => TreeGrows'
  BY <1>0, <1>6, <1>9, TreeSame DEF DetailInv
<1> QED
  BY <1>0, <1>10, <1>11, <1>12, <1>13, <1>14 DEF DetailInv

\* The stage after the list of the children: a run's page goes on to the tree, if the run
\* is a root.
LEMMA AfterKidsStage ==
    ASSUME NEW S, sight.kind \in {"run", "talk", "call"}
    PROVE  /\ AfterKids(S) \in {"kids", "conversation", "shown", "root"}
           /\ AfterKids(S) = "conversation" => sight.kind = "talk"
           /\ AfterKids(S) = "root" => sight.kind = "run" /\ sight.of \in Roots
           /\ AfterKids(S) = "shown" => sight.kind # "talk" /\ ~(sight.kind = "run" /\ sight.of \in Roots)
  BY DEF AfterKids

ReadsKids(S) == sight' = [sight EXCEPT !.at = AfterKids(S), !.next = S]

\* The children of the executions.
LEMMA ReadChildrenFits ==
    ASSUME SessionInv, DetailInv, ReadChildren
    PROVE  DetailInv'
<1>0. /\ sight \in RunDetail /\ sight.of \in SessionRuns /\ DetailTypeOK /\ Statements /\ StillSo
      /\ sight.at = "children" /\ sight.kind \in {"run", "talk"} /\ UNCHANGED logVars /\ partial' = partial
      /\ Kids \subseteq SessionRuns
  BY DEF DetailInv, DetailTypeOK, RunDetail, ReadChildren, Goes, Statements, SessionRuns
<1> DEFINE kids == ChildrenIn(IF sight.calls = {} THEN GetToolExecutionsByRun(sight.of) ELSE sight.calls)
           at == AfterKids(kids)
<1>1. ReadsKids(kids)
  BY DEF ReadChildren, Goes, ReadsKids
<1>2. \A k \in kids : IsChild(k, sight.of)
  BY <1>0, Children, ChildrenOfRead
<1>3. kids \in SUBSET SessionRuns
  BY <1>0, <1>2 DEF IsChild
<1> HIDE DEF kids
<1>4. /\ at \in DetailStages /\ at \in {"kids", "conversation", "shown", "root"}
      /\ at = "conversation" => sight.kind = "talk"
      /\ at = "root" => sight.kind = "run" /\ sight.of \in Roots
      /\ at = "shown" => sight.kind # "talk" /\ ~(sight.kind = "run" /\ sight.of \in Roots)
  BY <1>0, AfterKidsStage DEF DetailStages
<1> HIDE DEF at
<1>5. /\ sight' \in RunDetail /\ sight'.at = at /\ sight'.next = kids /\ sight'.unread = sight.unread
      /\ SameKind /\ SameHeads /\ SameRead /\ SameTree
  BY <1>0, <1>1, <1>3, <1>4 DEF ReadsKids, at, RunDetail, SameKind, SameHeads, SameRead, SameTree
<1>6. DetailTypeOK' /\ Statements'
  BY <1>0, <1>4, <1>5 DEF DetailTypeOK, Statements, SameKind
<1>7. StillSo'
  BY <1>0, <1>2, <1>4, <1>5, Quiet DEF StillSo, SameKind, SameHeads, SameRead, SameTree, IsChild, ParentOf
<1>8. ~partial => AnswerListed'
  BY <1>0, <1>5, StillListed DEF DetailInv, SameHeads
<1>9. AnswerTalked'
  BY <1>0, <1>4, <1>5 DEF AnswerTalked, SameKind
<1>10. ~partial => TreeGrows'
  BY <1>0, <1>4, <1>5, TreeSame DEF DetailInv
<1> QED
  BY <1>0, <1>6, <1>7, <1>8, <1>9, <1>10 DEF DetailInv

\* The run of the execution whose page it is, and its child.
LEMMA ReadCallerFits ==
    ASSUME SessionInv, DetailInv, ReadCaller
    PROVE  DetailInv'
<1>0. /\ sight \in RunDetail /\ sight.of \in SessionRuns /\ DetailTypeOK /\ Statements /\ StillSo /\ RunsOK
      /\ sight.at = "caller" /\ sight.kind = "call" /\ UNCHANGED logVars /\ partial' = partial
      /\ runs[sight.of].state # "none"
  BY DEF DetailInv, DetailTypeOK, RunDetail, ReadCaller, Goes, SessionInv, Statements, StillSo
<1> DEFINE kids == ChildrenIn(sight.calls)
           at == AfterKids(kids)
           head == RunToSummary(sight.of)
<1>1. sight' = [sight EXCEPT !.at = at, !.next = kids, !.heads = {head}]
  BY DEF ReadCaller, Goes
<1>2. /\ \A k \in kids : IsChild(k, sight.of)
      /\ kids \in SUBSET SessionRuns
  BY <1>0, ChildrenOfRead DEF IsChild, SessionRuns
<1>3. head \in RunSummary /\ head.run = sight.of /\ head.state = runs[sight.of].state
  BY <1>0, RunSummarized
<1> HIDE DEF kids, head
<1>4. at \in DetailStages /\ at \in {"kids", "shown"}
  BY <1>0 DEF AfterKids, DetailStages
<1> HIDE DEF at
<1>5. /\ sight' \in RunDetail /\ sight'.at = at /\ sight'.next = kids /\ sight'.unread = sight.unread
      /\ sight'.heads = {head} /\ sight'.kids = sight.kids
      /\ SameKind /\ SameRead /\ SameTree
  BY <1>0, <1>1, <1>2, <1>3, <1>4 DEF RunDetail, SameKind, SameRead, SameTree
<1>6. DetailTypeOK' /\ Statements'
  BY <1>0, <1>4, <1>5 DEF DetailTypeOK, Statements, SameKind
<1>7. StillSo'
  BY <1>0, <1>2, <1>3, <1>4, <1>5, Quiet DEF StillSo, SameKind, SameRead, SameTree, IsChild, ParentOf
<1>8. AnswerListed' /\ AnswerTalked'
  BY <1>0, <1>5 DEF AnswerListed, AnswerTalked, SameKind
<1>9. ~partial => TreeGrows'
  BY <1>0, <1>4, <1>5, TreeSame DEF DetailInv
<1> QED
  BY <1>0, <1>6, <1>7, <1>8, <1>9 DEF DetailInv

\* One of the children.
LEMMA ReadKidFits ==
    ASSUME SessionInv, DetailInv, ReadKid
    PROVE  DetailInv'
<1>0. /\ sight \in RunDetail /\ sight.of \in SessionRuns /\ DetailTypeOK /\ Statements /\ StillSo /\ RunsOK
      /\ sight.at = "kids" /\ sight.kind \in {"run", "talk", "call"} /\ UNCHANGED logVars /\ partial' = partial
  BY DEF DetailInv, DetailTypeOK, RunDetail, DetailKinds, ReadKid, Goes, SessionInv, Statements
<1>1. PICK k \in sight.next :
        sight' = [sight EXCEPT !.at = AfterKids(sight.next \ {k}), !.next = @ \ {k},
                               !.kids = @ \cup {RunToSummary(k)}]
  BY DEF ReadKid, Goes
<1>2. IsChild(k, sight.of) /\ k \in SessionRuns /\ runs[k].state # "none"
  BY <1>0, <1>1, ChildrenCreated DEF StillSo
<1> DEFINE at == AfterKids(sight.next \ {k})
           kid == RunToSummary(k)
<1>3. kid \in RunSummary /\ kid.run = k
  BY <1>0, <1>2, RunSummarized
<1> HIDE DEF kid
<1>4. /\ at \in DetailStages /\ at \in {"kids", "conversation", "shown", "root"}
      /\ at = "conversation" => sight.kind = "talk"
      /\ at = "root" => sight.kind = "run" /\ sight.of \in Roots
      /\ at = "shown" => sight.kind # "talk" /\ ~(sight.kind = "run" /\ sight.of \in Roots)
  BY <1>0, AfterKidsStage DEF DetailStages
<1> HIDE DEF at
<1>5. /\ sight' \in RunDetail /\ sight'.at = at /\ sight'.next = sight.next \ {k}
      /\ sight'.unread = sight.unread
      /\ sight'.heads = sight.heads /\ sight'.kids = sight.kids \cup {kid}
      /\ SameKind /\ SameRead /\ SameTree
  BY <1>0, <1>1, <1>3, <1>4 DEF at, kid, RunDetail, SameKind, SameRead, SameTree
<1>6. DetailTypeOK' /\ Statements'
  BY <1>0, <1>4, <1>5 DEF DetailTypeOK, Statements, SameKind
<1>7. StillSo'
  BY <1>0, <1>2, <1>3, <1>4, <1>5, Quiet DEF StillSo, SameKind, SameRead, SameTree, IsChild, ParentOf
<1>8. ~partial => AnswerListed'
  BY <1>0, <1>5, StillListed DEF DetailInv
<1>9. AnswerTalked'
  BY <1>0, <1>4, <1>5 DEF AnswerTalked, SameKind
<1>10. ~partial => TreeGrows'
  BY <1>0, <1>4, <1>5, TreeSame DEF DetailInv
<1> QED
  BY <1>0, <1>6, <1>7, <1>8, <1>9, <1>10 DEF DetailInv

\* The root of the tree,
LEMMA ReadRootFits ==
    ASSUME SessionInv, DetailInv, ReadRoot
    PROVE  DetailInv'
<1>0. /\ sight \in RunDetail /\ sight.of \in SessionRuns /\ DetailTypeOK /\ Statements /\ StillSo
      /\ sight.at = "root" /\ sight.kind = "run" /\ sight.of \in Roots /\ UNCHANGED logVars /\ partial' = partial
  BY DEF DetailInv, DetailTypeOK, RunDetail, ReadRoot, Goes, Statements
<1>1. /\ sight' \in RunDetail /\ sight'.at = "tree" /\ sight'.next = {sight.of}
      /\ sight'.unread = sight.unread
      /\ SameKind /\ SameHeads /\ SameRead /\ SameTree
  BY <1>0 DEF ReadRoot, Goes, RunDetail, DetailStages, SameKind, SameHeads, SameRead, SameTree
<1>2. DetailTypeOK' /\ Statements'
  BY <1>0, <1>1 DEF DetailTypeOK, Statements, SameKind
<1>3. StillSo'
  BY <1>0, <1>1, Quiet DEF StillSo, SameKind, SameHeads, SameRead, SameTree, IsChild, ParentOf
<1>4. ~partial => AnswerListed'
  BY <1>0, <1>1, StillListed DEF DetailInv, SameHeads
<1>5. AnswerTalked'
  BY <1>1 DEF AnswerTalked
<1>6. ASSUME ~partial PROVE TreeGrows'
  <2>1. Below(sight.of)' = Below(sight.of) /\ sight.of \in Below(sight.of)
    BY <1>0, <1>1, Quiet, BelowItself DEF SameKind
  <2>2. sight.nodes \subseteq Below(sight.of)
    BY <1>6 DEF DetailInv, TreeGrows
  <2> QED
    BY <1>1, <2>1, <2>2 DEF TreeGrows, SameKind, SameTree
<1> QED
  BY <1>0, <1>2, <1>3, <1>4, <1>5, <1>6 DEF DetailInv

\* and a node of it, whose children come next.
LEMMA BuildNodeFits ==
    ASSUME SessionInv, DetailInv, BuildRunNode
    PROVE  DetailInv'
<1>0. /\ sight \in RunDetail /\ sight.of \in SessionRuns /\ DetailTypeOK /\ Statements /\ StillSo
      /\ sight.at = "tree" /\ sight.kind = "run" /\ sight.of \in Roots /\ UNCHANGED logVars /\ partial' = partial
      /\ Kids \subseteq SessionRuns /\ sight.next \subseteq SessionRuns
  BY DEF DetailInv, DetailTypeOK, RunDetail, BuildRunNode, Goes, Statements, SessionRuns
<1>1. PICK r \in sight.next :
        LET kids == ChildrenIn(GetToolExecutionsByRun(r))
            left == (sight.next \ {r}) \cup kids IN
        sight' = [sight EXCEPT !.at = IF left = {} THEN "shown" ELSE "tree", !.next = left,
                               !.nodes = @ \cup {r}]
  BY DEF BuildRunNode, Goes
<1> DEFINE kids == ChildrenIn(GetToolExecutionsByRun(r))
           left == (sight.next \ {r}) \cup kids
           at == IF left = {} THEN "shown" ELSE "tree"
<1>2. \A k : k \in kids <=> IsChild(k, r)
  BY <1>0, Children
<1>3. sight' = [sight EXCEPT !.at = at, !.next = left, !.nodes = @ \cup {r}]
  BY <1>1
<1> HIDE DEF kids
<1>4. left \in SUBSET SessionRuns /\ r \in SessionRuns
  BY <1>0, <1>2 DEF IsChild
<1>5. at \in DetailStages /\ ((at = "shown" /\ left = {}) \/ at = "tree")
  BY DEF DetailStages
<1> HIDE DEF left, at
<1>6. /\ sight' \in RunDetail /\ sight'.at = at /\ sight'.next = left /\ sight'.nodes = sight.nodes \cup {r}
      /\ sight'.unread = sight.unread
      /\ SameKind /\ SameHeads /\ SameRead
  BY <1>0, <1>3, <1>4, <1>5 DEF RunDetail, SameKind, SameHeads, SameRead
<1>7. DetailTypeOK' /\ Statements'
  BY <1>0, <1>5, <1>6 DEF DetailTypeOK, Statements, SameKind
<1>8. StillSo'
  BY <1>0, <1>5, <1>6, Quiet DEF StillSo, SameKind, SameHeads, SameRead, IsChild, ParentOf
<1>9. ~partial => AnswerListed'
  BY <1>0, <1>6, StillListed DEF DetailInv, SameHeads
<1>10. AnswerTalked'
  BY <1>0, <1>6 DEF AnswerTalked, SameKind
<1>11. ASSUME ~partial PROVE TreeGrows'
  <2>0. /\ sight.of \in sight.next \/ \A k \in sight.kids : k.run \in sight.nodes \cup sight.next
        /\ sight.nodes \subseteq Below(sight.of) /\ sight.next \subseteq Below(sight.of)
    BY <1>0, <1>11 DEF DetailInv, TreeGrows
  <2>1. Below(sight.of)' = Below(sight.of)
    BY <1>0, <1>6, Quiet DEF SameKind
  <2>2. \A k \in kids : k \in Below(sight.of)
    BY <1>1, <1>2, <2>0, BelowChild
  <2>3. left \subseteq Below(sight.of) /\ sight.nodes \cup {r} \subseteq Below(sight.of)
    BY <1>1, <2>0, <2>2 DEF left
  <2>4. \/ sight.of \in left
        \/ \A k \in sight.kids : k.run \in (sight.nodes \cup {r}) \cup left
    <3>1. CASE r = sight.of
      <4>1. \A k \in sight.kids : k.run \in kids
        BY <1>0, <1>2, <3>1 DEF StillSo
      <4> QED
        BY <4>1 DEF left
    <3>2. CASE r # sight.of
      BY <2>0, <3>2 DEF left
    <3> QED
      BY <3>1, <3>2
  <2> QED
    BY <1>0, <1>5, <1>6, <2>1, <2>3, <2>4 DEF TreeGrows, SameKind, SameHeads
<1> QED
  BY <1>0, <1>7, <1>8, <1>9, <1>10, <1>11 DEF DetailInv

\* The execution of the page, or none.
LEMMA OpenCallFits ==
    ASSUME SessionInv, DetailInv, OpenCall
    PROVE  DetailInv'
<1>0. /\ sight \in RunDetail /\ sight.of \in SessionRuns /\ DetailTypeOK /\ Statements /\ StillSo /\ RunsOK
      /\ sight.at = "closed" /\ sight.kind = "call" /\ UNCHANGED logVars /\ partial' = partial
      /\ Families /\ sight.calls = {} /\ sight.heads = {} /\ sight.kids = {} /\ sight.nodes = {}
  BY DEF DetailInv, DetailTypeOK, RunDetail, OpenCall, Goes, SessionInv, StillSo
<1>1. PICK u \in Uses :
        LET row == {e \in UNION {GetToolExecutionsByRun(r) : r \in SessionRuns} : e.use = u} IN
        sight' = (IF row = {} THEN [sight EXCEPT !.at = "refused"]
                  ELSE [sight EXCEPT !.at = "caller", !.of = calls[u].of, !.calls = row])
  BY DEF OpenCall, Goes
<1> DEFINE row == {e \in UNION {GetToolExecutionsByRun(r) : r \in SessionRuns} : e.use = u}
<1>2. CASE row = {}
  <2>1. /\ sight' \in RunDetail /\ sight'.at = "refused"
        /\ SameKind /\ SameHeads /\ SameRead /\ SameTree /\ SameNext
    <3>1. sight' = [sight EXCEPT !.at = "refused"]
      BY <1>1, <1>2
    <3> QED
      BY <1>0, <3>1 DEF RunDetail, DetailStages, SameKind, SameHeads, SameRead, SameTree, SameNext
  <2>2. DetailTypeOK' /\ Statements'
    BY <1>0, <2>1 DEF DetailTypeOK, Statements
  <2>3. StillSo'
    BY <1>0, <2>1, Quiet DEF StillSo, SameKind, SameHeads, SameRead, SameTree, SameNext
  <2>4. AnswerListed' /\ AnswerTalked' /\ TreeGrows'
    BY <1>0, <2>1 DEF AnswerListed, AnswerTalked, TreeGrows, SameTree
  <2> QED
    BY <1>0, <2>2, <2>3, <2>4 DEF DetailInv
<1>3. CASE row # {}
  <2>1. /\ row \in SUBSET ToolExecutionSummary
        /\ \A e \in row : e.use = u /\ calls[u].kid = e.kid
        /\ calls[u].of \in SessionRuns /\ calls[u].state \notin {"none", "asked"}
    BY <1>0, <1>3 DEF GetToolExecutionsByRun, ToolExecutionSummary, RunsOK, CallOfSession
  <2>2. runs[calls[u].of].state # "none"
    BY <1>0, <2>1 DEF Families
  <2>3. sight' = [sight EXCEPT !.at = "caller", !.of = calls[u].of, !.calls = row]
    BY <1>1, <1>3
  <2> HIDE DEF row
  <2>4. /\ sight' \in RunDetail /\ sight'.at = "caller" /\ sight'.kind = "call"
        /\ sight'.of = calls[u].of /\ sight'.calls = row
        /\ SameHeads /\ SameTree /\ SameNext
    BY <1>0, <2>1, <2>3 DEF RunDetail, DetailStages, SameHeads, SameTree, SameNext
  <2>5. DetailTypeOK' /\ Statements'
    BY <1>0, <2>4 DEF DetailTypeOK, Statements
  <2>6. StillSo'
    BY <1>0, <2>1, <2>2, <2>4, Quiet DEF StillSo, SameHeads, SameTree, SameNext
  <2>7. AnswerListed' /\ AnswerTalked' /\ TreeGrows'
    BY <1>0, <2>4 DEF AnswerListed, AnswerTalked, TreeGrows, SameTree
  <2> QED
    BY <1>0, <2>5, <2>6, <2>7 DEF DetailInv
<1> QED
  BY <1>2, <1>3

\* The page of the session, and its runs.
LEMMA SessionRunsFit ==
    ASSUME SessionInv, RunsListed, DetailInv, OpenSession \/ ReadSessionRuns
    PROVE  DetailInv'
<1>0. /\ sight \in RunDetail /\ sight.of \in SessionRuns /\ DetailTypeOK /\ Statements /\ StillSo /\ RunsOK
      /\ sight.at \in {"closed", "runs"} /\ sight.kind = "session" /\ UNCHANGED logVars /\ partial' = partial
  BY DEF DetailInv, DetailTypeOK, RunDetail, OpenSession, ReadSessionRuns, Goes, SessionInv, Statements
<1>1. CASE OpenSession
  <2>1. /\ sight' \in RunDetail /\ sight'.at = "runs"
        /\ SameKind /\ SameHeads /\ SameRead /\ SameTree /\ SameNext
    BY <1>0, <1>1 DEF OpenSession, Goes, RunDetail, DetailStages, SameKind, SameHeads, SameRead, SameTree, SameNext
  <2>2. DetailTypeOK' /\ Statements'
    BY <1>0, <2>1 DEF DetailTypeOK, Statements, SameKind
  <2>3. sight.at = "closed"
    BY <1>1 DEF OpenSession
  <2>4. StillSo'
    BY <1>0, <2>1, <2>3, Quiet DEF StillSo, SameKind, SameHeads, SameRead, SameTree, SameNext
  <2>5. ~partial => TreeGrows'
    BY <1>0, <2>1, TreeSame DEF DetailInv
  <2> QED
    BY <1>0, <2>1, <2>2, <2>4, <2>5 DEF DetailInv, AnswerListed, AnswerTalked
<1>2. CASE ReadSessionRuns
  <2> DEFINE heads == {RunToSummary(r) : r \in Newest(RecentRuns)}
  <2>1. \A r \in Newest(RecentRuns) : r \in SessionRuns /\ runs[r].state # "none"
    BY RecentAssumption, NewestRuns DEF RunsListed
  <2>2. /\ heads \in SUBSET RunSummary
        /\ \A h \in heads : h.state = "completed" => runs[h.run].state = "completed"
    BY <1>0, <2>1, RunSummarized
  <2>3. sight' = [sight EXCEPT !.at = "messages", !.heads = heads] /\ sight.at = "runs"
    BY <1>2 DEF ReadSessionRuns, Goes
  <2> HIDE DEF heads
  <2>4. /\ sight' \in RunDetail /\ sight'.at = "messages"
        /\ sight'.heads = heads /\ sight'.kids = sight.kids
        /\ SameKind /\ SameRead /\ SameTree /\ SameNext
    BY <1>0, <2>2, <2>3 DEF RunDetail, DetailStages, SameKind, SameRead, SameTree, SameNext
  <2>5. DetailTypeOK' /\ Statements'
    BY <1>0, <2>4 DEF DetailTypeOK, Statements, SameKind
  <2>6. StillSo'
    BY <1>0, <2>2, <2>3, <2>4, Quiet DEF StillSo, SameKind, SameRead, SameTree, SameNext, IsChild, ParentOf
  <2>7. ~partial => TreeGrows'
    BY <1>0, <2>4, TreeSame DEF DetailInv
  <2> QED
    BY <1>0, <2>4, <2>5, <2>6, <2>7 DEF DetailInv, AnswerListed, AnswerTalked
<1> QED
  BY <1>1, <1>2

\* The conversation is read last, and has the answer or is full.
LEMMA ConversationFits ==
    ASSUME SessionInv, DetailInv, ReadConversation
    PROVE  DetailInv'
<1>0. /\ sight \in RunDetail /\ sight.of \in SessionRuns /\ DetailTypeOK /\ Statements /\ StillSo
      /\ sight.at = "conversation" /\ sight.kind \in {"talk", "session"}
      /\ UNCHANGED logVars /\ partial' = partial
      /\ Conversation \in SUBSET Message /\ \A h \in sight.heads : h.run \in SessionRuns
  BY DEF DetailInv, DetailTypeOK, RunDetail, RunSummary, ReadConversation, Goes, Statements,
         Conversation, Oldest100, SessionInv, MessagesOK
<1> DEFINE talk == Conversation
<1>1. sight' = [sight EXCEPT !.at = "shown", !.talk = talk]
  BY DEF ReadConversation, Goes
<1>2. \A h \in sight.heads : h.state = "completed" /\ h.run \in Roots =>
          \/ AnswerOf(h.run) # {} /\ AnswerOf(h.run) \subseteq talk
          \/ Cardinality(talk) = PageLimit
  BY <1>0, AnswerRead DEF StillSo
<1> HIDE DEF talk
<1>3. /\ sight' \in RunDetail /\ sight'.at = "shown" /\ sight'.talk = talk
      /\ sight'.calls = sight.calls /\ sight'.msgs = sight.msgs
      /\ SameKind /\ SameHeads /\ SameTree /\ SameNext
  BY <1>0, <1>1 DEF talk, RunDetail, DetailStages, SameKind, SameHeads, SameTree, SameNext
<1>4. DetailTypeOK' /\ Statements'
  BY <1>0, <1>3 DEF DetailTypeOK, Statements, SameKind
<1>5. StillSo'
  BY <1>0, <1>3, Quiet DEF StillSo, SameKind, SameHeads, SameTree, SameNext, IsChild, ParentOf
<1>6. ~partial => AnswerListed'
  <2>1. ASSUME NEW r, OnList(r) PROVE OnList(r)'
    BY <1>0, <1>3, <2>1, Quiet DEF OnList
  <2> QED
    BY <1>0, <1>3, <2>1 DEF DetailInv, AnswerListed, SameKind, SameHeads
<1>7. AnswerTalked'
  BY <1>0, <1>2, <1>3, Quiet DEF AnswerTalked, SameKind, SameHeads
<1>8. ~partial => TreeGrows'
  BY <1>0, <1>3, TreeSame DEF DetailInv
<1> QED
  BY <1>0, <1>4, <1>5, <1>6, <1>7, <1>8 DEF DetailInv

\* A failed statement leaves what was read as it is.
LEMMA FailureFits ==
    ASSUME UNCHANGED logVars, DetailInv, partial' = TRUE, sight' \in RunDetail,
           SameKind, SameHeads, sight'.calls = sight.calls,
           sight'.at \notin {"closed", "caller"}, Statements',
           sight'.at = "kids" => \A k \in sight'.next : IsChild(k, sight.of),
           IsFiniteSet(sight'.unread), sight'.at = "blocks" => sight'.unread # {}
    PROVE  DetailInv'
<1>1. DetailTypeOK'
  BY DEF DetailTypeOK
<1>2. StillSo'
  BY Quiet DEF DetailInv, StillSo, SameKind, SameHeads, IsChild, ParentOf
<1> QED
  BY <1>1, <1>2 DEF DetailInv

Left ==
    /\ sight' \in RunDetail /\ SameKind /\ SameHeads /\ sight'.calls = sight.calls
    /\ sight'.at \notin {"closed", "caller"} /\ Statements'
    /\ sight'.at = "kids" => \A k \in sight'.next : IsChild(k, sight.of)
    /\ IsFiniteSet(sight'.unread) /\ (sight'.at = "blocks" => sight'.unread # {})

Moves(at) == sight' = [sight EXCEPT !.at = at]

\* Any of these statements may fail.
LEMMA StatementFailsFits ==
    ASSUME SessionInv, DetailInv, StatementFails
    PROVE  DetailInv'
<1>0. /\ sight \in RunDetail /\ sight.of \in SessionRuns /\ sight.kind \in {"run", "talk", "call", "session"}
      /\ Statements /\ StillSo /\ UNCHANGED logVars /\ partial' = TRUE
      /\ IsFiniteSet(sight.unread) /\ sight.unread \in SUBSET Nat /\ sight.next \in SUBSET SessionRuns
      /\ sight.nodes \in SUBSET SessionRuns
  BY DEF DetailInv, DetailTypeOK, RunDetail, DetailKinds, StatementFails, Goes, StillSo
<1> SUFFICES Left
  BY <1>0, FailureFits DEF Left
\* The page goes on to another statement, or to its end.
<1>1. ASSUME NEW at \in DetailStages, Moves(at),
             at \in {"messages", "conversation", "children", "shown", "refused", "root"},
             at = "messages" => sight.kind # "call",
             at = "conversation" => sight.kind \in {"talk", "session"},
             at = "children" => sight.kind \in {"run", "talk"},
             at = "root" => sight.kind = "run" /\ sight.of \in Roots
      PROVE  Left
  <2>1. /\ sight' \in RunDetail /\ SameKind /\ SameHeads /\ sight'.calls = sight.calls
        /\ sight'.at = at /\ sight'.unread = sight.unread
    BY <1>0, <1>1 DEF Moves, RunDetail, SameKind, SameHeads
  <2> QED
    BY <1>0, <1>1, <2>1 DEF Statements, SameKind, Left
<1>2. CASE sight.at = "closed" /\ Moves("refused")
  BY <1>1, <1>2 DEF DetailStages
<1>3. CASE sight.at \in {"calls", "runs"} /\ Moves("messages")
  BY <1>0, <1>1, <1>3 DEF DetailStages, Statements
<1>4. CASE sight.at = "messages" /\ Moves(AfterBlocks({}))
  BY <1>0, <1>1, <1>4 DEF DetailStages, Statements, AfterBlocks
<1>5. CASE sight.at = "children" /\ Moves(AfterKids({}))
  BY <1>0, <1>1, <1>5 DEF DetailStages, Statements, AfterKids
<1>6. CASE sight.at = "root" /\ Moves("shown")
  BY <1>1, <1>6 DEF DetailStages
<1>7. CASE sight.at = "conversation" /\ Moves(IF sight.kind = "talk" THEN "refused" ELSE "shown")
  BY <1>1, <1>7 DEF DetailStages
\* The children of an execution, of which one may be left out.
<1>8. ASSUME NEW S \in SUBSET SessionRuns, \A k \in S : IsChild(k, sight.of), sight.kind \in {"run", "talk", "call"},
             ReadsKids(S)
      PROVE  Left
  <2> DEFINE at == AfterKids(S)
  <2>1. /\ at \in {"kids", "conversation", "shown", "root"} /\ at \in DetailStages
        /\ at = "conversation" => sight.kind = "talk"
        /\ at = "root" => sight.kind = "run" /\ sight.of \in Roots
    BY <1>8, AfterKidsStage DEF DetailStages
  <2>2. sight' = [sight EXCEPT !.at = at, !.next = S]
    BY <1>8 DEF ReadsKids
  <2> HIDE DEF at
  <2>3. /\ sight' \in RunDetail /\ SameKind /\ SameHeads /\ sight'.calls = sight.calls
        /\ sight'.at = at /\ sight'.unread = sight.unread /\ sight'.next = S
    BY <1>0, <1>8, <2>1, <2>2 DEF RunDetail, SameKind, SameHeads
  <2> QED
    BY <1>0, <1>8, <2>1, <2>3 DEF Statements, SameKind, Left
<1>9. CASE sight.at = "caller" /\ ReadsKids(ChildrenIn(sight.calls))
  <2> DEFINE S == ChildrenIn(sight.calls)
  <2>1. \A k \in S : IsChild(k, sight.of)
    BY ChildrenOfRead DEF DetailInv
  <2>2. S \in SUBSET SessionRuns
    BY <2>1 DEF IsChild, SessionRuns
  <2>3. ReadsKids(S) /\ sight.kind = "call"
    BY <1>0, <1>9 DEF Statements
  <2> HIDE DEF S
  <2> QED
    BY <1>8, <2>1, <2>2, <2>3
<1>10. CASE sight.at = "kids" /\ \E k \in sight.next : ReadsKids(sight.next \ {k})
  <2>1. PICK k \in sight.next : ReadsKids(sight.next \ {k})
    BY <1>10
  <2> DEFINE S == sight.next \ {k}
  <2>2. /\ \A j \in S : IsChild(j, sight.of)
        /\ S \in SUBSET SessionRuns /\ sight.kind \in {"run", "talk", "call"}
    BY <1>0, <1>10 DEF StillSo, Statements
  <2>3. ReadsKids(S)
    BY <2>1
  <2> HIDE DEF S
  <2> QED
    BY <1>8, <2>2, <2>3
\* The blocks of the first message that is left.
<1>11. ASSUME sight.at = "blocks", NEW id, id = Min(sight.unread), NEW left, left = sight.unread \ {id},
              NEW read, read = InList([id |-> id, body |-> {}]),
              sight' = [sight EXCEPT !.at = AfterBlocks(left), !.unread = left, !.msgs = @ \cup {read}]
       PROVE  Left
  <2>1. id \in Nat /\ sight.kind \in {"run", "talk", "session"}
    BY <1>0, <1>11, NumberedEnds DEF Min, StillSo, Statements
  <2>2. left \in SUBSET Nat /\ IsFiniteSet(left)
    BY <1>0, <1>11, FS_RemoveElement
  <2>3. read \in MessageSummary
    BY <1>11, <2>1 DEF InList, MessageSummary
  <2> DEFINE at == AfterBlocks(left)
  <2>4. /\ at \in DetailStages /\ at \in {"blocks", "conversation", "children"}
        /\ at = "blocks" => left # {}
        /\ at = "conversation" => sight.kind = "session"
        /\ at = "children" => sight.kind \in {"run", "talk"}
    BY <2>1 DEF AfterBlocks, DetailStages
  <2>5. sight' = [sight EXCEPT !.at = at, !.unread = left, !.msgs = @ \cup {read}]
    BY <1>11
  <2> HIDE DEF at
  <2>6. /\ sight' \in RunDetail /\ SameKind /\ SameHeads /\ sight'.calls = sight.calls
        /\ sight'.at = at /\ sight'.unread = left
    BY <1>0, <2>2, <2>3, <2>4, <2>5 DEF RunDetail, SameKind, SameHeads
  <2> QED
    BY <1>0, <2>1, <2>2, <2>4, <2>6 DEF Statements, SameKind, Left
\* A node of the tree.
<1>12. ASSUME sight.at = "tree", NEW r \in sight.next, NEW listed \in BOOLEAN,
              sight' = [sight EXCEPT !.at = IF sight.next = {r} THEN "shown" ELSE "tree", !.next = @ \ {r},
                                     !.nodes = IF listed THEN @ \cup {r} ELSE @]
       PROVE  Left
  <2>1. PICK at \in {"shown", "tree"} : at = (IF sight.next = {r} THEN "shown" ELSE "tree")
    OBVIOUS
  <2>2. PICK nodes \in SUBSET SessionRuns : nodes = (IF listed THEN sight.nodes \cup {r} ELSE sight.nodes)
    BY <1>0
  <2>3. sight' = [sight EXCEPT !.at = at, !.next = sight.next \ {r}, !.nodes = nodes]
    BY <1>12, <2>1, <2>2
  <2>4. /\ sight' \in RunDetail /\ SameKind /\ SameHeads /\ sight'.calls = sight.calls
        /\ sight'.at = at /\ sight'.unread = sight.unread
    BY <1>0, <2>3 DEF RunDetail, DetailStages, SameKind, SameHeads
  <2> QED
    BY <1>0, <1>12, <2>4 DEF Statements, SameKind, Left
<1>13. CASE /\ sight.at = "blocks"
           /\ LET id == Min(sight.unread) IN
              sight' = [sight EXCEPT !.at = AfterBlocks(sight.unread \ {id}), !.unread = @ \ {id},
                                     !.msgs = @ \cup {[id |-> id, blocks |-> {}]}]
  <2> DEFINE id == Min(sight.unread)
             left == sight.unread \ {id}
             read == [id |-> id, blocks |-> {}]
  <2>1. sight' = [sight EXCEPT !.at = AfterBlocks(left), !.unread = left, !.msgs = @ \cup {read}]
    BY <1>13
  <2>2. read = InList([id |-> id, body |-> {}])
    BY DEF InList
  <2> HIDE DEF read
  <2> QED
    BY <1>11, <1>13, <2>1, <2>2
<1>14. CASE /\ sight.at = "tree"
           /\ \E r \in sight.next, listed \in BOOLEAN :
                 sight' = [sight EXCEPT !.at = IF sight.next = {r} THEN "shown" ELSE "tree", !.next = @ \ {r},
                                        !.nodes = IF listed THEN @ \cup {r} ELSE @]
  BY <1>12, <1>14
<1> QED
  BY <1>2, <1>3, <1>4, <1>5, <1>6, <1>7, <1>9, <1>10, <1>13, <1>14 DEF StatementFails, Goes, ReadsKids, Moves

\* DetailInv is inductive,
LEMMA DetailStepFits ==
    ASSUME SessionInv, RunsListed, DetailInv, DetailStep
    PROVE  DetailInv' /\ UNCHANGED <<logVars, page, created>>
<1>1. UNCHANGED <<logVars, page, created>>
  BY DEF DetailStep, OpenRun, ReadCalls, ReadRunMessages, ReadBlocks, ReadChildren, ReadKid, ReadRoot, BuildRunNode,
         OpenCall, ReadCaller, OpenSession, ReadSessionRuns, ReadSessionMessages, ReadConversation, StatementFails, Goes
<1> QED
  BY <1>1, OpenRunFits, ReadCallsFits, ReadMessagesFits, ReadBlocksFits, ReadChildrenFits, ReadKidFits, ReadRootFits,
     BuildNodeFits, OpenCallFits, ReadCallerFits, SessionRunsFit, ConversationFits, StatementFailsFits DEF DetailStep

\* holds at the start,
LEMMA DetailBegins == DetailInit => DetailInv
<1> SUFFICES ASSUME DetailInit PROVE DetailInv
  OBVIOUS
<1>1. PICK kind \in DetailKinds, r \in SessionRuns :
        sight = [kind |-> kind, at |-> "closed", of |-> r, heads |-> {}, calls |-> {}, msgs |-> {},
                 kids |-> {}, nodes |-> {}, talk |-> {}, unread |-> {}, next |-> {}]
  BY DEF DetailInit
<1>2. sight \in RunDetail
  BY <1>1 DEF RunDetail, DetailStages
<1>3. /\ sight.at = "closed" /\ sight.unread = {} /\ sight.heads = {} /\ sight.calls = {}
      /\ sight.kids = {} /\ sight.nodes = {}
  BY <1>1
<1>4. DetailTypeOK
  BY <1>2 DEF DetailInit, DetailTypeOK
<1>5. Statements /\ StillSo
  BY <1>3, FS_EmptySet DEF Statements, StillSo
<1>6. AnswerListed /\ AnswerTalked /\ TreeGrows
  BY <1>3 DEF AnswerListed, AnswerTalked, TreeGrows
<1> QED
  BY <1>4, <1>5, <1>6 DEF DetailInv

\* and says what such a page is to show.
LEMMA DetailShows == SessionInv /\ DetailInv => DetailTypeOK /\ DetailsAgree
<1> SUFFICES ASSUME SessionInv, DetailInv, sight.at = "shown", ~partial PROVE DetailsAgree
  BY DEF DetailInv, DetailsAgree
<1>0. AnswerListed /\ AnswerTalked /\ TreeGrows /\ StillSo /\ \A h \in sight.heads : h.run \in SessionRuns
  BY DEF DetailInv, DetailTypeOK, RunDetail, RunSummary
<1>1. ASSUME NEW h \in sight.heads, h.state = "completed", sight.kind \in {"run", "talk"}
      PROVE  \E m \in AnswerOf(h.run) : [id |-> m.id, blocks |-> m.body] \in sight.msgs
  <2>1. OnList(h.run) /\ runs[h.run].state = "completed"
    BY <1>0, <1>1 DEF AnswerListed, StillSo
  <2>2. PICK m \in log : AnswerOf(h.run) = {m}
    BY <1>0, <2>1, AnswerThere
  <2>3. InList(m) \in sight.msgs
    BY <2>1, <2>2 DEF OnList
  <2> QED
    BY <2>2, <2>3 DEF InList
<1>2. \A k \in sight.kids : ParentOf(k.run) = sight.of
  BY <1>0 DEF StillSo, IsChild
<1> QED
  BY <1>0, <1>1, <1>2 DEF DetailsAgree, AnswerTalked, TreeGrows

-----------------------------------------------------------------------------
(* The chat pages and one other page, of the same session.                 *)

PagesNext == (ConsoleNext /\ UNCHANGED detailVars) \/ DetailNext

PagesSpec ==
    LogInit /\ ConsoleInit /\ DetailInit /\ [][PagesNext]_<<logVars, page, created, detailVars>>

PagesInv == ConsoleInv /\ DetailInv

\* To the session a step of the chat pages is one of its own, or none.
LEMMA ConsoleLog ==
    ASSUME RunsOK, ConsoleNext
    PROVE  [LogNext]_logVars
<1>1. ASSUME NEW p \in Pages, PageStep(p) PROVE [LogNext]_logVars
  <2>1. CASE \E r \in Roots : Send(p, r) \/ SendNew(p, r)
    BY <2>1, SubmitGrows DEF Send, SendNew
  <2> QED
    BY <1>1, <2>1 DEF PageStep, OpenPage, ReadMessages, ReadRuns, FindPending, PollRun, LoadFails
<1> QED
  BY <1>1 DEF ConsoleNext, LogStep

\* The pages read the session and are no part of it, but for the runs they create.
LEMMA PagesStep ==
    ASSUME PagesInv, [PagesNext]_<<logVars, page, created, detailVars>>
    PROVE  PagesInv'
<1>0. SessionInv /\ RunsListed /\ RunsOK
  BY DEF PagesInv, ConsoleInv, SessionInv
<1>1. CASE UNCHANGED detailVars /\ [ConsoleNext]_<<logVars, page, created>>
  <2>1. [LogNext]_logVars
    BY <1>0, <1>1, ConsoleLog DEF logVars
  <2> QED
    BY <1>0, <1>1, <2>1, ConsoleStep, DetailStays DEF PagesInv
<1>2. CASE DetailStep
  <2>1. DetailInv' /\ UNCHANGED <<logVars, page, created>>
    BY <1>0, <1>2, DetailStepFits DEF PagesInv
  <2> QED
    BY <2>1, ConsoleStep DEF PagesInv
<1> QED
  BY <1>1, <1>2 DEF PagesNext, DetailNext, ConsoleNext

\* What the pages have read is so in every reachable state, be the session written by
\* however many runs, and read by however many pages.
THEOREM PagesInvHolds == PagesSpec => []PagesInv
<1>1. LogInit /\ ConsoleInit /\ DetailInit => PagesInv
  BY ConsoleBegins, DetailBegins DEF PagesInv
<1>2. PagesInv /\ [PagesNext]_<<logVars, page, created, detailVars>> => PagesInv'
  BY PagesStep
<1> QED
  BY <1>1, <1>2, PTL DEF PagesSpec

\* Every variable of the pages has its type.
THEOREM PagesTyped == PagesSpec => [](ConsoleTypeOK /\ DetailTypeOK)
<1>1. PagesInv => ConsoleTypeOK /\ DetailTypeOK
  BY ConsoleShows, DetailShows DEF PagesInv, ConsoleInv
<1> QED
  BY <1>1, PagesInvHolds, PTL

\* Every message the hierarchy view has read is in a group it shows (messages.go:212,
\* 218), in any session that has no more runs than are read.
THEOREM MessagesAreGrouped == PagesSpec => []HierarchyShowsAll
<1>1. PagesInv => HierarchyShowsAll
  BY ConsoleShows DEF PagesInv
<1> QED
  BY <1>1, PagesInvHolds, PTL

\* No page hides the answer of a run it shows as completed, the children it lists are
\* the run's own, and the tree it draws has them and no run that is not below it
\* (handlers.go:677; runs.go:133, 199; sessions.go:101, 204).
THEOREM AnswerIsShown == PagesSpec => []AnswerShown
<1>1. PagesInv => AnswerShown
  BY ConsoleShows, DetailShows DEF PagesInv, ConsoleInv, AnswerShown
<1> QED
  BY <1>1, PagesInvHolds, PTL

-----------------------------------------------------------------------------
(* The lists, page by page.                                                *)

Walk == [at : {"count", "rows", "ended"}, narrow : BOOLEAN, limit : 1 .. MaxPageLimit,
         offset : Nat, total : Nat, seen : SUBSET Rows, due : SUBSET Rows, torn : BOOLEAN]

\* Who has read as far as the offset has seen the rows up to there.
Ahead == \A i \in DOMAIN rows : rows[i] \in walk.due \ walk.seen => walk.offset < i

\* The rows that are due are in the list, and the count is that of the list it was made of.
Walking ==
    /\ walk \in Walk
    /\ rows \in Seq(Rows)
    /\ walk.due \subseteq {rows[i] : i \in Listed(walk.narrow)}
    /\ walk.at # "ended" /\ ~walk.narrow => Ahead
    /\ walk.at = "rows" /\ ~walk.torn => walk.total = Cardinality(Wanted)

PagingInv == gone = {} => Walking /\ WalkComplete

\* The rows of a list that come before a place, where the list is the table.
LEMMA PlacesBefore ==
    ASSUME rows \in Seq(Rows), NEW i \in DOMAIN rows
    PROVE  Cardinality({j \in DOMAIN rows : j < i}) = i - 1
<1>1. DOMAIN rows = 1 .. Len(rows) /\ Len(rows) \in Nat
  OBVIOUS
<1>2. {j \in DOMAIN rows : j < i} = 1 .. i - 1
  BY <1>1
<1>3. i \in Nat /\ i >= 1 /\ 1 \in Int /\ i - 1 \in Int
  BY <1>1
<1>4. Cardinality(1 .. i - 1) = IF 1 > i - 1 THEN 0 ELSE (i - 1) - 1 + 1
  BY <1>3, FS_Interval
<1>5. i - 1 = IF 1 > i - 1 THEN 0 ELSE (i - 1) - 1 + 1
  BY <1>3
<1> QED
  BY <1>2, <1>4, <1>5

\* A list is finite.
LEMMA PlacesFinite ==
    ASSUME rows \in Seq(Rows), NEW L \in SUBSET DOMAIN rows
    PROVE  IsFiniteSet(L) /\ Cardinality(L) \in Nat
<1>1. IsFiniteSet(1 .. Len(rows)) /\ L \subseteq 1 .. Len(rows)
  BY FS_Interval
<1> QED
  BY <1>1, FS_Subset, FS_CardinalityType

\* The next page begins where this one ended, or before.
LEMMA NextOffset ==
    ASSUME NEW offset \in Nat, NEW limit \in Nat \ {0}
    PROVE  /\ CurrentPage(offset, limit) * limit \in Nat
           /\ CurrentPage(offset, limit) * limit <= offset + limit
           /\ CurrentPage(offset, limit) * limit # 0
<1>1. PICK q \in Nat : q = offset \div limit
  OBVIOUS
<1>2. q * limit <= offset
  BY <1>1
<1>3. q * limit \in Nat /\ (q + 1) * limit = q * limit + limit
  BY <1>1
<1> QED
  BY <1>1, <1>2, <1>3 DEF CurrentPage

\* A row that is created moves the others to later places.
LEMMA RowCreated ==
    ASSUME PagingInv, walk.at # "ended", NEW x \in Rows, CreateRow(x)
    PROVE  PagingInv'
<1> SUFFICES ASSUME gone = {} PROVE Walking' /\ WalkComplete'
  BY DEF PagingInv, CreateRow
<1>0. /\ walk \in Walk /\ UNCHANGED gone /\ Walking /\ rows \in Seq(Rows)
      /\ x \notin ToSet(rows) /\ rows' = <<x>> \o rows
  BY DEF PagingInv, CreateRow, Walking
<1> DEFINE torn == walk.torn \/ walk.at = "rows"
<1>1. torn \in BOOLEAN /\ (walk.at = "rows" => torn)
  OBVIOUS
<1>2. walk' = [walk EXCEPT !.torn = torn]
  BY DEF CreateRow
<1> HIDE DEF torn
<1>3. /\ walk' \in Walk /\ walk'.torn = torn /\ walk'.at = walk.at /\ walk'.narrow = walk.narrow
      /\ walk'.offset = walk.offset /\ walk'.seen = walk.seen /\ walk'.due = walk.due
  BY <1>0, <1>1, <1>2 DEF Walk
<1>4. /\ rows' \in Seq(Rows) /\ DOMAIN rows' = 1 .. Len(rows) + 1 /\ rows'[1] = x
      /\ DOMAIN rows = 1 .. Len(rows) /\ Len(rows) \in Nat
      /\ \A i \in DOMAIN rows : i + 1 \in DOMAIN rows' /\ rows'[i + 1] = rows[i]
  BY <1>0
<1>5. \A y \in walk.due : \E i \in DOMAIN rows' : rows'[i] = y /\ (walk.narrow => y \in Own)
  BY <1>0, <1>4 DEF Walking, Listed
<1>6. x \notin walk.due
  BY <1>0 DEF Walking, Listed, ToSet
<1>7. walk.at # "ended" /\ ~walk.narrow => Ahead'
  <2>1. ASSUME Ahead, NEW i \in DOMAIN rows', rows'[i] \in walk.due \ walk.seen PROVE walk.offset < i
    <3>1. i # 1 /\ i \in Nat /\ i - 1 \in DOMAIN rows /\ rows'[i] = rows[i - 1] /\ walk.offset \in Nat
      BY <1>0, <1>4, <1>6, <2>1 DEF Walk
    <3> QED
      BY <2>1, <3>1 DEF Ahead
  <2> QED
    BY <1>0, <1>3, <2>1 DEF Walking, Ahead
<1>8. Walking'
  BY <1>1, <1>3, <1>4, <1>5, <1>7 DEF Walking, Listed
<1> QED
  BY <1>3, <1>8 DEF WalkComplete

\* The count is that of the list, until a row is created.
LEMMA RowsCounted ==
    ASSUME PagingInv, CountRows
    PROVE  PagingInv'
<1> SUFFICES ASSUME gone = {} PROVE Walking' /\ WalkComplete'
  BY DEF PagingInv, CountRows
<1>0. walk \in Walk /\ UNCHANGED <<rows, gone>> /\ walk.at = "count" /\ Walking /\ rows \in Seq(Rows)
  BY DEF PagingInv, CountRows, Walking
<1> DEFINE total == Cardinality(Wanted)
<1>1. total \in Nat
  BY <1>0, PlacesFinite DEF Wanted, Listed
<1>2. walk' = [walk EXCEPT !.at = "rows", !.total = total, !.torn = FALSE]
  BY DEF CountRows
<1> HIDE DEF total
<1>3. /\ walk' \in Walk /\ walk'.at = "rows" /\ walk'.total = total /\ walk'.narrow = walk.narrow
      /\ walk'.offset = walk.offset /\ walk'.seen = walk.seen /\ walk'.due = walk.due
  BY <1>0, <1>1, <1>2 DEF Walk
<1>4. total = Cardinality(Wanted)'
  BY <1>0, <1>3 DEF total, Wanted, Listed
<1>5. Walking'
  BY <1>0, <1>3, <1>4 DEF Walking, Ahead, Listed
<1> QED
  BY <1>3, <1>5 DEF WalkComplete

\* A page of all rows has those up to its limit, a last page the others.
LEMMA WidePage ==
    ASSUME rows \in Seq(Rows), NEW offset \in Nat, NEW limit \in Nat \ {0},
           NEW got, got = {i \in DOMAIN rows :
                              Cardinality({j \in DOMAIN rows : j < i}) \in offset .. offset + limit - 1}
    PROVE  /\ \A i \in DOMAIN rows : offset < i => i \in got \/ offset + limit < i
           /\ offset + Cardinality(got) >= Len(rows) => \A i \in DOMAIN rows : offset < i => i \in got
<1>0. DOMAIN rows = 1 .. Len(rows) /\ Len(rows) \in Nat
  OBVIOUS
<1>1. \A i \in DOMAIN rows : i \in got <=> offset < i /\ i <= offset + limit
  <2>1. \A i \in DOMAIN rows : i \in got <=> i - 1 \in offset .. offset + limit - 1
    BY PlacesBefore
  <2> QED
    BY <1>0, <2>1
<1>2. ASSUME offset + Cardinality(got) >= Len(rows), NEW i \in DOMAIN rows, offset + limit < i
      PROVE  FALSE
  <2>1. got \subseteq offset + 1 .. offset + limit
    BY <1>0, <1>1
  <2>2. IsFiniteSet(offset + 1 .. offset + limit) /\ Cardinality(offset + 1 .. offset + limit) = limit
    <3>1. offset + 1 \in Int /\ offset + limit \in Int /\ ~(offset + 1 > offset + limit)
      OBVIOUS
    <3> QED
      BY <3>1, FS_Interval
  <2>3. Cardinality(got) <= limit /\ Cardinality(got) \in Nat
    BY <2>1, <2>2, FS_Subset, FS_CardinalityType
  <2> QED
    BY <1>0, <1>2, <2>3
<1> QED
  BY <1>0, <1>1, <1>2

\* What was seen ends where the next page begins, or later.
LEMMA RowsSelected ==
    ASSUME PagingInv, SelectRows
    PROVE  PagingInv'
<1> SUFFICES ASSUME gone = {} PROVE Walking' /\ WalkComplete'
  BY DEF PagingInv, SelectRows
<1>0. walk \in Walk /\ UNCHANGED <<rows, gone>> /\ walk.at = "rows" /\ Walking /\ rows \in Seq(Rows)
  BY DEF PagingInv, SelectRows, Walking
<1>1. PICK offset \in Nat, limit \in Nat \ {0}, wanted \in SUBSET DOMAIN rows :
        offset = walk.offset /\ limit = walk.limit /\ wanted = Wanted
  <2>1. walk.offset \in Nat /\ walk.limit \in Nat \ {0}
    BY <1>0, PagingAssumption DEF Walk
  <2>2. Wanted \in SUBSET DOMAIN rows
    BY DEF Wanted, Listed
  <2> QED
    BY <2>1, <2>2
<1> DEFINE got == {i \in wanted : Cardinality({j \in wanted : j < i}) \in offset .. offset + limit - 1}
           more == HasMore(offset, Cardinality(got), walk.total)
           read == walk.seen \cup {rows[i] : i \in got}
           at == IF more THEN "count" ELSE "ended"
           next == IF more THEN CurrentPage(offset, limit) * limit ELSE offset
<1>2. walk' = [walk EXCEPT !.seen = read, !.at = at, !.offset = next]
  BY <1>1 DEF SelectRows
<1>3. /\ \A i \in wanted : i \in DOMAIN rows /\ rows[i] \in Rows
      /\ got \subseteq wanted /\ walk.seen \subseteq read /\ \A i \in got : rows[i] \in read
      /\ IsFiniteSet(wanted) /\ Cardinality(got) \in Nat
  <2>1. got \in SUBSET DOMAIN rows
    OBVIOUS
  <2> HIDE DEF got
  <2>2. IsFiniteSet(wanted) /\ Cardinality(got) \in Nat
    BY <1>0, <2>1, PlacesFinite
  <2> QED
    BY <1>0, <2>2 DEF got
<1>4. /\ more <=> offset + Cardinality(got) < walk.total
      /\ read \in SUBSET Rows /\ at \in {"count", "ended"} /\ (at = "ended" <=> ~more) /\ next \in Nat
      /\ more => next <= offset + limit
      /\ ~more => next = offset
  <2>1. /\ CurrentPage(offset, limit) * limit \in Nat
        /\ CurrentPage(offset, limit) * limit <= offset + limit
    BY NextOffset
  <2>2. read \in SUBSET Rows
    BY <1>0, <1>3 DEF Walk
  <2>3. more <=> offset + Cardinality(got) < walk.total
    BY DEF HasMore
  <2> HIDE DEF got, read, more
  <2> QED
    BY <2>1, <2>2, <2>3
<1>5. ~walk.narrow \/ offset # 0 =>
          /\ wanted = DOMAIN rows /\ Cardinality(wanted) = Len(rows)
          /\ \A i \in DOMAIN rows : offset < i => i \in got \/ offset + limit < i
          /\ offset + Cardinality(got) >= Len(rows) => \A i \in DOMAIN rows : offset < i => i \in got
  <2> SUFFICES ASSUME ~walk.narrow \/ offset # 0
               PROVE  /\ wanted = DOMAIN rows /\ Cardinality(wanted) = Len(rows)
                      /\ \A i \in DOMAIN rows : offset < i => i \in got \/ offset + limit < i
                      /\ offset + Cardinality(got) >= Len(rows) => \A i \in DOMAIN rows : offset < i => i \in got
    OBVIOUS
  <2>1. wanted = DOMAIN rows
    BY <1>1 DEF Wanted, Listed
  <2>2. Cardinality(1 .. Len(rows)) = Len(rows) /\ DOMAIN rows = 1 .. Len(rows)
    BY <1>0, FS_Interval
  <2>3. got = {i \in DOMAIN rows : Cardinality({j \in DOMAIN rows : j < i}) \in offset .. offset + limit - 1}
    BY <2>1
  <2> HIDE DEF got
  <2>4. /\ \A i \in DOMAIN rows : offset < i => i \in got \/ offset + limit < i
        /\ offset + Cardinality(got) >= Len(rows) => \A i \in DOMAIN rows : offset < i => i \in got
    BY <1>0, <2>3, WidePage
  <2> QED
    BY <2>1, <2>2, <2>4
<1> HIDE DEF got, more, read, at, next
<1>6. /\ walk' \in Walk /\ walk'.seen = read /\ walk'.at = at /\ walk'.offset = next
      /\ walk'.due = walk.due /\ walk'.narrow = walk.narrow /\ walk'.torn = walk.torn
  BY <1>0, <1>2, <1>4 DEF Walk
<1>7. ASSUME more, ~walk.narrow PROVE Ahead'
  <2>1. ASSUME NEW i \in DOMAIN rows, rows[i] \in walk.due \ read PROVE next < i
    <3>1. offset < i
      BY <1>0, <1>1, <1>3, <1>7, <2>1 DEF Walking, Ahead
    <3>2. offset + limit < i
      BY <1>3, <1>5, <1>7, <2>1, <3>1
    <3> QED
      BY <1>0, <1>4, <1>7, <3>2
  <2> QED
    BY <1>0, <1>6, <2>1 DEF Ahead
<1>8. Walking'
  BY <1>0, <1>4, <1>6, <1>7 DEF Walking, Listed
<1>9. ASSUME ~more, ~walk.torn, walk.narrow => offset = 0, NEW y \in walk.due PROVE y \in read
  <2>1. PICK i \in DOMAIN rows : rows[i] = y /\ i \in Listed(walk.narrow)
    BY <1>0 DEF Walking, Listed
  <2>2. walk.total = Cardinality(wanted) /\ Cardinality(wanted) \in Nat
    BY <1>0, <1>1, <1>3, <1>9, FS_CardinalityType DEF Walking
  <2>3. offset + Cardinality(got) >= Cardinality(wanted)
    BY <1>3, <1>4, <1>9, <2>2
  <2>4. CASE walk.narrow
    <3>1. i \in wanted
      BY <1>1, <1>9, <2>1, <2>4 DEF Wanted
    <3>2. Cardinality(got) <= Cardinality(wanted) /\ (Cardinality(wanted) = Cardinality(got) => wanted = got)
      BY <1>3, FS_Subset
    <3> QED
      BY <1>3, <1>9, <2>1, <2>2, <2>3, <2>4, <3>1, <3>2
  <2>5. CASE ~walk.narrow
    <3>1. y \in walk.seen \/ offset < i
      BY <1>0, <1>1, <2>1, <2>5 DEF Walking, Ahead
    <3> QED
      BY <1>3, <1>5, <2>1, <2>3, <2>5, <3>1
  <2> QED
    BY <2>4, <2>5
<1> QED
  BY <1>4, <1>6, <1>8, <1>9 DEF WalkComplete

\* A row that goes leaves the others, in their order.
LEMMA RowRemoved ==
    ASSUME NEW s \in Seq(Rows), NEW i \in DOMAIN s, NEW x, s[i] = x,
           \A j, k \in DOMAIN s : s[j] = s[k] => j = k
    PROVE  /\ RemoveAt(s, i) \in Seq(Rows)
           /\ \A j, k \in DOMAIN RemoveAt(s, i) : RemoveAt(s, i)[j] = RemoveAt(s, i)[k] => j = k
           /\ ToSet(RemoveAt(s, i)) \subseteq ToSet(s) \ {x}
<1> DEFINE before == SubSeq(s, 1, i - 1)
           after == SubSeq(s, i + 1, Len(s))
           left == before \o after
           From(j) == IF j < i THEN j ELSE j + 1
<1>1. DOMAIN s = 1 .. Len(s) /\ Len(s) \in Nat /\ i \in 1 .. Len(s)
  OBVIOUS
<1>2. before \in Seq(Rows) /\ Len(before) = i - 1 /\ \A j \in 1 .. i - 1 : before[j] = s[j]
  BY <1>1
<1>3. after \in Seq(Rows) /\ Len(after) = Len(s) - i /\ \A j \in 1 .. Len(s) - i : after[j] = s[i + j]
  BY <1>1
<1> HIDE DEF before, after
<1>4. left \in Seq(Rows) /\ DOMAIN left = 1 .. Len(s) - 1
  <2>1. left \in Seq(Rows) /\ Len(left) = Len(before) + Len(after)
    BY <1>2, <1>3, ConcatProperties
  <2>2. Len(left) = Len(s) - 1
    BY <1>1, <1>2, <1>3, <2>1
  <2> QED
    BY <2>1, <2>2
<1>5. ASSUME NEW j \in 1 .. Len(s) - 1
      PROVE  From(j) \in DOMAIN s /\ From(j) # i /\ left[j] = s[From(j)]
  <2>1. left[j] = IF j <= Len(before) THEN before[j] ELSE after[j - Len(before)]
    BY <1>1, <1>2, <1>3, ConcatProperties
  <2>2. left[j] = IF j < i THEN s[j] ELSE s[j + 1]
    <3>1. CASE j < i
      BY <1>1, <1>2, <2>1, <3>1
    <3>2. CASE ~(j < i)
      <4>1. j - (i - 1) \in 1 .. Len(s) - i /\ i + (j - (i - 1)) = j + 1
        BY <1>1, <3>2
      <4> QED
        BY <1>1, <1>2, <1>3, <2>1, <3>2, <4>1
    <3> QED
      BY <3>1, <3>2
  <2> QED
    BY <1>1, <2>2
<1>6. \A j, k \in 1 .. Len(s) - 1 : From(j) = From(k) => j = k
  BY <1>1
<1>7. RemoveAt(s, i) = left
  BY DEF RemoveAt, before, after
<1> HIDE DEF left, From
<1>8. ToSet(left) \subseteq ToSet(s) \ {x}
  BY <1>4, <1>5 DEF ToSet
<1> QED
  BY <1>4, <1>5, <1>6, <1>7, <1>8

\* Every step keeps the types of the list and of the walk.
LEMMA PagingTypeStep ==
    ASSUME PagingTypeOK, [PagingNext]_pagingVars
    PROVE  PagingTypeOK'
<1>0. /\ walk \in Walk /\ rows \in Seq(Rows) /\ gone \subseteq Rows /\ gone \cap ToSet(rows) = {}
      /\ \A i, j \in DOMAIN rows : rows[i] = rows[j] => i = j
  BY DEF PagingTypeOK, Walk
<1>1. CASE UNCHANGED pagingVars
  BY <1>1 DEF PagingTypeOK, pagingVars
<1>2. ASSUME NEW x \in Rows, CreateRow(x) PROVE PagingTypeOK'
  <2>1. rows' = <<x>> \o rows /\ UNCHANGED gone /\ x \notin ToSet(rows) \cup gone
    BY <1>2 DEF CreateRow
  <2>2. /\ rows' \in Seq(Rows) /\ DOMAIN rows' = 1 .. Len(rows) + 1 /\ rows'[1] = x
        /\ DOMAIN rows = 1 .. Len(rows) /\ Len(rows) \in Nat
        /\ \A i \in DOMAIN rows' : i # 1 => i - 1 \in DOMAIN rows /\ rows'[i] = rows[i - 1]
    BY <1>0, <2>1
  <2>3. \A i \in DOMAIN rows : rows[i] # x
    BY <2>1 DEF ToSet
  <2>4. \A i, j \in DOMAIN rows' : rows'[i] = rows'[j] => i = j
    BY <1>0, <2>2, <2>3
  <2>5. gone' \cap ToSet(rows') = {}
    BY <1>0, <2>1, <2>2 DEF ToSet
  <2>6. walk' \in Walk
    BY <1>0, <1>2 DEF CreateRow, Walk
  <2> QED
    BY <1>0, <2>1, <2>2, <2>4, <2>5, <2>6 DEF PagingTypeOK, Walk
<1>3. ASSUME NEW x \in Rows, RemoveRow(x) PROVE PagingTypeOK'
  <2>1. PICK i \in DOMAIN rows : rows[i] = x /\ rows' = RemoveAt(rows, i)
    BY <1>3 DEF RemoveRow
  <2>2. /\ rows' \in Seq(Rows) /\ \A j, k \in DOMAIN rows' : rows'[j] = rows'[k] => j = k
        /\ ToSet(rows') \subseteq ToSet(rows) \ {x}
    BY <1>0, <2>1, RowRemoved
  <2>3. gone' = gone \cup {x} /\ UNCHANGED walk
    BY <1>3 DEF RemoveRow
  <2> QED
    BY <1>0, <2>2, <2>3 DEF PagingTypeOK, Walk
<1>4. CASE CountRows
  <2> DEFINE total == Cardinality(Wanted)
  <2>1. total \in Nat
    BY <1>0, PlacesFinite DEF Wanted, Listed
  <2>2. walk' = [walk EXCEPT !.at = "rows", !.total = total, !.torn = FALSE] /\ UNCHANGED <<rows, gone>>
    BY <1>4 DEF CountRows
  <2> HIDE DEF total
  <2>3. walk' \in Walk
    BY <1>0, <2>1, <2>2 DEF Walk
  <2> QED
    BY <1>0, <2>2, <2>3 DEF PagingTypeOK, Walk
<1>5. CASE SelectRows
  <2> DEFINE got == {i \in Wanted : Cardinality({j \in Wanted : j < i})
                                       \in walk.offset .. walk.offset + walk.limit - 1}
             more == HasMore(walk.offset, Cardinality(got), walk.total)
             read == walk.seen \cup {rows[i] : i \in got}
             at == IF more THEN "count" ELSE "ended"
             offset == IF more THEN CurrentPage(walk.offset, walk.limit) * walk.limit ELSE walk.offset
  <2>1. got \subseteq Wanted
    OBVIOUS
  <2>2. walk' = [walk EXCEPT !.seen = read, !.at = at, !.offset = offset]
    BY <1>5 DEF SelectRows
  <2> HIDE DEF got, more
  <2>3. read \in SUBSET Rows
    BY <1>0, <2>1 DEF Wanted, Listed, Walk
  <2>4. offset \in Nat
    <3>1. walk.offset \in Nat /\ walk.limit \in Nat \ {0}
      BY <1>0, PagingAssumption DEF Walk
    <3> QED
      BY <3>1, NextOffset
  <2>5. at \in {"count", "ended"}
    OBVIOUS
  <2> HIDE DEF read, at, offset
  <2>6. walk' \in Walk
    BY <1>0, <2>2, <2>3, <2>4, <2>5 DEF Walk
  <2> QED
    BY <1>0, <1>5, <2>6 DEF PagingTypeOK, Walk, SelectRows
<1> QED
  BY <1>1, <1>2, <1>3, <1>4, <1>5 DEF PagingNext

\* Type correctness of the list and of the walk through it: no row is listed twice, and
\* none that has gone.
THEOREM PagingTypeCorrect == PagingSpec => []PagingTypeOK
<1>1. PagingInit => PagingTypeOK
  <2> SUFFICES ASSUME PagingInit PROVE PagingTypeOK
    OBVIOUS
  <2>1. PICK first \in SUBSET Rows : IsFiniteSet(first) /\ rows \in SetToSeqs(first)
    BY DEF PagingInit
  <2>2. rows \in Seq(Rows) /\ \A i, j \in DOMAIN rows : rows[i] = rows[j] => i = j
    <3>1. /\ rows \in [1 .. Cardinality(first) -> first] /\ Cardinality(first) \in Nat
          /\ \A i, j \in DOMAIN rows : rows[i] = rows[j] => i = j
      BY <2>1, FS_CardinalityType DEF SetToSeqs, IsInjective
    <3> QED
      BY <3>1
  <2>3. PICK asked \in AskedLimits, n \in BOOLEAN :
          walk = [at |-> "count", narrow |-> n, limit |-> ValidateLimit(asked), offset |-> 0,
                  total |-> 0, seen |-> {}, due |-> {rows[i] : i \in Listed(n)}, torn |-> FALSE]
    BY DEF PagingInit
  <2>4. ValidateLimit(asked) \in 1 .. MaxPageLimit
    BY PagingAssumption DEF ValidateLimit
  <2>5. {rows[i] : i \in Listed(n)} \in SUBSET Rows
    BY <2>2 DEF Listed
  <2> QED
    BY <2>2, <2>3, <2>4, <2>5 DEF PagingInit, PagingTypeOK
<1> QED
  BY <1>1, PagingTypeStep, PTL DEF PagingSpec

\* Who follows the Next links has seen what was due, in every reachable state.
THEOREM PagingInvHolds == PagingSpec => []PagingInv
<1>1. PagingInit => PagingInv
  <2> SUFFICES ASSUME PagingInit PROVE Walking /\ WalkComplete
    BY DEF PagingInv
  <2>1. PICK first \in SUBSET Rows : IsFiniteSet(first) /\ rows \in SetToSeqs(first)
    BY DEF PagingInit
  <2>2. rows \in Seq(Rows) /\ DOMAIN rows = 1 .. Len(rows)
    <3>1. rows \in [1 .. Cardinality(first) -> first] /\ Cardinality(first) \in Nat
      BY <2>1, FS_CardinalityType DEF SetToSeqs
    <3> QED
      BY <3>1
  <2>3. PICK asked \in AskedLimits, n \in BOOLEAN :
          walk = [at |-> "count", narrow |-> n, limit |-> ValidateLimit(asked), offset |-> 0,
                  total |-> 0, seen |-> {}, due |-> {rows[i] : i \in Listed(n)}, torn |-> FALSE]
    BY DEF PagingInit
  <2> DEFINE due == {rows[i] : i \in Listed(n)}
  <2>4. ValidateLimit(asked) \in 1 .. MaxPageLimit
    BY PagingAssumption DEF ValidateLimit
  <2>5. due \in SUBSET Rows
    BY <2>2 DEF Listed
  <2>6. /\ walk \in Walk /\ walk.at = "count" /\ walk.offset = 0 /\ walk.narrow = n /\ walk.due = due
    BY <2>3, <2>4, <2>5 DEF Walk
  <2>7. Walking
    BY <2>2, <2>3, <2>6 DEF Walking, Ahead
  <2> QED
    BY <2>6, <2>7 DEF WalkComplete
<1>2. PagingInv /\ [PagingNext]_pagingVars => PagingInv'
  <2> SUFFICES ASSUME PagingInv, [PagingNext]_pagingVars PROVE PagingInv'
    OBVIOUS
  <2>1. ASSUME NEW x \in Rows, RemoveRow(x) PROVE PagingInv'
    BY <2>1 DEF RemoveRow, PagingInv
  <2>2. CASE UNCHANGED pagingVars
    BY <2>2 DEF pagingVars, PagingInv, Walking, Ahead, Listed, Wanted, WalkComplete
  <2> QED
    BY <2>1, <2>2, RowCreated, RowsCounted, RowsSelected DEF PagingNext
<1> QED
  BY <1>1, <1>2, PTL DEF PagingSpec

\* Who follows them to the end has seen every row that was there at the beginning
\* (runs.go:54), for any number of rows, any limit, and any number of rows that are
\* created meanwhile.
THEOREM WalkIsComplete == PagingSpec => []WalkComplete
<1>1. PagingInv => WalkComplete
  BY DEF PagingInv, WalkComplete
<1> QED
  BY <1>1, PagingInvHolds, PTL
=============================================================================
