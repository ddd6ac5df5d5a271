------------------------------ MODULE AdminPages ------------------------------
(***************************************************************************)
(* The pages of the web UI that say which instances there are, and which   *)
(* of them can work for an agent.  A page lists the instances and then     *)
(* asks for the tools of each, in statements of their own, while instances *)
(* start, stop, die and are cleaned up.  One agent is shown, which needs   *)
(* the tool of the cluster, or none.                                       *)
(***************************************************************************)
EXTENDS Membership

VARIABLES
    sheet,    \* one page, as far as it is read
    gaps,     \* a statement of its reading failed
    ever,     \* instances that could work for the agent at some moment of the reading
    through   \* those that could at every moment of it

adminVars == <<sheet, gaps, ever, through>>

SheetStages == {"closed", "probe", "ask", "list", "collect", "tools", "fleet", "where",
                "instances", "rows", "leader", "name", "shown", "refused"}

Sheet ==
    [kind : {"agents", "instances"}, at : SheetStages, needs : BOOLEAN,
     active : BOOLEAN,            \* AgentWithStats.IsActive
     able : SUBSET Members,       \* its CapableInstances; the instances that name the agent
     known : BOOLEAN,             \* the tool is listed
     where : SUBSET Members,      \* its RegisteredOn
     leader : Members \cup {Nobody}, named : BOOLEAN,
     next : SUBSET Members]       \* instances whose tools are still to be read

AdminTypeOK ==
    /\ sheet \in Sheet /\ gaps \in BOOLEAN
    /\ ever \subseteq Members /\ through \subseteq Members

AdminInit ==
    /\ \E kind \in {"agents", "instances"}, needs \in BOOLEAN :
          sheet = [kind |-> kind, at |-> "closed", needs |-> needs, active |-> FALSE, able |-> {},
                   known |-> FALSE, where |-> {}, leader |-> Nobody, named |-> FALSE, next |-> {}]
    /\ gaps = FALSE /\ ever = {} /\ through = {}

-----------------------------------------------------------------------------
ListInstances == Registered

HasTool(i) == i \in capable

\* An agent without tools can run anywhere.
Fit == IF sheet.needs THEN capable ELSE Registered

\* The next statement is at stage `at', after S has been read through.
After(S, busy, at) == IF S = {} THEN at ELSE busy

Fills(rec) == sheet' = rec /\ UNCHANGED <<memberVars, gaps>>

-----------------------------------------------------------------------------
(* The page of agents and tools.                                           *)

\* An agent without tools is active even if there are no instances.
OpenAgents ==
    /\ sheet.at = "closed" /\ sheet.kind = "agents"
    /\ Fills([sheet EXCEPT !.at = IF sheet.needs THEN "probe" ELSE "list", !.active = ~sheet.needs])

\* canAnyInstanceHandleAgent stops at the first instance that has the tools.
ProbeInstances ==
    /\ sheet.at = "probe"
    /\ Fills([sheet EXCEPT !.at = After(ListInstances, "ask", "tools"), !.next = ListInstances])

AskInstance ==
    /\ sheet.at = "ask"
    /\ \E i \in sheet.next :
          Fills(IF HasTool(i)
                THEN [sheet EXCEPT !.at = "list", !.active = TRUE, !.next = {}]
                ELSE [sheet EXCEPT !.at = After(sheet.next \ {i}, "ask", "tools"), !.next = @ \ {i}])

\* getInstancesWithTools lists the instances again.
ListCapable ==
    /\ sheet.at = "list"
    /\ Fills(IF sheet.needs
             THEN [sheet EXCEPT !.at = After(ListInstances, "collect", "tools"), !.next = ListInstances]
             ELSE [sheet EXCEPT !.at = "tools", !.able = ListInstances])

\* Mutant of CollectInstance: one set of tools for all instances, not one for each.
CollectInOneSet ==
    /\ sheet.at = "collect"
    /\ \E i \in sheet.next :
          Fills([sheet EXCEPT !.at = After(sheet.next \ {i}, "collect", "tools"), !.next = @ \ {i},
                              !.able = IF HasTool(i) \/ @ # {} THEN @ \cup {i} ELSE @])

CollectInstance ==
    /\ sheet.at = "collect"
    /\ \E i \in sheet.next :
          Fills([sheet EXCEPT !.at = After(sheet.next \ {i}, "collect", "tools"), !.next = @ \ {i},
                              !.able = IF HasTool(i) THEN @ \cup {i} ELSE @])

\* Then the tools, and once more the instances and what each has.
ListTools ==
    /\ sheet.at = "tools"
    /\ Fills([sheet EXCEPT !.at = "fleet", !.known = toolKnown])

ListFleet ==
    /\ sheet.at = "fleet"
    /\ Fills([sheet EXCEPT !.at = After(ListInstances, "where", "shown"), !.next = ListInstances])

ReadWhere ==
    /\ sheet.at = "where"
    /\ \E i \in sheet.next :
          Fills([sheet EXCEPT !.at = After(sheet.next \ {i}, "where", "shown"), !.next = @ \ {i},
                              !.where = IF HasTool(i) /\ sheet.known THEN @ \cup {i} ELSE @])

-----------------------------------------------------------------------------
(* The page of instances.                                                  *)

OpenInstances ==
    /\ sheet.at = "closed" /\ sheet.kind = "instances"
    /\ Fills([sheet EXCEPT !.at = After(ListInstances, "rows", "leader"), !.next = ListInstances])

\* computeHandleableAgents from the tools of the one instance.
ReadRow ==
    /\ sheet.at = "rows"
    /\ \E i \in sheet.next :
          Fills([sheet EXCEPT !.at = After(sheet.next \ {i}, "rows", "leader"), !.next = @ \ {i},
                              !.able = IF HasTool(i) \/ ~sheet.needs THEN @ \cup {i} ELSE @])

\* GetLeader: who holds a lease that has not expired.
GetLeader ==
    /\ sheet.at = "leader"
    /\ LET holder == IF lease.left > 0 THEN lease.holder ELSE Nobody IN
       Fills([sheet EXCEPT !.at = IF holder = Nobody THEN "shown" ELSE "name", !.leader = holder])

\* The lease may outlive the row of its holder: then the leader has no name.
NameLeader ==
    /\ sheet.at = "name"
    /\ Fills([sheet EXCEPT !.at = "shown", !.named = sheet.leader \in ListInstances])

-----------------------------------------------------------------------------
\* Only the agents, the tools and the first list of instances are missed by the
\* reader; any other statement that fails counts as one that found nothing.  Where
\* it was the agents that could not be listed, no instance names any.
SheetFails ==
    /\ gaps' = TRUE /\ UNCHANGED memberVars
    /\ \/ sheet.at \in {"closed", "tools"} /\ sheet' = [sheet EXCEPT !.at = "refused"]
       \/ sheet.at = "rows" /\ sheet.able = {} /\ sheet' = [sheet EXCEPT !.at = "leader", !.next = {}]
       \/ sheet.at \in {"probe", "list"} /\ sheet' = [sheet EXCEPT !.at = "tools"]
       \/ sheet.at \in {"fleet", "leader", "name"} /\ sheet' = [sheet EXCEPT !.at = "shown"]
       \/ /\ sheet.at \in {"ask", "collect", "where", "rows"}
          /\ \E i \in sheet.next :
                sheet' = [sheet EXCEPT
                    !.next = @ \ {i},
                    !.at = After(sheet.next \ {i}, @, CASE @ \in {"ask", "collect"} -> "tools"
                                                        [] @ = "where" -> "shown"
                                                        [] @ = "rows" -> "leader"),
                    !.able = IF sheet.at = "rows" /\ ~sheet.needs THEN @ \cup {i} ELSE @]

SheetStep ==
    \/ OpenAgents \/ ProbeInstances \/ AskInstance \/ ListCapable \/ CollectInstance
    \/ ListTools \/ ListFleet \/ ReadWhere
    \/ OpenInstances \/ ReadRow \/ GetLeader \/ NameLeader
    \/ SheetFails

\* Not part of the system: what was so at some moment, or at every one, since the
\* page was asked for.
Watch ==
    CASE sheet.at \in {"shown", "refused"} \/ sheet'.at = "closed" -> UNCHANGED <<ever, through>>
      [] sheet.at = "closed" /\ sheet'.at # "closed" -> ever' = Fit' /\ through' = Fit'
      [] OTHER -> ever' = ever \cup Fit' /\ through' = through \cap Fit'

AdminNext == (SheetStep \/ (MemberNext /\ UNCHANGED <<sheet, gaps>>)) /\ Watch

AdminSpec == MemberInit /\ AdminInit /\ [][AdminNext]_<<memberVars, adminVars>>

-----------------------------------------------------------------------------
(* Properties.                                                             *)

\* The pages list as capable every instance that was so as long as they were read,
\* and none that never was (agents.go:117, 153; instances.go:66), though instances
\* and tools are read one by one; an agent that needs tools is shown active only if
\* some instance had them, and inactive only if none had them throughout.  This is
\* so of pages all of whose statements succeeded, which the reader cannot tell.
FleetShown ==
    sheet.at = "shown" /\ ~gaps =>
        /\ sheet.able \subseteq ever
        /\ sheet.kind = "instances" \/ sheet.active => through \subseteq sheet.able
        /\ sheet.kind = "agents" /\ sheet.needs =>
              /\ IF sheet.active THEN ever # {} ELSE through = {}
              /\ through \subseteq sheet.where /\ sheet.where \subseteq ever
=============================================================================
