-------------------------- MODULE Compaction_proofs --------------------------
(***************************************************************************)
(* Proofs about Compaction, for any number of runs, of overlapping         *)
(* compactions and of faults: no message is lost, only old ones go, each   *)
(* of them for a reason, and the requests the runs send are in order.      *)
(***************************************************************************)
EXTENDS Compaction, TLAPS, FiniteSetTheorems

-----------------------------------------------------------------------------
(* The inductive invariant.                                                *)

Newer(S, d) == {n \in S : n.id > d}

Working(c) == comp[c].pc \in {"event", "work"}

\* What is to be deleted is archived, is yet to be, or failed to be.
DoomedSafe ==
    \A c \in Compactors : Working(c) =>
        comp[c].doomed \subseteq Ids(comp[c].todo) \cup Ids(archive) \cup unarchived

\* It stays old: no deletion takes the messages that make it so, because what is
\* deleted is older than as many.
DoomedOld ==
    \A c \in Compactors : Working(c) =>
        \A d \in comp[c].doomed :
            /\ d \in 1 .. count
            /\ Cardinality(Newer(log, d)) >= PreserveLastN
            /\ \A m \in log : m.id = d => ~m.summary

\* Every message is in the session, was archived, or its insert there failed.
Somewhere == \A id \in 1 .. count : id \in Ids(log) \cup Ids(archive) \cup unarchived

\* What is archived, or was read to be, has its content, or a compaction read it
\* without; one that has no plan has read nothing.
CopiesAsRead ==
    /\ \A c \in Compactors : comp[c].pc \in {"before", "read"} => comp[c].blank = {} /\ comp[c].pruned = {}
    /\ \A c \in Compactors : \A m \in comp[c].todo : m.filled \/ m.id \in comp[c].blank
    /\ \A m \in archive : m.filled \/ \E c \in Compactors : m.id \in comp[c].blank

CompInv ==
    CompTypeOK /\ IsFiniteSet(log) /\ DoomedSafe /\ DoomedOld /\ Somewhere /\ CopiesAsRead

-----------------------------------------------------------------------------
(* What a step does to the messages.                                       *)

\* The content is there, or is_preserved is set; the blocks do not change.
Rewrite(m, new) ==
    /\ m \in log /\ new \in Message
    /\ new.id = m.id /\ new.summary = m.summary
    /\ new.body = m.body /\ new.run = m.run /\ new.role = m.role
    /\ m.filled => new.filled
    /\ log' = (log \ {m}) \cup {new}

\* A result is inserted with the message that holds it.
Whole(m) == m.filled \/ \A b \in m.body : b.kind # "result"

\* Nothing, one message more, or one rewritten.
LogShape ==
    \/ UNCHANGED <<log, count>>
    \/ \E m \in Message : Insert(m) /\ Whole(m)
    \/ UNCHANGED count /\ \E m \in log, new \in Message : Rewrite(m, new)

\* The messages of runs are messages.
LEMMA FreshTypes ==
    ASSUME NEW r \in SessionRuns \cup {NoRun}, NEW role \in {"user", "assistant"}, NEW body \in SUBSET Blocks
    PROVE  /\ Fresh(r, role, body) \in Message
           /\ [Fresh(r, role, body) EXCEPT !.filled = TRUE] \in Message
           /\ [Fresh(r, role, body) EXCEPT !.summary = TRUE] \in Message
           /\ Whole([Fresh(r, role, body) EXCEPT !.filled = TRUE])
           /\ (\A b \in body : b.kind # "result") =>
                 Whole(Fresh(r, role, body)) /\ Whole([Fresh(r, role, body) EXCEPT !.summary = TRUE])
  BY DEF Fresh, Message, Whole

\* A text is a body without results.
LEMMA TextBody == {Text} \in SUBSET Blocks /\ \A b \in {Text} : b.kind # "result"
<1>1. {Text} \in SUBSET Blocks
  BY DEF Blocks
<1>2. Text.kind # "result"
  BY DEF Text
<1> QED
  BY <1>1, <1>2

\* Content that is added leaves the ID, the blocks and is_summary.
LEMMA FillRewrites ==
    ASSUME LogTypeOK, NEW m \in log, Fill(m)
    PROVE  \E new \in Message : Rewrite(m, new) /\ new.filled
<1> DEFINE new == [m EXCEPT !.filled = TRUE]
<1>1. m \in Message
  BY DEF LogTypeOK
<1>2. /\ new \in Message /\ new.id = m.id /\ new.summary = m.summary
      /\ new.body = m.body /\ new.run = m.run /\ new.role = m.role /\ new.filled
  BY <1>1 DEF Message
<1> QED
  BY <1>2 DEF Rewrite, Fill

\* A run's step only adds a message or its content.
LEMMA RunWritesShape ==
    ASSUME LogTypeOK, NEW r \in SessionRuns, RunWrites(r)
    PROVE  LogShape
<1>1. CASE Submit(r) \/ Take(r) \/ SettleTurn(r) \/ FailSessionRun(r) \/ LinkChild(r)
  BY <1>1 DEF Submit, Take, SettleTurn, FailSessionRun, LinkChild, LogShape
<1>2. CASE InsertPrompt(r)
  <2>1. Fresh(r, "user", {Text}) \in Message /\ Whole(Fresh(r, "user", {Text}))
    BY TextBody, FreshTypes
  <2> QED
    BY <1>2, <2>1 DEF InsertPrompt, LogShape
<1>3. CASE InsertAnswer(r)
  <2>1. PICK U \in SUBSET Uses :
          Insert(Fresh(r, "assistant", IF U = {} THEN {Text} ELSE {UseOf(u) : u \in U}))
    BY <1>3 DEF InsertAnswer
  <2> DEFINE body == IF U = {} THEN {Text} ELSE {UseOf(u) : u \in U}
  <2>2. body \in SUBSET Blocks /\ \A b \in body : b.kind # "result"
    BY DEF Blocks, Text, UseOf
  <2> HIDE DEF body
  <2>3. Fresh(r, "assistant", body) \in Message /\ Whole(Fresh(r, "assistant", body))
    BY <2>2, FreshTypes
  <2> QED
    BY <2>1, <2>3 DEF LogShape, body
<1>4. CASE FillOwn(r)
  <2>1. PICK m \in log : Fill(m)
    BY <1>4 DEF FillOwn
  <2>2. UNCHANGED count
    BY <1>4 DEF FillOwn
  <2> QED
    BY <2>1, <2>2, FillRewrites DEF LogShape
<1>5. CASE ContinueTurn(r)
  <2> DEFINE asked == {u \in Uses : calls[u].of = r /\ calls[u].turn = runs[r].turn}
             body == {ResultOf(u) : u \in asked}
  <2>1. body \in SUBSET Blocks
    BY DEF Blocks
  <2>2. /\ [Fresh(r, "user", body) EXCEPT !.filled = TRUE] \in Message
        /\ Whole([Fresh(r, "user", body) EXCEPT !.filled = TRUE])
    BY <2>1, FreshTypes
  <2>3. Insert([Fresh(r, "user", body) EXCEPT !.filled = TRUE])
    BY <1>5 DEF ContinueTurn
  <2> QED
    BY <2>2, <2>3 DEF LogShape
<1> QED
  BY <1>1, <1>2, <1>3, <1>4, <1>5 DEF RunWrites

\* So does every step of the runs and their calls.
LEMMA LogNextShape == LogTypeOK /\ LogNext => LogShape
<1> SUFFICES ASSUME LogTypeOK, LogNext PROVE LogShape
  OBVIOUS
<1>1. ASSUME NEW r \in SessionRuns, RunWrites(r) PROVE LogShape
  BY <1>1, RunWritesShape
<1>2. ASSUME NEW u \in Uses, RunTool(u) \/ \E k \in Kids : Delegate(u, k) PROVE LogShape
  BY <1>2 DEF RunTool, Delegate, LogShape
<1> QED
  BY <1>1, <1>2 DEF LogNext

\* Every other step is of that shape as well, but a deletion.
LEMMA CompNextShape ==
    ASSUME CompTypeOK, [CompNext]_<<logVars, compVars>>
    PROVE  LogShape \/ \E c \in Compactors : DeleteMessage(c)
<1> USE DEF LogShape
<1>1. CASE UNCHANGED <<logVars, compVars>>
  BY <1>1 DEF logVars
<1>2. CASE LogNext
  BY <1>2, LogNextShape DEF CompTypeOK
<1>3. CASE MarkPreserved
  <2>1. PICK m \in log : log' = (log \ {m}) \cup {[m EXCEPT !.kept = TRUE]}
    BY <1>3 DEF MarkPreserved
  <2> DEFINE new == [m EXCEPT !.kept = TRUE]
  <2>2. m \in Message
    BY DEF CompTypeOK, LogTypeOK
  <2>3. /\ new \in Message /\ new.id = m.id /\ new.summary = m.summary
        /\ new.body = m.body /\ new.run = m.run /\ new.role = m.role /\ new.filled = m.filled
    BY <2>2 DEF Message
  <2>4. Rewrite(m, new)
    BY <2>1, <2>3 DEF Rewrite
  <2> QED
    BY <1>3, <2>3, <2>4 DEF MarkPreserved
<1>4. ASSUME NEW c \in Compactors, CompactStep(c) PROVE LogShape \/ DeleteMessage(c)
  <2>1. CASE CreateSummary(c)
    <3>1. /\ [Fresh(NoRun, "assistant", {Text}) EXCEPT !.summary = TRUE] \in Message
          /\ Whole([Fresh(NoRun, "assistant", {Text}) EXCEPT !.summary = TRUE])
      BY TextBody, FreshTypes
    <3> QED
      BY <2>1, <3>1 DEF CreateSummary
  <2>2. CASE FillSummary(c)
    BY <2>2, FillRewrites DEF FillSummary, CompTypeOK
  <2>3. CASE ~(CreateSummary(c) \/ FillSummary(c))
    BY <1>4, <2>3
       DEF CompactStep, CheckNeed, CallCompact, PlanCompaction, CreateEvent, ArchiveMessage, ArchiveFails,
           DeleteFails, SummaryFails, UpdateCount, GiveUp, logVars
  <2> QED
    BY <2>1, <2>2, <2>3
<1> QED
  BY <1>1, <1>2, <1>3, <1>4 DEF CompNext

-----------------------------------------------------------------------------
(* Types.                                                                  *)

MessagesOK ==
    /\ count \in Nat
    /\ log \subseteq Message /\ IsFiniteSet(log)
    /\ \A m \in log : m.id \in 1 .. count
    /\ \A m, n \in log : m.id = n.id => m = n

RunsOK == runs \in [SessionRuns -> RunOfSession] /\ calls \in [Uses -> CallOfSession]

\* A message more is new.
LEMMA InsertOK ==
    ASSUME MessagesOK, NEW m \in Message, Insert(m)
    PROVE  /\ MessagesOK'
           /\ \E new \in Message : new.id = count + 1 /\ log' = log \cup {new}
<1> DEFINE new == [m EXCEPT !.id = count + 1]
<1>1. new \in Message /\ new.id = count + 1
  BY DEF Message, MessagesOK
<1>2. log' = log \cup {new} /\ count' = count + 1
  BY DEF Insert
<1>3. IsFiniteSet(log')
  BY <1>2, FS_AddElement DEF MessagesOK
<1>4. \A n \in log : n.id \in 1 .. count
  BY DEF MessagesOK
<1> HIDE DEF new
<1>5. MessagesOK'
  BY <1>1, <1>2, <1>3, <1>4 DEF MessagesOK
<1> QED
  BY <1>1, <1>2, <1>5

\* A rewritten message is the same message.
LEMMA RewriteOK ==
    ASSUME MessagesOK, UNCHANGED count, NEW m \in log, NEW new \in Message, Rewrite(m, new)
    PROVE  MessagesOK'
<1>1. log' = (log \ {m}) \cup {new} /\ new.id = m.id
  BY DEF Rewrite
<1>2. IsFiniteSet(log')
  BY <1>1, FS_RemoveElement, FS_AddElement DEF MessagesOK
<1> QED
  BY <1>1, <1>2 DEF MessagesOK

\* A deletion leaves messages.
LEMMA DeleteOK ==
    ASSUME MessagesOK, NEW c \in Compactors, DeleteMessage(c)
    PROVE  MessagesOK'
<1>1. log' \subseteq log /\ UNCHANGED count
  BY DEF DeleteMessage
<1>2. IsFiniteSet(log')
  BY <1>1, FS_Subset DEF MessagesOK
<1> QED
  BY <1>1, <1>2 DEF MessagesOK

\* Every step keeps the messages and their IDs in order.
LEMMA MessagesStep ==
    ASSUME MessagesOK, LogShape \/ \E c \in Compactors : DeleteMessage(c)
    PROVE  MessagesOK'
<1>1. CASE UNCHANGED <<log, count>>
  BY <1>1 DEF MessagesOK
<1> QED
  BY <1>1, InsertOK, RewriteOK, DeleteOK DEF LogShape

\* The end of a run leaves the calls calls.
LEMMA ParentToldTypes ==
    ASSUME RunsOK, NEW r \in SessionRuns
    PROVE  ParentTold(r) \in [Uses -> CallOfSession]
  BY DEF RunsOK, ParentTold, CallOfSession

\* Every step of the runs keeps the types of runs and calls.
LEMMA RunsStep == RunsOK /\ LogNext => RunsOK'
<1> SUFFICES ASSUME RunsOK, LogNext PROVE RunsOK'
  OBVIOUS
<1> USE DEF RunsOK, RunOfSession, LiveStates, Steps
<1>1. ASSUME NEW r \in SessionRuns, Submit(r) PROVE RunsOK'
  BY <1>1, TurnsAssumption DEF Submit
<1>2. ASSUME NEW r \in SessionRuns, Take(r) PROVE RunsOK'
  <2> DEFINE at == IF runs[r].turn = 0 THEN "prompt" ELSE "ask"
             row == [runs[r] EXCEPT !.state = "running", !.at = at]
  <2>1. at \in Steps
    OBVIOUS
  <2>2. row \in RunOfSession
    BY <2>1
  <2>3. runs' = [runs EXCEPT ![r] = row]
    BY <1>2 DEF Take
  <2> HIDE DEF row
  <2> QED
    BY <1>2, <2>2, <2>3 DEF Take
<1>3. ASSUME NEW r \in SessionRuns, InsertPrompt(r) PROVE RunsOK'
  BY <1>3, TurnsAssumption DEF InsertPrompt
<1>4. ASSUME NEW r \in SessionRuns, InsertAnswer(r) PROVE RunsOK'
  <2> DEFINE n == runs[r].turn + 1
             row == [runs[r] EXCEPT !.at = "answering", !.turn = n]
  <2>1. row \in RunOfSession /\ n \in Nat
    <3>1. n \in Nat
      OBVIOUS
    <3> HIDE DEF n
    <3> QED
      BY <3>1
  <2>2. runs' = [runs EXCEPT ![r] = row]
    BY <1>4 DEF InsertAnswer
  <2>3. PICK U : calls' = [u \in Uses |-> IF u \in U
                                          THEN [calls[u] EXCEPT !.state = "asked", !.of = r, !.turn = n]
                                          ELSE calls[u]]
    BY <1>4 DEF InsertAnswer
  <2> HIDE DEF row, n
  <2>4. \A u \in Uses : [calls[u] EXCEPT !.state = "asked", !.of = r, !.turn = n] \in CallOfSession
    BY <2>1 DEF CallOfSession
  <2>5. calls' \in [Uses -> CallOfSession]
    BY <2>3, <2>4
  <2> QED
    BY <2>1, <2>2, <2>5
<1>5. ASSUME NEW r \in SessionRuns, FillOwn(r) PROVE RunsOK'
  BY <1>5, TurnsAssumption DEF FillOwn
<1>6. ASSUME NEW r \in SessionRuns, SettleTurn(r) PROVE RunsOK'
  <2>1. runs' \in [SessionRuns -> RunOfSession]
    BY <1>6 DEF SettleTurn
  <2>2. calls' \in [Uses -> CallOfSession]
    BY <1>6, ParentToldTypes DEF SettleTurn, CallOfSession
  <2> QED
    BY <2>1, <2>2
<1>7. ASSUME NEW r \in SessionRuns, ContinueTurn(r) PROVE RunsOK'
  BY <1>7, TurnsAssumption DEF ContinueTurn
<1>8. ASSUME NEW r \in SessionRuns, FailSessionRun(r) PROVE RunsOK'
  <2>1. runs' \in [SessionRuns -> RunOfSession]
    BY <1>8 DEF FailSessionRun
  <2>2. calls' \in [Uses -> CallOfSession]
    BY <1>8, ParentToldTypes DEF FailSessionRun, CallOfSession
  <2> QED
    BY <2>1, <2>2
<1>9. ASSUME NEW r \in SessionRuns, LinkChild(r) PROVE RunsOK'
  BY <1>9, TurnsAssumption DEF LinkChild, CallOfSession
<1>10. ASSUME NEW u \in Uses, RunTool(u) PROVE RunsOK'
  BY <1>10, TurnsAssumption DEF RunTool, CallOfSession
<1>11. ASSUME NEW u \in Uses, NEW k \in Kids, Delegate(u, k) PROVE RunsOK'
  <2> DEFINE row == [runs[k] EXCEPT !.state = "pending", !.asks = u]
  <2>1. k \in SessionRuns
    BY DEF SessionRuns
  <2>2. row \in RunOfSession
    BY <2>1
  <2>3. runs' = [runs EXCEPT ![k] = row]
    BY <1>11 DEF Delegate
  <2>4. calls' \in [Uses -> CallOfSession]
    BY <1>11 DEF Delegate, CallOfSession
  <2> HIDE DEF row
  <2> QED
    BY <2>1, <2>2, <2>3, <2>4
<1> QED
  BY <1>1, <1>2, <1>3, <1>4, <1>5, <1>6, <1>7, <1>8, <1>9, <1>10, <1>11 DEF LogNext, RunWrites

CompRow == [pc : Phases, todo : SUBSET Message, doomed : SUBSET Nat, covers : SUBSET Nat,
            blank : SUBSET Nat, pruned : SUBSET Nat, summing : BOOLEAN, written : Nat]

CompactorsOK ==
    /\ comp \in [Compactors -> CompRow]
    /\ archive \subseteq Message
    /\ unarchived \subseteq Nat
    /\ events \in Nat
    /\ compacted \in {0, 1}
    /\ faults \in 0 .. MaxFaults

\* The type invariant in three parts.
LEMMA TypeParts == CompTypeOK /\ IsFiniteSet(log) <=> MessagesOK /\ RunsOK /\ CompactorsOK
  BY DEF CompTypeOK, LogTypeOK, MessagesOK, RunsOK, CompactorsOK, CompRow

\* Whatever the strategy, it dooms and covers nothing but messages it was given.
LEMMA PlanShape ==
    ASSUME NEW P, P \subseteq Message, NEW t
    PROVE  /\ Execute(P, t).doomed \subseteq Ids(P)
           /\ Execute(P, t).covers \subseteq Ids(P)
           /\ Execute(P, t).summing \in BOOLEAN
<1>1. Prunable(P) \subseteq P
  BY DEF Prunable
<1>2. /\ SummarizationExecute(P).doomed \subseteq Ids(P)
      /\ SummarizationExecute(P).covers \subseteq Ids(P)
      /\ SummarizationExecute(P).summing \in BOOLEAN
  BY DEF SummarizationExecute, Told, Ids
<1>3. CASE t <= TargetTokens + Saved(P)
  <2> DEFINE short == [doomed |-> Ids(Prunable(P)), covers |-> {}, summing |-> FALSE]
  <2>1. /\ short.doomed \subseteq Ids(P) /\ short.covers \subseteq Ids(P) /\ short.summing \in BOOLEAN
    BY <1>1 DEF Ids
  <2>2. HybridExecute(P, t) = short
    BY <1>3, Zenon DEF HybridExecute
  <2> QED
    BY <1>2, <2>1, <2>2 DEF Execute
<1>4. CASE ~(t <= TargetTokens + Saved(P))
  <2>1. HybridExecute(P, t) = SummarizationExecute(P)
    BY <1>4, Zenon DEF HybridExecute
  <2> QED
    BY <1>2, <2>1 DEF Execute
<1> QED
  BY <1>3, <1>4

\* A plan, as a row of comp.
Planned(t) ==
    LET P == Compactable(log)
        plan == Execute(P, t)
    IN [pc |-> "event", todo |-> P, doomed |-> plan.doomed, covers |-> plan.covers,
        blank |-> Ids(P) \ Told(P),
        pruned |-> IF plan.summing THEN {} ELSE Ids(Prunable(P)),
        summing |-> plan.summing, written |-> 0]

\* What a compaction plans is of the right kind.
LEMMA PlanTypes ==
    ASSUME MessagesOK, CompactorsOK, NEW c \in Compactors, PlanCompaction(c)
    PROVE  comp' \in [Compactors -> CompRow]
<1>1. comp \in [Compactors -> CompRow]
  BY DEF CompactorsOK
<1>2. CASE Move(c, "done")
  BY <1>1, <1>2 DEF Move, CompRow, Phases
<1>3. ASSUME NEW t, comp' = [comp EXCEPT ![c] = Planned(t)]
      PROVE  comp' \in [Compactors -> CompRow]
  <2> DEFINE P == Compactable(log)
             plan == Execute(P, t)
  <2>1. P \subseteq Message
    BY DEF Compactable, MessagesOK
  <2>2. Ids(P) \subseteq Nat
    BY <2>1 DEF Ids, Message
  <2>3. plan.doomed \subseteq Nat /\ plan.covers \subseteq Nat /\ plan.summing \in BOOLEAN
    BY <2>1, <2>2, PlanShape
  <2>4. Ids(P) \ Told(P) \subseteq Nat /\ Ids(Prunable(P)) \subseteq Nat
    BY <2>2 DEF Prunable, Ids
  <2> HIDE DEF P, plan
  <2>5. Planned(t) \in CompRow
    BY <2>1, <2>3, <2>4 DEF Planned, CompRow, Phases, P, plan
  <2> QED
    BY <1>1, <1>3, <2>5
<1> QED
  BY <1>2, <1>3 DEF PlanCompaction, Planned

\* Every step keeps the types of the compactions.
LEMMA CompactorsStep ==
    ASSUME MessagesOK, CompactorsOK, [CompNext]_<<logVars, compVars>>
    PROVE  CompactorsOK'
<1> USE KeepAssumption
<1>1. CASE UNCHANGED <<logVars, compVars>>
  BY <1>1 DEF CompactorsOK, compVars
<1>2. CASE LogNext /\ UNCHANGED compVars
  BY <1>2 DEF CompactorsOK, compVars
<1>3. CASE MarkPreserved
  BY <1>3 DEF MarkPreserved, CompactorsOK, compVars
<1>4. ASSUME NEW c \in Compactors, CompactStep(c) PROVE CompactorsOK'
  <2> USE DEF CompactorsOK
  <2>1. CASE PlanCompaction(c)
    BY <2>1, PlanTypes DEF PlanCompaction
  <2>2. CASE CheckNeed(c) \/ CallCompact(c) \/ CreateEvent(c) \/ UpdateCount(c)
    BY <2>2 DEF CheckNeed, CallCompact, CreateEvent, UpdateCount, Move, CompRow, Phases
  <2>3. CASE ArchiveMessage(c)
    BY <2>3 DEF ArchiveMessage, Oldest, CompRow
  <2>4. CASE ArchiveFails(c)
    BY <2>4 DEF ArchiveFails, Fault, Oldest, CompRow, Message
  <2>5. CASE DeleteMessage(c)
    BY <2>5 DEF DeleteMessage, CompRow
  <2>6. CASE DeleteFails(c)
    BY <2>6 DEF DeleteFails, Fault, CompRow
  <2>7. CASE CreateSummary(c)
    <3> DEFINE n == count + 1
               row == [comp[c] EXCEPT !.pc = "fill", !.written = n]
    <3>1. n \in Nat
      BY DEF MessagesOK
    <3> HIDE DEF n
    <3>2. row \in CompRow
      BY <3>1 DEF CompRow, Phases
    <3>3. comp' = [comp EXCEPT ![c] = row]
      BY <2>7 DEF CreateSummary, n
    <3> HIDE DEF row
    <3> QED
      BY <2>7, <3>2, <3>3 DEF CreateSummary
  <2>8. CASE FillSummary(c)
    BY <2>8 DEF FillSummary, Move, CompRow, Phases
  <2>9. CASE SummaryFails(c) \/ GiveUp(c)
    BY <2>9 DEF SummaryFails, GiveUp, Fault, Move, CompRow, Phases
  <2> QED
    BY <1>4, <2>1, <2>2, <2>3, <2>4, <2>5, <2>6, <2>7, <2>8, <2>9 DEF CompactStep
<1> QED
  BY <1>1, <1>2, <1>3, <1>4 DEF CompNext

\* Every step keeps the types.
LEMMA CompTypeStep ==
    ASSUME CompTypeOK, IsFiniteSet(log), [CompNext]_<<logVars, compVars>>
    PROVE  CompTypeOK' /\ IsFiniteSet(log')
<1>1. MessagesOK /\ RunsOK /\ CompactorsOK
  BY TypeParts
<1>2. MessagesOK'
  BY <1>1, CompNextShape, MessagesStep
<1>3. RunsOK'
  <2>1. CASE LogNext
    BY <1>1, <2>1, RunsStep
  <2>2. CASE ~LogNext
    <3>1. UNCHANGED <<runs, calls>>
      BY <2>2 DEF CompNext, MarkPreserved, CompactStep, CheckNeed, CallCompact, PlanCompaction, CreateEvent,
                  ArchiveMessage, ArchiveFails, DeleteMessage, DeleteFails, CreateSummary, FillSummary,
                  SummaryFails, UpdateCount, GiveUp, logVars
    <3> QED
      BY <1>1, <3>1 DEF RunsOK
  <2> QED
    BY <2>1, <2>2
<1>4. CompactorsOK'
  BY <1>1, CompactorsStep
<1> QED
  BY <1>2, <1>3, <1>4 DEF CompTypeOK, LogTypeOK, MessagesOK, RunsOK, CompactorsOK, CompRow

-----------------------------------------------------------------------------
(* What is deleted.                                                        *)

\* A compaction only plans to delete old messages, without summaries among them.
LEMMA CompactableOld ==
    ASSUME MessagesOK, NEW d \in Ids(Compactable(log))
    PROVE  /\ d \in 1 .. count
           /\ Cardinality(Newer(log, d)) >= PreserveLastN
           /\ \A m \in log : m.id = d => ~m.summary
<1> DEFINE rest == log \ Protected(log)
           newer == {n \in rest : n.id > d}
<1>1. PICK m \in Compactable(log) : m.id = d
  BY DEF Ids
<1>2. m \in rest /\ m \notin Recent(log) /\ ~m.summary
  BY DEF Compactable
<1>3. newer \subseteq Newer(log, d) /\ Newer(log, d) \subseteq log
  BY DEF Newer
<1>4. /\ Cardinality(newer) \in Nat /\ Cardinality(Newer(log, d)) \in Nat
      /\ Cardinality(newer) <= Cardinality(Newer(log, d))
  BY <1>3, FS_Subset, FS_CardinalityType DEF MessagesOK
<1>5. ~(Cardinality(newer) < PreserveLastN)
  BY <1>1, <1>2 DEF Recent
<1>6. Cardinality(Newer(log, d)) >= PreserveLastN
  BY <1>4, <1>5, DefaultsAssumption DEF ApplyDefaults
<1> QED
  BY <1>1, <1>2, <1>6 DEF MessagesOK

\* Old stays old when a message is inserted or rewritten.
LEMMA ShapeNewer ==
    ASSUME MessagesOK, LogShape, NEW d \in 1 .. count
    PROVE  /\ Cardinality(Newer(log', d)) >= Cardinality(Newer(log, d))
           /\ count' >= count
           /\ \A m \in log' : m.id = d => \E n \in log : n.id = d /\ n.summary = m.summary
<1> DEFINE S == Newer(log, d)
<1>0. IsFiniteSet(log) /\ IsFiniteSet(log') /\ count \in Nat
  BY MessagesStep DEF MessagesOK
<1>1. IsFiniteSet(S) /\ Cardinality(S) \in Nat
  BY <1>0, FS_Subset, FS_CardinalityType DEF Newer
<1>2. CASE UNCHANGED <<log, count>>
  BY <1>0, <1>1, <1>2
<1>3. ASSUME NEW m \in Message, Insert(m) PROVE
           /\ Cardinality(Newer(log', d)) >= Cardinality(Newer(log, d))
           /\ count' >= count
           /\ \A o \in log' : o.id = d => \E n \in log : n.id = d /\ n.summary = o.summary
  <2>1. PICK new \in Message : new.id = count + 1 /\ log' = log \cup {new}
    BY <1>3, InsertOK
  <2>2. S \subseteq Newer(log', d) /\ Newer(log', d) \subseteq log'
    BY <2>1 DEF Newer
  <2>3. IsFiniteSet(Newer(log', d))
    BY <1>0, <2>2, FS_Subset
  <2>4. Cardinality(Newer(log', d)) >= Cardinality(S)
    BY <2>2, <2>3, <1>1, FS_Subset, FS_CardinalityType
  <2> QED
    BY <1>0, <1>3, <2>1, <2>4 DEF Insert
<1>4. ASSUME UNCHANGED count, NEW m \in log, NEW new \in Message, Rewrite(m, new) PROVE
           /\ Cardinality(Newer(log', d)) >= Cardinality(Newer(log, d))
           /\ count' >= count
           /\ \A o \in log' : o.id = d => \E n \in log : n.id = d /\ n.summary = o.summary
  <2>1. log' = (log \ {m}) \cup {new} /\ new.id = m.id /\ new.summary = m.summary
    BY <1>4 DEF Rewrite
  <2>2. CASE m.id > d
    <3>1. Newer(log', d) = (S \ {m}) \cup {new} /\ m \in S
      BY <2>1, <2>2 DEF Newer
    <3>2. IsFiniteSet(S \ {m}) /\ Cardinality(S \ {m}) = Cardinality(S) - 1
      BY <1>1, <3>1, FS_RemoveElement
    <3>3. new \notin S \ {m}
      BY <2>1 DEF Newer, MessagesOK
    <3>4. Cardinality((S \ {m}) \cup {new}) = Cardinality(S \ {m}) + 1
      BY <3>2, <3>3, FS_AddElement
    <3>5. Cardinality(Newer(log', d)) = Cardinality(S)
      BY <1>1, <3>1, <3>2, <3>4
    <3> QED
      BY <1>0, <1>1, <1>4, <2>1, <3>5
  <2>3. CASE ~(m.id > d)
    <3>1. Newer(log', d) = S
      BY <2>1, <2>3 DEF Newer
    <3> QED
      BY <1>0, <1>1, <1>4, <2>1, <3>1
  <2> QED
    BY <2>2, <2>3
<1> QED
  BY <1>2, <1>3, <1>4 DEF LogShape

\* Old stays old when as old a message is deleted, or an older one.
LEMMA DeleteNewer ==
    ASSUME MessagesOK, NEW e \in Nat, Cardinality(Newer(log, e)) >= PreserveLastN,
           log' = {m \in log : m.id # e},
           NEW d \in Nat, Cardinality(Newer(log, d)) >= PreserveLastN
    PROVE  Cardinality(Newer(log', d)) >= PreserveLastN
<1>0. \A m \in log : m.id \in Nat
  BY DEF MessagesOK, Message
<1>1. CASE d >= e
  <2>1. Newer(log', d) = Newer(log, d)
    BY <1>0, <1>1 DEF Newer
  <2> QED
    BY <2>1
<1>2. CASE ~(d >= e)
  <2>1. Newer(log, e) \subseteq Newer(log', d) /\ Newer(log', d) \subseteq log /\ Newer(log, e) \subseteq log
    BY <1>0, <1>2 DEF Newer
  <2>2. IsFiniteSet(Newer(log', d)) /\ IsFiniteSet(Newer(log, e))
    BY <2>1, FS_Subset DEF MessagesOK
  <2>3. Cardinality(Newer(log, e)) <= Cardinality(Newer(log', d))
    BY <2>1, <2>2, FS_Subset
  <2>4. Cardinality(Newer(log, e)) \in Nat /\ Cardinality(Newer(log', d)) \in Nat
    BY <2>2, FS_CardinalityType
  <2> QED
    BY <2>3, <2>4, DefaultsAssumption DEF ApplyDefaults
<1> QED
  BY <1>1, <1>2

\* A compaction's step, but its plan, leaves no more to be deleted, and one that did
\* not work before only works by its plan.
LEMMA DoomedShrinks ==
    ASSUME CompactorsOK, [CompNext]_<<logVars, compVars>>, NEW c \in Compactors, Working(c)',
           ~PlanCompaction(c)
    PROVE  Working(c) /\ comp'[c].doomed \subseteq comp[c].doomed
<1> USE DEF CompactorsOK, CompRow, Working
<1>1. CASE UNCHANGED compVars
  BY <1>1 DEF compVars
<1>2. ASSUME NEW e \in Compactors, CompactStep(e), ~PlanCompaction(e)
      PROVE  Working(c) /\ comp'[c].doomed \subseteq comp[c].doomed
  BY <1>2 DEF CompactStep, CheckNeed, CallCompact, CreateEvent, ArchiveMessage, ArchiveFails, DeleteMessage,
              DeleteFails, CreateSummary, FillSummary, SummaryFails, UpdateCount, GiveUp, Move, Fault, Deleted
<1>3. ASSUME NEW e \in Compactors, PlanCompaction(e), e # c
      PROVE  Working(c) /\ comp'[c].doomed \subseteq comp[c].doomed
  BY <1>3 DEF PlanCompaction, Move
<1> QED
  BY <1>1, <1>2, <1>3 DEF CompNext, MarkPreserved

\* What a plan dooms it has read, and will archive.
LEMMA PlanDoomed ==
    ASSUME MessagesOK, CompactorsOK, NEW c \in Compactors, PlanCompaction(c), Working(c)'
    PROVE  /\ comp'[c].doomed \subseteq Ids(Compactable(log))
           /\ comp'[c].todo = Compactable(log)
           /\ UNCHANGED <<log, count, archive, unarchived>>
<1> USE DEF CompactorsOK, CompRow, Working
<1>1. ~Move(c, "done")
  BY DEF Move
<1>2. PICK t : comp' = [comp EXCEPT ![c] = Planned(t)]
  BY <1>1 DEF PlanCompaction, Planned
<1>3. Compactable(log) \subseteq Message
  BY DEF Compactable, MessagesOK
<1>4. comp'[c] = Planned(t)
  BY <1>2
<1>5. UNCHANGED <<log, count, archive, unarchived>>
  BY DEF PlanCompaction, logVars
<1> QED
  BY <1>3, <1>4, <1>5, PlanShape DEF Planned

\* Every step keeps what is to be deleted old.
LEMMA DoomedOldStep ==
    ASSUME CompInv, [CompNext]_<<logVars, compVars>>
    PROVE  DoomedOld'
<1> SUFFICES ASSUME NEW c \in Compactors, Working(c)', NEW d \in comp'[c].doomed
             PROVE  /\ d \in 1 .. count'
                    /\ Cardinality(Newer(log', d)) >= PreserveLastN
                    /\ \A m \in log' : m.id = d => ~m.summary
  BY DEF DoomedOld
<1>0. CompTypeOK /\ MessagesOK /\ CompactorsOK
  BY TypeParts DEF CompInv
<1>1. CASE PlanCompaction(c)
  BY <1>0, <1>1, PlanDoomed, CompactableOld
<1>2. CASE ~PlanCompaction(c)
  <2>1. /\ d \in 1 .. count
        /\ Cardinality(Newer(log, d)) >= PreserveLastN
        /\ \A m \in log : m.id = d => ~m.summary
    BY <1>0, <1>2, DoomedShrinks DEF CompInv, DoomedOld
  <2>2. CASE LogShape
    <3>1. MessagesOK' /\ count \in Nat
      BY <1>0, <2>2, MessagesStep DEF MessagesOK
    <3>2. Cardinality(Newer(log', d)) \in Nat /\ Cardinality(Newer(log, d)) \in Nat
      BY <1>0, <3>1, FS_Subset, FS_CardinalityType DEF MessagesOK, Newer
    <3>3. /\ Cardinality(Newer(log', d)) >= Cardinality(Newer(log, d))
          /\ count' >= count
          /\ \A m \in log' : m.id = d => \E n \in log : n.id = d /\ n.summary = m.summary
      BY <1>0, <2>1, <2>2, ShapeNewer
    <3>4. count' \in Nat
      BY <3>1 DEF MessagesOK
    <3> QED
      BY <2>1, <3>1, <3>2, <3>3, <3>4, DefaultsAssumption DEF ApplyDefaults
  <2>3. ASSUME NEW e \in Compactors, DeleteMessage(e)
        PROVE  /\ d \in 1 .. count'
               /\ Cardinality(Newer(log', d)) >= PreserveLastN
               /\ \A m \in log' : m.id = d => ~m.summary
    <3>1. PICK x \in comp[e].doomed : log' = {m \in log : m.id # x}
      BY <2>3 DEF DeleteMessage, OldestId
    <3>2. x \in Nat /\ Cardinality(Newer(log, x)) >= PreserveLastN /\ UNCHANGED count
      BY <1>0, <2>3 DEF CompInv, DoomedOld, Working, DeleteMessage, CompactorsOK, CompRow
    <3>3. Cardinality(Newer(log', d)) >= PreserveLastN
      BY <1>0, <2>1, <3>1, <3>2, DeleteNewer
    <3> QED
      BY <2>1, <3>1, <3>2, <3>3
  <2> QED
    BY <1>0, <2>2, <2>3, CompNextShape
<1> QED
  BY <1>1, <1>2

\* Every step keeps what is to be deleted safe.
LEMMA DoomedSafeStep ==
    ASSUME CompInv, [CompNext]_<<logVars, compVars>>
    PROVE  DoomedSafe'
<1> SUFFICES ASSUME NEW c \in Compactors, Working(c)', NEW d \in comp'[c].doomed
             PROVE  d \in Ids(comp'[c].todo) \cup Ids(archive') \cup unarchived'
  BY DEF DoomedSafe, Ids
<1>0. MessagesOK /\ CompactorsOK
  BY TypeParts DEF CompInv
<1>1. CASE PlanCompaction(c)
  BY <1>0, <1>1, PlanDoomed
<1>2. CASE ~PlanCompaction(c)
  <2>1. d \in Ids(comp[c].todo) \cup Ids(archive) \cup unarchived
    BY <1>0, <1>2, DoomedShrinks DEF CompInv, DoomedSafe
  <2> USE <1>0, <1>2, <2>1 DEF CompactorsOK, CompRow, Ids
  <2>2. ASSUME NEW e \in Compactors, ArchiveMessage(e)
        PROVE  d \in Ids(comp'[c].todo) \cup Ids(archive') \cup unarchived'
    BY <2>2 DEF ArchiveMessage, Oldest
  <2>3. ASSUME NEW e \in Compactors, ArchiveFails(e)
        PROVE  d \in Ids(comp'[c].todo) \cup Ids(archive') \cup unarchived'
    BY <2>3 DEF ArchiveFails, Oldest
  <2>4. ASSUME NEW e \in Compactors, CompactStep(e), ~ArchiveMessage(e), ~ArchiveFails(e)
        PROVE  d \in Ids(comp'[c].todo) \cup Ids(archive') \cup unarchived'
    <3>1. CASE PlanCompaction(e)
      BY <3>1 DEF PlanCompaction, Move
    <3>2. CASE ~PlanCompaction(e)
      BY <2>4, <3>2 DEF CompactStep, CheckNeed, CallCompact, CreateEvent, Move, DeleteMessage, DeleteFails,
                        CreateSummary, FillSummary, SummaryFails, UpdateCount, GiveUp
    <3> QED
      BY <3>1, <3>2
  <2>5. CASE UNCHANGED compVars
    BY <2>5 DEF compVars
  <2> QED
    BY <2>2, <2>3, <2>4, <2>5 DEF CompNext, MarkPreserved
<1> QED
  BY <1>1, <1>2

\* Every step keeps the messages.
LEMMA LostStep ==
    ASSUME CompInv, [CompNext]_<<logVars, compVars>>
    PROVE  Somewhere'
<1> SUFFICES ASSUME NEW id \in 1 .. count'
             PROVE  id \in Ids(log') \cup Ids(archive') \cup unarchived'
  BY DEF Somewhere
<1>0. CompTypeOK /\ MessagesOK /\ CompactorsOK
  BY TypeParts DEF CompInv
<1>1. Ids(archive) \subseteq Ids(archive') /\ unarchived \subseteq unarchived'
  BY DEF CompNext, MarkPreserved, CompactStep, CheckNeed, CallCompact, PlanCompaction, CreateEvent, ArchiveMessage,
         ArchiveFails, DeleteMessage, DeleteFails, CreateSummary, FillSummary, SummaryFails, UpdateCount, GiveUp,
         compVars, Ids
<1>2. \A i \in 1 .. count : i \in Ids(log) \cup Ids(archive) \cup unarchived
  BY DEF CompInv, Somewhere
<1>3. CASE UNCHANGED <<log, count>>
  BY <1>1, <1>2, <1>3 DEF Ids
<1>4. ASSUME NEW m \in Message, Insert(m) PROVE id \in Ids(log') \cup Ids(archive') \cup unarchived'
  <2>1. PICK new \in Message : new.id = count + 1 /\ log' = log \cup {new}
    BY <1>0, <1>4, InsertOK
  <2>2. count' = count + 1 /\ count \in Nat
    BY <1>0, <1>4 DEF Insert, MessagesOK
  <2>3. id \in 1 .. count \/ id = new.id
    BY <2>1, <2>2
  <2> QED
    BY <1>1, <1>2, <2>1, <2>3 DEF Ids
<1>5. ASSUME UNCHANGED count, NEW m \in log, NEW new \in Message, Rewrite(m, new)
      PROVE  id \in Ids(log') \cup Ids(archive') \cup unarchived'
  BY <1>1, <1>2, <1>5 DEF Rewrite, Ids
<1>6. ASSUME NEW c \in Compactors, DeleteMessage(c)
      PROVE  id \in Ids(log') \cup Ids(archive') \cup unarchived'
  <2>1. PICK x \in comp[c].doomed : log' = {m \in log : m.id # x}
    BY <1>6 DEF DeleteMessage, OldestId
  <2>2. x \in Ids(archive) \cup unarchived
    BY <1>6, <2>1 DEF CompInv, DoomedSafe, Working, DeleteMessage, Ids
  <2> QED
    BY <1>1, <1>2, <1>6, <2>1, <2>2 DEF DeleteMessage, Ids
<1> QED
  BY <1>0, <1>3, <1>4, <1>5, <1>6, CompNextShape DEF LogShape

\* A step that is not of the compaction leaves its row.
LEMMA OthersLeave ==
    ASSUME CompactorsOK, [CompNext]_<<logVars, compVars>>, NEW c \in Compactors, ~CompactStep(c)
    PROVE  comp'[c] = comp[c]
<1> USE DEF CompactorsOK, CompRow
<1>1. ASSUME NEW e \in Compactors, CompactStep(e), e # c PROVE comp'[c] = comp[c]
  BY <1>1 DEF CompactStep, CheckNeed, CallCompact, PlanCompaction, CreateEvent, ArchiveMessage, ArchiveFails,
              DeleteMessage, DeleteFails, CreateSummary, FillSummary, SummaryFails, UpdateCount, GiveUp, Move
<1> QED
  BY <1>1 DEF CompNext, MarkPreserved, compVars

\* But for its plan, a compaction does not change what it tells of, nor go back.
LEMMA OwnRow ==
    ASSUME CompactorsOK, NEW c \in Compactors, CompactStep(c), ~PlanCompaction(c)
    PROVE  /\ comp'[c].covers = comp[c].covers /\ comp'[c].blank = comp[c].blank
           /\ comp'[c].pruned = comp[c].pruned /\ comp'[c].summing = comp[c].summing
           /\ comp'[c].todo \subseteq comp[c].todo
           /\ comp'[c].pc \in {"before", "read"} => comp[c].pc \in {"before", "read"}
           /\ comp'[c].pc # "event"
<1> USE DEF CompactorsOK, CompRow
<1>1. CASE CheckNeed(c) \/ CallCompact(c) \/ CreateEvent(c) \/ FillSummary(c) \/ UpdateCount(c)
  BY <1>1 DEF CheckNeed, CallCompact, CreateEvent, FillSummary, UpdateCount, Move, MayBegin, Deleted
<1>2. CASE ArchiveMessage(c) \/ ArchiveFails(c) \/ DeleteMessage(c) \/ DeleteFails(c)
  BY <1>2 DEF ArchiveMessage, ArchiveFails, DeleteMessage, DeleteFails
<1>3. CASE CreateSummary(c)
  BY <1>3 DEF CreateSummary
<1>4. CASE SummaryFails(c) \/ GiveUp(c)
  BY <1>4 DEF SummaryFails, GiveUp, Fault, Move
<1> QED
  BY <1>1, <1>2, <1>3, <1>4 DEF CompactStep

\* A step, but its own plan, leaves what a compaction read as it is, or archives of it.
LEMMA ReadStays ==
    ASSUME CompactorsOK, [CompNext]_<<logVars, compVars>>, NEW c \in Compactors, ~PlanCompaction(c)
    PROVE  /\ comp'[c].blank = comp[c].blank /\ comp'[c].pruned = comp[c].pruned
           /\ comp'[c].summing = comp[c].summing /\ comp'[c].todo \subseteq comp[c].todo
           /\ comp'[c].pc \in {"before", "read"} => comp[c].pc \in {"before", "read"}
  BY OwnRow, OthersLeave

\* What was read without content stays noted: who plans has noted nothing before.
LEMMA BlankStays ==
    ASSUME CompactorsOK, CopiesAsRead, [CompNext]_<<logVars, compVars>>, NEW c \in Compactors
    PROVE  comp[c].blank \subseteq comp'[c].blank /\ comp[c].pruned \subseteq comp'[c].pruned
<1>1. CASE PlanCompaction(c)
  BY <1>1 DEF PlanCompaction, CopiesAsRead
<1> QED
  BY <1>1, ReadStays

\* A plan notes what it read without content.
LEMMA PlanNotes ==
    ASSUME MessagesOK, CompactorsOK, CopiesAsRead, NEW c \in Compactors, PlanCompaction(c)
    PROVE  /\ comp'[c].pc \notin {"before", "read"}
           /\ \A m \in comp'[c].todo : m.filled \/ m.id \in comp'[c].blank
<1>1. CASE Move(c, "done")
  BY <1>1 DEF Move, CompactorsOK, CompRow, CopiesAsRead
<1>2. ASSUME NEW t, comp' = [comp EXCEPT ![c] = Planned(t)]
      PROVE  /\ comp'[c].pc \notin {"before", "read"}
             /\ \A m \in comp'[c].todo : m.filled \/ m.id \in comp'[c].blank
  <2> DEFINE P == Compactable(log)
  <2>1. P \subseteq log
    BY DEF Compactable
  <2>2. comp'[c] = Planned(t)
    BY <1>2 DEF CompactorsOK
  <2>3. comp'[c].pc = "event" /\ comp'[c].todo = P /\ comp'[c].blank = Ids(P) \ Told(P)
    BY <2>2 DEF Planned
  <2> HIDE DEF P
  <2>4. ASSUME NEW m \in P, ~m.filled PROVE m.id \in Ids(P) \ Told(P)
    BY <2>1, <2>4 DEF MessagesOK, Ids, Told
  <2> QED
    BY <2>3, <2>4
<1> QED
  BY <1>1, <1>2 DEF PlanCompaction, Planned

\* Every step keeps the copies as they were read.
LEMMA CopiesStep ==
    ASSUME CompInv, [CompNext]_<<logVars, compVars>>
    PROVE  CopiesAsRead'
<1>0. MessagesOK /\ CompactorsOK /\ CopiesAsRead
  BY TypeParts DEF CompInv
<1>1. ASSUME NEW c \in Compactors
      PROVE  /\ comp'[c].pc \in {"before", "read"} => comp'[c].blank = {} /\ comp'[c].pruned = {}
             /\ \A m \in comp'[c].todo : m.filled \/ m.id \in comp'[c].blank
  <2>1. CASE PlanCompaction(c)
    BY <1>0, <2>1, PlanNotes
  <2>2. CASE ~PlanCompaction(c)
    BY <1>0, <2>2, ReadStays DEF CopiesAsRead
  <2> QED
    BY <2>1, <2>2
<1>2. ASSUME NEW m \in archive', ~m.filled PROVE \E c \in Compactors : m.id \in comp'[c].blank
  <2>1. m \in archive \/ \E c \in Compactors : m \in comp[c].todo
    BY <1>0 DEF CompNext, MarkPreserved, CompactStep, CheckNeed, CallCompact, PlanCompaction, CreateEvent,
                ArchiveMessage, ArchiveFails, DeleteMessage, DeleteFails, CreateSummary, FillSummary,
                SummaryFails, UpdateCount, GiveUp, compVars, Oldest
  <2>2. PICK c \in Compactors : m.id \in comp[c].blank
    BY <1>0, <1>2, <2>1 DEF CopiesAsRead
  <2> QED
    BY <1>0, <2>2, BlankStays
<1> QED
  BY <1>1, <1>2 DEF CopiesAsRead

-----------------------------------------------------------------------------
(* Why a message is gone.                                                  *)

\* The rows of agentpg_messages, those archived and those read to be archived.
Copies == log \cup archive \cup UNION {comp[c].todo : c \in Compactors}

\* All copies of a message have the same long results: what compactions read before
\* its content was there has none, and a message with results has them from the start.
SameResults ==
    /\ \A m \in log : Whole(m)
    /\ \A m \in Copies : m.id \in 1 .. count
    /\ \A m, n \in Copies : m.id = n.id => LongBlocks(m) = LongBlocks(n)

\* A compaction that makes a summary deletes what it tells of or what had no blocks;
\* one that makes none, what has a long result.
DoomedForReason(c) ==
    Working(c) =>
        IF comp[c].summing
        THEN comp[c].doomed \subseteq comp[c].covers \cup comp[c].blank
        ELSE /\ comp[c].doomed \subseteq comp[c].pruned
             /\ comp[c].doomed \subseteq Ids({m \in comp[c].todo \cup archive : LongBlocks(m) # {}})

\* What a compaction tells of is from its plan, and once its work is over the summary
\* is in the session.
CoversKept(c) ==
    /\ comp[c].pc \in {"before", "read"} => comp[c].covers = {}
    /\ comp[c].covers # {} => comp[c].summing
    /\ comp[c].covers # {} /\ ~Working(c) => \E m \in log : m.id = comp[c].written /\ m.summary

Reasons == faults = 0 => \A c \in Compactors : DoomedForReason(c) /\ CoversKept(c)

ToldInv == CompInv /\ SameResults /\ Reasons /\ NothingForgotten

\* A message rewritten has the same long results.
LEMMA RewriteKeepsResults ==
    ASSUME NEW m, NEW new, Rewrite(m, new), Whole(m)
    PROVE  Whole(new) /\ LongBlocks(new) = LongBlocks(m)
<1>1. new.body = m.body /\ (m.filled => new.filled)
  BY DEF Rewrite
<1>2. CASE m.filled
  BY <1>1, <1>2 DEF Whole, LongBlocks
<1>3. CASE ~m.filled
  <2>1. \A b \in m.body : b.kind # "result"
    BY <1>3 DEF Whole
  <2>2. {b \in m.body : b.kind = "result" /\ b.use \in LongUses} = {}
    BY <2>1
  <2> QED
    BY <1>1, <1>3, <2>1, <2>2 DEF Whole, LongBlocks
<1> QED
  BY <1>2, <1>3

\* What is archived or read to be was in the session, or was archived or read before.
LEMMA CopiesOfOld ==
    ASSUME MessagesOK, CompactorsOK, [CompNext]_<<logVars, compVars>>
    PROVE  archive' \cup UNION {comp'[c].todo : c \in Compactors} \subseteq Copies
<1> USE DEF CompactorsOK, CompRow, Copies
<1>1. CASE UNCHANGED compVars
  BY <1>1 DEF compVars
<1>2. ASSUME NEW e \in Compactors, CompactStep(e)
      PROVE  archive' \cup UNION {comp'[c].todo : c \in Compactors} \subseteq Copies
  <2>1. CASE PlanCompaction(e)
    <3>1. UNCHANGED archive
      BY <2>1 DEF PlanCompaction
    <3>2. Compactable(log) \subseteq log
      BY DEF Compactable
    <3>3. ASSUME NEW c \in Compactors PROVE comp'[c].todo \subseteq Copies
      <4>1. CASE Move(e, "done")
        BY <4>1 DEF Move
      <4>2. ASSUME NEW t, comp' = [comp EXCEPT ![e] = Planned(t)] PROVE comp'[c].todo \subseteq Copies
        BY <4>2, <3>2 DEF Planned
      <4> QED
        BY <2>1, <4>1, <4>2 DEF PlanCompaction, Planned
    <3> QED
      BY <3>1, <3>3
  <2>2. CASE ArchiveMessage(e)
    BY <2>2 DEF ArchiveMessage, Oldest
  <2>3. CASE ~PlanCompaction(e) /\ ~ArchiveMessage(e)
    BY <1>2, <2>3 DEF CompactStep, CheckNeed, CallCompact, CreateEvent, ArchiveFails, DeleteMessage,
                      DeleteFails, CreateSummary, FillSummary, SummaryFails, UpdateCount, GiveUp, Move, Fault
  <2> QED
    BY <2>1, <2>2, <2>3
<1> QED
  BY <1>1, <1>2 DEF CompNext, MarkPreserved

\* Every step keeps the results of the copies.
LEMMA ResultsStep ==
    ASSUME CompInv, SameResults, [CompNext]_<<logVars, compVars>>
    PROVE  SameResults'
<1>0. CompTypeOK /\ MessagesOK /\ CompactorsOK
  BY TypeParts DEF CompInv
<1> DEFINE rest == archive \cup UNION {comp[c].todo : c \in Compactors}
<1>1. Copies = log \cup rest /\ rest' \subseteq Copies /\ Copies' = log' \cup rest'
  BY <1>0, CopiesOfOld DEF Copies
<1> HIDE DEF rest
<1>2. count \in Nat
  BY <1>0 DEF MessagesOK
<1>3. CASE log' \subseteq log /\ UNCHANGED count
  BY <1>1, <1>3 DEF SameResults
<1>4. ASSUME NEW m \in Message, Insert(m), Whole(m) PROVE SameResults'
  <2> DEFINE new == [m EXCEPT !.id = count + 1]
  <2>1. new.id = count + 1 /\ Whole(new)
    BY <1>4 DEF Whole, Message
  <2>2. log' = log \cup {new} /\ count' = count + 1
    BY <1>4 DEF Insert
  <2> HIDE DEF new
  <2>3. \A o \in Copies' : o \in Copies \/ o = new
    BY <1>1, <2>2
  <2>4. \A o \in Copies : o.id \in 1 .. count
    BY DEF SameResults
  <2>5. \A o \in Copies' : o.id \in 1 .. count'
    BY <1>2, <2>1, <2>2, <2>3, <2>4
  <2>6. \A o \in Copies : o.id # new.id
    BY <1>2, <2>1, <2>4
  <2>7. \A o, n \in Copies' : o.id = n.id => LongBlocks(o) = LongBlocks(n)
    BY <2>3, <2>6 DEF SameResults
  <2> QED
    BY <2>1, <2>2, <2>5, <2>7 DEF SameResults
<1>5. ASSUME UNCHANGED count, NEW m \in log, NEW new \in Message, Rewrite(m, new) PROVE SameResults'
  <2>1. Whole(new) /\ LongBlocks(new) = LongBlocks(m)
    BY <1>5, RewriteKeepsResults DEF SameResults
  <2>2. log' = (log \ {m}) \cup {new} /\ new.id = m.id
    BY <1>5 DEF Rewrite
  <2>3. \A o \in Copies' : \E n \in Copies : n.id = o.id /\ LongBlocks(n) = LongBlocks(o)
    BY <1>1, <2>1, <2>2
  <2> QED
    BY <1>5, <2>1, <2>2, <2>3 DEF SameResults
<1>6. ASSUME NEW c \in Compactors, DeleteMessage(c) PROVE log' \subseteq log /\ UNCHANGED count
  BY <1>6 DEF DeleteMessage
<1> QED
  BY <1>0, <1>3, <1>4, <1>5, <1>6, CompNextShape DEF LogShape

\* A summary stays: no compaction deletes one.
LEMMA SummariesStay ==
    ASSUME CompInv, [CompNext]_<<logVars, compVars>>, NEW m \in log, m.summary
    PROVE  \E n \in log' : n.id = m.id /\ n.summary
<1>0. CompTypeOK /\ MessagesOK
  BY TypeParts DEF CompInv
<1>1. ASSUME NEW n \in Message, Insert(n) PROVE m \in log'
  BY <1>1 DEF Insert
<1>2. ASSUME NEW o \in log, NEW new \in Message, Rewrite(o, new)
      PROVE  \E n \in log' : n.id = m.id /\ n.summary
  BY <1>2 DEF Rewrite
<1>3. ASSUME NEW c \in Compactors, DeleteMessage(c) PROVE m \in log'
  <2>1. PICK x \in comp[c].doomed : log' = {n \in log : n.id # x}
    BY <1>3 DEF DeleteMessage, OldestId
  <2>2. m.id # x
    BY <1>3, <2>1 DEF CompInv, DoomedOld, DeleteMessage, Working
  <2> QED
    BY <2>1, <2>2
<1> QED
  BY <1>0, <1>1, <1>2, <1>3, CompNextShape DEF LogShape

\* A failure is not forgotten, and what was archived stays.
LEMMA FaultsStay ==
    ASSUME CompactorsOK, [CompNext]_<<logVars, compVars>>
    PROVE  (faults' = 0 => faults = 0) /\ archive \subseteq archive'
<1> USE KeepAssumption DEF CompactorsOK
<1>1. CASE UNCHANGED compVars
  BY <1>1 DEF compVars
<1>2. ASSUME NEW c \in Compactors, CompactStep(c)
      PROVE  (faults' = 0 => faults = 0) /\ archive \subseteq archive'
  BY <1>2 DEF CompactStep, CheckNeed, CallCompact, PlanCompaction, CreateEvent, ArchiveMessage, ArchiveFails,
              DeleteMessage, DeleteFails, CreateSummary, FillSummary, SummaryFails, UpdateCount, GiveUp, Fault
<1> QED
  BY <1>1, <1>2 DEF CompNext, MarkPreserved

\* A plan has a reason for what it dooms.
LEMMA PlanReasons ==
    ASSUME NEW P, P \subseteq Message, NEW t
    PROVE  /\ IF Execute(P, t).summing
              THEN Execute(P, t).doomed \subseteq Execute(P, t).covers \cup (Ids(P) \ Told(P))
              ELSE Execute(P, t).doomed \subseteq Ids(Prunable(P))
           /\ Execute(P, t).covers # {} => Execute(P, t).summing
<1> DEFINE Good(plan) ==
             /\ IF plan.summing THEN plan.doomed \subseteq plan.covers \cup (Ids(P) \ Told(P))
                ELSE plan.doomed \subseteq Ids(Prunable(P))
             /\ plan.covers # {} => plan.summing
<1>1. Good(SummarizationExecute(P))
  BY DEF SummarizationExecute
<1>2. CASE t <= TargetTokens + Saved(P)
  <2> DEFINE short == [doomed |-> Ids(Prunable(P)), covers |-> {}, summing |-> FALSE]
  <2>1. Good(short)
    OBVIOUS
  <2>2. HybridExecute(P, t) = short
    BY <1>2, Zenon DEF HybridExecute
  <2> QED
    BY <1>1, <2>1, <2>2 DEF Execute
<1>3. CASE ~(t <= TargetTokens + Saved(P))
  <2>1. HybridExecute(P, t) = SummarizationExecute(P)
    BY <1>3, Zenon DEF HybridExecute
  <2> QED
    BY <1>1, <2>1 DEF Execute
<1> QED
  BY <1>2, <1>3

\* A compaction that plans has told of nothing before, and dooms for a reason.
LEMMA PlanHasReasons ==
    ASSUME MessagesOK, CompactorsOK, NEW c \in Compactors, PlanCompaction(c), CoversKept(c)
    PROVE  DoomedForReason(c)' /\ CoversKept(c)'
<1> USE DEF CompactorsOK
<1>1. CASE Move(c, "done")
  BY <1>1 DEF Move, DoomedForReason, CoversKept, Working, PlanCompaction, CompRow
<1>2. ASSUME NEW t, comp' = [comp EXCEPT ![c] = Planned(t)] PROVE DoomedForReason(c)' /\ CoversKept(c)'
  <2> DEFINE P == Compactable(log)
             plan == Execute(P, t)
  <2>1. P \subseteq Message
    BY DEF Compactable, MessagesOK
  <2>2. /\ IF plan.summing THEN plan.doomed \subseteq plan.covers \cup (Ids(P) \ Told(P))
           ELSE plan.doomed \subseteq Ids(Prunable(P))
        /\ plan.covers # {} => plan.summing
    BY <2>1, PlanReasons
  <2>3. comp'[c] = Planned(t)
    BY <1>2
  <2>4. /\ comp'[c].pc = "event" /\ comp'[c].todo = P /\ comp'[c].doomed = plan.doomed
        /\ comp'[c].covers = plan.covers /\ comp'[c].blank = Ids(P) \ Told(P)
        /\ ~plan.summing => comp'[c].pruned = Ids(Prunable(P))
        /\ comp'[c].summing = plan.summing
    BY <2>3 DEF Planned
  <2>5. Prunable(P) \subseteq {m \in P \cup archive' : LongBlocks(m) # {}}
    BY DEF Prunable
  <2>6. Ids(Prunable(P)) \subseteq Ids({m \in P \cup archive' : LongBlocks(m) # {}})
    BY <2>5 DEF Ids
  <2> HIDE DEF P, plan
  <2>7. DoomedForReason(c)'
    BY <2>2, <2>4, <2>6 DEF DoomedForReason
  <2>8. CoversKept(c)'
    BY <2>2, <2>4 DEF CoversKept, Working
  <2> QED
    BY <2>7, <2>8
<1> QED
  BY <1>1, <1>2 DEF PlanCompaction, Planned

\* A message archived twice is archived with its results.
LEMMA ArchivedAlike ==
    ASSUME SameResults, CompactorsOK, NEW c \in Compactors, ArchiveMessage(c), comp[c].pc = "work"
    PROVE  Ids({m \in comp[c].todo \cup archive : LongBlocks(m) # {}})
             \subseteq Ids({m \in comp'[c].todo \cup archive' : LongBlocks(m) # {}})
<1> SUFFICES ASSUME NEW m \in comp[c].todo \cup archive, LongBlocks(m) # {}
             PROVE  \E n \in comp'[c].todo \cup archive' : n.id = m.id /\ LongBlocks(n) # {}
  BY DEF Ids
<1>1. PICK o \in comp[c].todo :
        /\ archive' = IF o.id \in Ids(archive) THEN archive ELSE archive \cup {o}
        /\ comp' = [comp EXCEPT ![c].todo = @ \ {o}]
  BY DEF ArchiveMessage, Oldest
<1>2. comp'[c].todo = comp[c].todo \ {o}
  BY <1>1 DEF CompactorsOK, CompRow
<1>3. CASE m # o \/ m \in archive
  BY <1>1, <1>2, <1>3
<1>4. CASE m = o /\ o.id \notin Ids(archive)
  BY <1>1, <1>4
<1>5. CASE m = o /\ o.id \in Ids(archive)
  <2>1. PICK n \in archive : n.id = o.id
    BY <1>5 DEF Ids
  <2>2. n \in Copies /\ o \in Copies
    BY <1>1, <2>1 DEF Copies
  <2>3. LongBlocks(n) = LongBlocks(o)
    BY <2>1, <2>2 DEF SameResults
  <2> QED
    BY <1>1, <1>5, <2>1, <2>3
<1> QED
  BY <1>3, <1>4, <1>5

\* What a compaction still has to delete it has a reason for.
LEMMA OwnDoomed ==
    ASSUME CompInv, SameResults, NEW c \in Compactors, CompactStep(c), ~PlanCompaction(c),
           faults' = 0, faults = 0, DoomedForReason(c)
    PROVE  DoomedForReason(c)'
<1>0. CompactorsOK
  BY TypeParts DEF CompInv
<1> USE <1>0 DEF CompactorsOK, CompRow
<1> SUFFICES ASSUME Working(c)'
             PROVE  IF comp'[c].summing
                    THEN comp'[c].doomed \subseteq comp'[c].covers \cup comp'[c].blank
                    ELSE /\ comp'[c].doomed \subseteq comp'[c].pruned
                         /\ comp'[c].doomed
                              \subseteq Ids({m \in comp'[c].todo \cup archive' : LongBlocks(m) # {}})
  BY DEF DoomedForReason
<1>1. CASE CreateEvent(c) \/ DeleteMessage(c)
  <2>1. /\ Working(c) /\ comp'[c].doomed \subseteq comp[c].doomed /\ comp'[c].summing = comp[c].summing
        /\ comp'[c].covers = comp[c].covers /\ comp'[c].blank = comp[c].blank
        /\ comp'[c].pruned = comp[c].pruned
        /\ comp'[c].todo = comp[c].todo /\ archive' = archive
    BY <1>1 DEF CreateEvent, DeleteMessage, Move, Working
  <2> QED
    BY <2>1 DEF DoomedForReason
<1>2. CASE ArchiveMessage(c)
  <2>1. /\ Working(c) /\ comp'[c].doomed = comp[c].doomed /\ comp'[c].summing = comp[c].summing
        /\ comp'[c].covers = comp[c].covers /\ comp'[c].blank = comp[c].blank
        /\ comp'[c].pruned = comp[c].pruned
    BY <1>2 DEF ArchiveMessage, Working
  <2>2. Ids({m \in comp[c].todo \cup archive : LongBlocks(m) # {}})
          \subseteq Ids({m \in comp'[c].todo \cup archive' : LongBlocks(m) # {}})
    BY <1>2, ArchivedAlike DEF ArchiveMessage
  <2> QED
    BY <2>1, <2>2 DEF DoomedForReason
<1>3. CreateEvent(c) \/ DeleteMessage(c) \/ ArchiveMessage(c)
  BY DEF CompactStep, CheckNeed, CallCompact, ArchiveFails, DeleteFails, CreateSummary, FillSummary, SummaryFails,
         UpdateCount, GiveUp, Move, Fault, Working
<1> QED
  BY <1>1, <1>2, <1>3

\* Without a failure a compaction that tells of something ends with its summary.
LEMMA OwnCovers ==
    ASSUME CompInv, NEW c \in Compactors, CompactStep(c), ~PlanCompaction(c),
           faults' = 0, faults = 0, CoversKept(c)
    PROVE  CoversKept(c)'
<1>0. CompactorsOK /\ MessagesOK /\ CompTypeOK
  BY TypeParts DEF CompInv
<1> USE <1>0 DEF CompactorsOK, CompRow
<1>1. /\ comp'[c].covers = comp[c].covers /\ comp'[c].blank = comp[c].blank
      /\ comp'[c].summing = comp[c].summing
      /\ comp'[c].pc \in {"before", "read"} => comp[c].pc \in {"before", "read"}
  BY OwnRow
<1>2. ASSUME comp[c].covers # {}, ~Working(c)'
      PROVE  \E m \in log' : m.id = comp'[c].written /\ m.summary
  <2>1. CASE CreateSummary(c)
    <3> DEFINE new == [[Fresh(NoRun, "assistant", {Text}) EXCEPT !.summary = TRUE] EXCEPT !.id = count + 1]
    <3>1. new \in log'
      BY <2>1 DEF CreateSummary, Insert
    <3>2. new.id = count + 1 /\ new.summary
      BY DEF Fresh
    <3>3. comp'[c].written = count + 1
      BY <2>1 DEF CreateSummary
    <3> HIDE DEF new
    <3> QED
      BY <3>1, <3>2, <3>3
  <2>2. CASE FillSummary(c) \/ UpdateCount(c)
    <3>1. comp'[c].written = comp[c].written /\ ~Working(c)
      BY <1>2, <2>2 DEF FillSummary, UpdateCount, Deleted, Move, Working, CoversKept
    <3>2. PICK m \in log : m.id = comp[c].written /\ m.summary
      BY <1>2, <3>1 DEF CoversKept
    <3>3. [CompNext]_<<logVars, compVars>>
      BY DEF CompNext
    <3> QED
      BY <3>1, <3>2, <3>3, SummariesStay
  <2>3. comp[c].pc \notin {"before", "read"}
    BY <1>2 DEF CoversKept
  <2>4. CreateSummary(c) \/ FillSummary(c) \/ UpdateCount(c)
    <3>1. ~Fault
      BY DEF Fault
    <3>2. ~CheckNeed(c) /\ ~CallCompact(c)
      BY <2>3 DEF CheckNeed, CallCompact, MayBegin
    <3>3. ~CreateEvent(c) /\ ~ArchiveMessage(c) /\ ~DeleteMessage(c)
      BY <1>2 DEF CreateEvent, ArchiveMessage, DeleteMessage, Move, Working
    <3> QED
      BY <3>1, <3>2, <3>3 DEF CompactStep, ArchiveFails, DeleteFails, SummaryFails, GiveUp
  <2> QED
    BY <2>1, <2>2, <2>4
<1> QED
  BY <1>1, <1>2 DEF CoversKept

\* Every step keeps the reasons.
LEMMA ReasonsStep ==
    ASSUME CompInv, SameResults, Reasons, [CompNext]_<<logVars, compVars>>
    PROVE  Reasons'
<1>0. CompactorsOK /\ MessagesOK
  BY TypeParts DEF CompInv
<1> SUFFICES ASSUME faults' = 0, NEW c \in Compactors PROVE DoomedForReason(c)' /\ CoversKept(c)'
  BY DEF Reasons
<1>1. faults = 0 /\ archive \subseteq archive' /\ DoomedForReason(c) /\ CoversKept(c)
  BY <1>0, FaultsStay DEF Reasons
<1>2. CASE PlanCompaction(c)
  BY <1>0, <1>1, <1>2, PlanHasReasons
<1>3. CASE CompactStep(c) /\ ~PlanCompaction(c)
  BY <1>1, <1>3, OwnDoomed, OwnCovers
<1>4. CASE ~CompactStep(c)
  <2>1. comp'[c] = comp[c]
    BY <1>0, <1>4, OthersLeave
  <2>2. Ids({m \in comp[c].todo \cup archive : LongBlocks(m) # {}})
          \subseteq Ids({m \in comp[c].todo \cup archive' : LongBlocks(m) # {}})
    BY <1>1 DEF Ids
  <2>3. DoomedForReason(c)'
    BY <1>1, <2>1, <2>2 DEF DoomedForReason, Working
  <2>4. CoversKept(c)'
    BY <1>1, <2>1, SummariesStay DEF CoversKept, Working
  <2> QED
    BY <2>3, <2>4
<1> QED
  BY <1>2, <1>3, <1>4 DEF CompactStep

\* Without a failure, a message that is told of stays told of, and one that was read
\* without blocks stays so.
LEMMA ToldStays ==
    ASSUME CompInv, SameResults, Reasons, [CompNext]_<<logVars, compVars>>, faults' = 0, NEW c \in Compactors
    PROVE  /\ comp[c].blank \subseteq comp'[c].blank /\ comp[c].pruned \subseteq comp'[c].pruned
           /\ comp[c].blank # {} => comp'[c].summing = comp[c].summing
           /\ comp[c].covers \subseteq comp'[c].covers
           /\ /\ comp[c].covers # {}
              /\ comp[c].pc = "work" \/ \E m \in log : m.id = comp[c].written /\ m.summary
              => comp'[c].pc = "work" \/ \E m \in log' : m.id = comp'[c].written /\ m.summary
<1>0. CompactorsOK
  BY TypeParts DEF CompInv
<1>1. CoversKept(c) /\ CoversKept(c)'
  BY <1>0, FaultsStay, ReasonsStep DEF Reasons
<1>2. CASE PlanCompaction(c)
  <2>1. comp[c].covers = {} /\ comp[c].blank = {} /\ comp[c].pruned = {}
    BY <1>1, <1>2 DEF PlanCompaction, CoversKept, CompInv, CopiesAsRead
  <2> QED
    BY <2>1
<1>3. CASE CompactStep(c) /\ ~PlanCompaction(c)
  <2>1. /\ comp'[c].covers = comp[c].covers /\ comp'[c].blank = comp[c].blank /\ comp'[c].pc # "event"
        /\ comp'[c].pruned = comp[c].pruned /\ comp'[c].summing = comp[c].summing
    BY <1>0, <1>3, OwnRow
  <2> QED
    BY <1>1, <2>1 DEF CoversKept, Working
<1>4. CASE ~CompactStep(c)
  BY <1>0, <1>4, OthersLeave, SummariesStay
<1> QED
  BY <1>2, <1>3, <1>4

\* A message that goes is told of, or it had no blocks when it was read, or the archive
\* has its long result.
LEMMA GoneForReason ==
    ASSUME CompInv, SameResults, Reasons, faults' = 0, faults = 0, NEW e \in Compactors, DeleteMessage(e),
           NEW id \in Ids(log), id \notin Ids(log')
    PROVE  \/ \E c \in Compactors : /\ id \in comp'[c].pruned
                                     /\ \E m \in archive' : m.id = id /\ LongBlocks(m) # {}
           \/ \E c \in Compactors : comp'[c].summing /\ id \in comp'[c].blank
           \/ \E c \in Compactors :
                 /\ id \in comp'[c].covers
                 /\ \/ comp'[c].pc = "work"
                    \/ \E m \in log' : m.id = comp'[c].written /\ m.summary
<1>0. CompactorsOK
  BY TypeParts DEF CompInv
<1>1. PICK x \in comp[e].doomed : log' = {m \in log : m.id # x}
  BY DEF DeleteMessage, OldestId
<1>2. id = x
  BY <1>1 DEF Ids
<1>3. /\ comp[e].pc = "work" /\ comp[e].todo = {} /\ archive' = archive
      /\ comp'[e].pc = "work" /\ comp'[e].covers = comp[e].covers /\ comp'[e].blank = comp[e].blank
      /\ comp'[e].pruned = comp[e].pruned /\ comp'[e].summing = comp[e].summing
  BY <1>0 DEF DeleteMessage, CompactorsOK, CompRow
<1>4. IF comp[e].summing
      THEN comp[e].doomed \subseteq comp[e].covers \cup comp[e].blank
      ELSE /\ comp[e].doomed \subseteq comp[e].pruned
           /\ comp[e].doomed \subseteq Ids({m \in comp[e].todo \cup archive : LongBlocks(m) # {}})
  BY <1>3 DEF Reasons, DoomedForReason, Working
<1>5. CASE comp[e].summing
  BY <1>1, <1>2, <1>3, <1>4, <1>5
<1>6. CASE ~comp[e].summing
  BY <1>1, <1>2, <1>3, <1>4, <1>6 DEF Ids
<1> QED
  BY <1>5, <1>6

\* Every step keeps it told why a message is gone.
LEMMA ForgottenStep ==
    ASSUME ToldInv, [CompNext]_<<logVars, compVars>>
    PROVE  NothingForgotten'
<1> DEFINE Why(id) ==
             \/ \E c \in Compactors : /\ id \in comp[c].pruned
                                       /\ \E m \in archive : m.id = id /\ LongBlocks(m) # {}
             \/ \E c \in Compactors : comp[c].summing /\ id \in comp[c].blank
             \/ \E c \in Compactors :
                   /\ id \in comp[c].covers
                   /\ \/ comp[c].pc = "work"
                      \/ \E m \in log : m.id = comp[c].written /\ m.summary
<1>0. CompTypeOK /\ MessagesOK /\ CompactorsOK /\ CompInv
  BY TypeParts DEF ToldInv, CompInv
<1> SUFFICES ASSUME faults' = 0, NEW id \in 1 .. count', id \notin Ids(log') PROVE Why(id)'
  BY DEF NothingForgotten
<1>1. faults = 0 /\ archive \subseteq archive'
  BY <1>0, FaultsStay
<1>2. ASSUME id \in 1 .. count, id \notin Ids(log) PROVE Why(id)'
  <2>1. Why(id)
    BY <1>1, <1>2 DEF ToldInv, NothingForgotten
  <2> QED
    BY <1>1, <2>1, ToldStays DEF ToldInv
<1>3. ASSUME NEW c \in Compactors, DeleteMessage(c), id \in Ids(log) PROVE Why(id)'
  BY <1>1, <1>3, GoneForReason DEF ToldInv
<1>4. CASE LogShape
  <2>1. ASSUME NEW m \in Message, Insert(m) PROVE id \in 1 .. count /\ id \notin Ids(log)
    <3>1. PICK new \in Message : new.id = count + 1 /\ log' = log \cup {new}
      BY <1>0, <2>1, InsertOK
    <3>2. count' = count + 1 /\ count \in Nat /\ id # new.id /\ id \notin Ids(log)
      BY <1>0, <2>1, <3>1 DEF Insert, MessagesOK, Ids
    <3> QED
      BY <3>1, <3>2
  <2>2. ASSUME UNCHANGED count, NEW m \in log, NEW new \in Message, Rewrite(m, new)
        PROVE  id \in 1 .. count /\ id \notin Ids(log)
    BY <2>2 DEF Rewrite, Ids
  <2>3. CASE UNCHANGED <<log, count>>
    BY <1>2, <2>3 DEF Ids
  <2> QED
    BY <1>2, <1>4, <2>1, <2>2, <2>3 DEF LogShape
<1>5. ASSUME NEW c \in Compactors, DeleteMessage(c) PROVE id \in 1 .. count
  BY <1>5 DEF DeleteMessage
<1> QED
  BY <1>0, <1>2, <1>3, <1>4, <1>5, CompNextShape

-----------------------------------------------------------------------------
(* Uses and results.                                                       *)

\* Messages have been deleted.
Missing == count > Cardinality(log)

\* A run is at a step of its turn only while it runs, and has no turn before it is one.
RunPhases ==
    \A r \in SessionRuns :
        /\ runs[r].at # "idle" => runs[r].state = "running"
        /\ runs[r].state = "none" \/ runs[r].at \in {"prompt", "prompting"} => runs[r].turn = 0

\* A use is of a turn its run has begun, and of an earlier one if the run is completed:
\* nothing of the last turn is "asked" then, as all that is of a turn just answered is.
UseRows ==
    \A u \in Uses : calls[u].state # "none" =>
        /\ calls[u].of \in SessionRuns
        /\ calls[u].turn \in 1 .. runs[calls[u].of].turn
        /\ calls[u].turn = runs[calls[u].of].turn =>
              /\ runs[calls[u].of].state # "completed"
              /\ runs[calls[u].of].at \in {"answering", "answered"} => calls[u].state = "asked"

\* The run that asked for it still owes its result.
Open(u) ==
    /\ calls[u].turn = runs[calls[u].of].turn
    /\ runs[calls[u].of].at \in {"answering", "answered"} \/ runs[calls[u].of].state = "pending_tools"

\* The run that asked for it went on after its result.
Past(u) ==
    \/ calls[u].turn < runs[calls[u].of].turn
    \/ runs[calls[u].of].state = "pending"
    \/ runs[calls[u].of].at = "ask"

\* A use is in a message of its run, which has its blocks when the run is settled and
\* is the run's last as long as the result is owed.
UseBlocks ==
    \A m \in log, u \in Uses : UseOf(u) \in m.body =>
        /\ calls[u].state # "none" /\ m.run = calls[u].of /\ m.role = "assistant"
        /\ ~m.filled =>
              /\ calls[u].turn = runs[m.run].turn
              /\ runs[m.run].at = "answering" \/ runs[m.run].state = "failed"
        /\ Open(u) => \A o \in log : o.run = m.run => o.id <= m.id

\* A result is in a message of the run as well.
ResultBlocks ==
    \A n \in log, u \in Uses : ResultOf(u) \in n.body =>
        calls[u].state # "none" /\ n.run = calls[u].of /\ n.role = "user" /\ n.filled

\* The run writes nothing between a use and its result.
Pairs ==
    \A m, n \in log, u \in Uses : UseOf(u) \in m.body /\ ResultOf(u) \in n.body =>
        /\ m.filled /\ m.id < n.id
        /\ \A o \in log : o.run = m.run => o.id <= m.id \/ n.id <= o.id

\* Unless it failed, a run has one message without blocks at most, and only between the
\* two statements that write it.
Unfilled ==
    \A m \in log : ~m.filled /\ m.run \in SessionRuns =>
        /\ runs[m.run].at \in {"prompting", "answering"} \/ runs[m.run].state = "failed"
        /\ runs[m.run].at \in {"prompting", "answering"} =>
              \A n \in log : n.run = m.run /\ ~n.filled => n = m

\* Uses and results that were written are in the session, unless messages are missing.
Written ==
    /\ Cardinality(log) <= count
    /\ \A u \in Uses : calls[u].state # "none" =>
          /\ Missing \/ \E m \in log : UseOf(u) \in m.body
          /\ Past(u) => Missing \/ \E n \in log : ResultOf(u) \in n.body

PairInv == RunPhases /\ UseRows /\ UseBlocks /\ ResultBlocks /\ Pairs /\ Unfilled /\ Written

\* Blocks of different kinds, or of different uses, are different.
LEMMA BlocksApart ==
    \A u, v : /\ UseOf(u) # ResultOf(v) /\ UseOf(u) # Text /\ ResultOf(u) # Text
              /\ UseOf(u) = UseOf(v) => u = v
              /\ ResultOf(u) = ResultOf(v) => u = v
<1> TAKE u, v
<1>1. UseOf(u).kind = "use" /\ ResultOf(v).kind = "result" /\ ResultOf(u).kind = "result" /\ Text.kind = "text"
  BY DEF UseOf, ResultOf, Text
<1>2. UseOf(u).use = u /\ UseOf(v).use = v /\ ResultOf(u).use = u /\ ResultOf(v).use = v
  BY DEF UseOf, ResultOf
<1> QED
  BY <1>1, <1>2

\* Every step keeps the count of the messages above their number, and what is missing
\* stays missing; so does what is deleted.
LEMMA MissingStays ==
    ASSUME MessagesOK, Cardinality(log) <= count, LogShape \/ \E c \in Compactors : DeleteMessage(c)
    PROVE  /\ Cardinality(log') <= count' /\ (Missing => Missing')
           /\ (\E c \in Compactors : DeleteMessage(c)) /\ log' # log => Missing'
<1>1. /\ count \in Nat /\ count' \in Nat /\ IsFiniteSet(log) /\ IsFiniteSet(log')
      /\ Cardinality(log) \in Nat /\ Cardinality(log') \in Nat
  BY MessagesStep, FS_CardinalityType DEF MessagesOK
<1>2. CASE UNCHANGED <<log, count>>
  BY <1>1, <1>2 DEF Missing, LogShape
<1>3. ASSUME NEW m \in Message, Insert(m) PROVE Cardinality(log') = Cardinality(log) + 1 /\ count' = count + 1
  <2>1. PICK new \in Message : new.id = count + 1 /\ log' = log \cup {new}
    BY <1>3, InsertOK
  <2>2. new \notin log
    BY <1>1, <2>1 DEF MessagesOK
  <2> QED
    BY <1>1, <1>3, <2>1, <2>2, FS_AddElement DEF Insert
<1>4. ASSUME NEW m \in log, NEW new \in Message, Rewrite(m, new) PROVE Cardinality(log') = Cardinality(log)
  <2>1. log' = (log \ {m}) \cup {new} /\ new.id = m.id
    BY <1>4 DEF Rewrite
  <2>2. new \notin log \ {m}
    BY <2>1 DEF MessagesOK
  <2>3. IsFiniteSet(log \ {m}) /\ Cardinality(log \ {m}) = Cardinality(log) - 1
    BY <1>1, FS_RemoveElement
  <2>4. Cardinality((log \ {m}) \cup {new}) = Cardinality(log \ {m}) + 1
    BY <2>2, <2>3, FS_AddElement
  <2> QED
    BY <1>1, <2>1, <2>3, <2>4
<1>5. ASSUME NEW c \in Compactors, DeleteMessage(c)
      PROVE  count' = count /\ Cardinality(log') <= Cardinality(log) /\ (log' # log => Cardinality(log') < Cardinality(log))
  <2>1. log' \subseteq log /\ count' = count
    BY <1>5 DEF DeleteMessage
  <2> QED
    BY <1>1, <2>1, FS_Subset
<1>6. CASE LogShape
  BY <1>1, <1>2, <1>3, <1>4, <1>5, <1>6 DEF LogShape, Missing
<1>7. CASE ~LogShape
  BY <1>1, <1>5, <1>7 DEF Missing
<1> QED
  BY <1>6, <1>7

\* What a step that writes no message may make of a run.
QuietRow(r) ==
    /\ runs'[r].turn = runs[r].turn
    /\ runs'[r].at \in {"prompting", "answering"} => runs'[r].at = runs[r].at
    /\ runs[r].at \in {"prompting", "answering"} => runs'[r].at = runs[r].at \/ runs'[r].state = "failed"
    /\ runs[r].state = "failed" => runs'[r].state = "failed"
    /\ runs'[r].at = "answered" => runs[r].at = "answered"
    /\ runs'[r].state = "pending_tools" => runs[r].state = "pending_tools" \/ runs[r].at = "answered"
    /\ runs'[r].state = "pending" => runs[r].state \in {"pending", "none"}
    /\ runs'[r].at = "ask" => runs[r].at = "ask" \/ runs[r].state = "pending"

\* And of the calls: none is asked for, and none changes its run or turn.
QuietCalls ==
    \A u \in Uses :
        /\ calls'[u].state # "none" <=> calls[u].state # "none"
        /\ calls[u].state # "none" => calls'[u].of = calls[u].of /\ calls'[u].turn = calls[u].turn

\* A step that writes no message keeps uses and results in order.
LEMMA QuietStep ==
    ASSUME MessagesOK, RunsOK, RunsOK', PairInv, UNCHANGED <<log, count>>, QuietCalls,
           \A r \in SessionRuns : QuietRow(r)
    PROVE  UseBlocks' /\ ResultBlocks' /\ Pairs' /\ Unfilled' /\ Written'
<1>1. ASSUME NEW u \in Uses, calls[u].state # "none"
      PROVE  (Open(u)' => Open(u)) /\ (Past(u)' => Past(u))
  <2> DEFINE r == calls[u].of
  <2>1. /\ r \in SessionRuns /\ calls'[u].of = r /\ calls'[u].turn = calls[u].turn
        /\ QuietRow(r) /\ runs[r].state # "none"
    <3>1. r \in SessionRuns /\ calls[u].turn \in 1 .. runs[r].turn
      BY <1>1 DEF PairInv, UseRows
    <3> QED
      BY <1>1, <3>1 DEF QuietCalls, PairInv, RunPhases
  <2> HIDE DEF r
  <2>2. Open(u) <=> /\ calls[u].turn = runs[r].turn
                    /\ runs[r].at \in {"answering", "answered"} \/ runs[r].state = "pending_tools"
    BY DEF Open, r
  <2>3. Past(u) <=> calls[u].turn < runs[r].turn \/ runs[r].state = "pending" \/ runs[r].at = "ask"
    BY DEF Past, r
  <2>4. Open(u)' => Open(u)
    BY <2>1, <2>2 DEF Open, QuietRow
  <2>5. Past(u)' => Past(u)
    BY <2>1, <2>3 DEF Past, QuietRow
  <2> QED
    BY <2>4, <2>5
<1>2. UseBlocks'
  <2> SUFFICES ASSUME NEW m \in log, NEW u \in Uses, UseOf(u) \in m.body
               PROVE  /\ calls'[u].state # "none" /\ m.run = calls'[u].of /\ m.role = "assistant"
                      /\ ~m.filled =>
                            /\ calls'[u].turn = runs'[m.run].turn
                            /\ runs'[m.run].at = "answering" \/ runs'[m.run].state = "failed"
                      /\ Open(u)' => \A o \in log : o.run = m.run => o.id <= m.id
    BY DEF UseBlocks
  <2>1. /\ calls[u].state # "none" /\ m.run = calls[u].of /\ m.role = "assistant"
        /\ ~m.filled =>
              /\ calls[u].turn = runs[m.run].turn
              /\ runs[m.run].at = "answering" \/ runs[m.run].state = "failed"
        /\ Open(u) => \A o \in log : o.run = m.run => o.id <= m.id
    BY DEF PairInv, UseBlocks
  <2>2. m.run \in SessionRuns
    BY <2>1 DEF PairInv, UseRows
  <2> QED
    BY <1>1, <2>1, <2>2 DEF QuietCalls, QuietRow
<1>3. ResultBlocks' /\ Pairs'
  BY DEF PairInv, ResultBlocks, Pairs, QuietCalls
<1>4. Unfilled'
  BY DEF PairInv, Unfilled, QuietRow
<1>5. Written'
  <2>1. Missing' <=> Missing
    BY DEF Missing
  <2> QED
    BY <1>1, <2>1 DEF PairInv, Written, QuietCalls
<1> QED
  BY <1>2, <1>3, <1>4, <1>5

\* The end of a run changes nothing of a call but that it ends.
LEMMA ParentToldRow ==
    ASSUME RunsOK, NEW r \in SessionRuns, NEW u \in Uses
    PROVE  /\ ParentTold(r)[u].of = calls[u].of /\ ParentTold(r)[u].turn = calls[u].turn
           /\ \/ ParentTold(r)[u].state = calls[u].state
              \/ calls[u].state = "running" /\ ParentTold(r)[u].state = "ended"
<1>1. calls[u] \in CallOfSession
  BY DEF RunsOK
<1>2. ParentTold(r)[u] = IF runs[r].asks = u /\ calls[u].state = "running"
                         THEN [calls[u] EXCEPT !.state = "ended"] ELSE calls[u]
  BY DEF ParentTold
<1>3. CASE runs[r].asks = u /\ calls[u].state = "running"
  BY <1>1, <1>2, <1>3 DEF CallOfSession
<1>4. CASE ~(runs[r].asks = u /\ calls[u].state = "running")
  BY <1>2, <1>4
<1> QED
  BY <1>3, <1>4

\* Steps of a run that write no message.
LEMMA QuietRun ==
    ASSUME RunsOK, PairInv, NEW r \in SessionRuns,
           Submit(r) \/ Take(r) \/ SettleTurn(r) \/ FailSessionRun(r) \/ LinkChild(r)
    PROVE  QuietCalls /\ (\A q \in SessionRuns : QuietRow(q)) /\ RunPhases' /\ UseRows'
<1> DEFINE Goal == QuietCalls /\ (\A q \in SessionRuns : QuietRow(q)) /\ RunPhases' /\ UseRows'
<1>0. RunPhases /\ UseRows
  BY DEF PairInv
<1>1. ASSUME Submit(r) PROVE Goal
  <2>1. UNCHANGED calls /\ runs[r].state = "none" /\ runs[r].at = "idle"
    BY <1>1, <1>0 DEF Submit, RunPhases
  <2>2. \A q \in SessionRuns : /\ runs'[q].at = runs[q].at /\ runs'[q].turn = runs[q].turn
                               /\ runs'[q].state = IF q = r THEN "pending" ELSE runs[q].state
    BY <1>1 DEF Submit, RunsOK, RunOfSession
  <2> QED
    BY <1>0, <2>1, <2>2 DEF QuietCalls, QuietRow, RunPhases, UseRows
<1>2. ASSUME Take(r) PROVE Goal
  <2>1. UNCHANGED calls /\ runs[r].state = "pending" /\ runs[r].at = "idle"
    BY <1>2, <1>0 DEF Take, RunPhases
  <2>2. \A q \in SessionRuns : /\ runs'[q].turn = runs[q].turn
                               /\ q # r => runs'[q].state = runs[q].state /\ runs'[q].at = runs[q].at
                               /\ q = r => runs'[q].state = "running" /\ runs'[q].at \in {"prompt", "ask"}
                               /\ q = r /\ runs'[q].at = "prompt" => runs[q].turn = 0
    BY <1>2 DEF Take, RunsOK, RunOfSession
  <2> QED
    BY <1>0, <2>1, <2>2 DEF QuietCalls, QuietRow, RunPhases, UseRows
<1>3. ASSUME SettleTurn(r) PROVE Goal
  <2> DEFINE asked == {u \in Uses : calls[u].of = r /\ calls[u].state = "asked"}
  <2>1. runs[r].at = "answered" /\ runs[r].state = "running"
    BY <1>3, <1>0 DEF SettleTurn, RunPhases
  <2>2. \A q \in SessionRuns :
          /\ runs'[q].turn = runs[q].turn
          /\ q # r => runs'[q].state = runs[q].state /\ runs'[q].at = runs[q].at
          /\ q = r => runs'[q].state = (IF asked = {} THEN "completed" ELSE "pending_tools") /\ runs'[q].at = "idle"
    <3>1. CASE asked = {}
      BY <1>3, <3>1 DEF SettleTurn, RunsOK, RunOfSession
    <3>2. CASE asked # {}
      BY <1>3, <3>2 DEF SettleTurn, RunsOK, RunOfSession
    <3> QED
      BY <3>1, <3>2
  <2>3. \A u \in Uses :
          /\ calls'[u].of = calls[u].of /\ calls'[u].turn = calls[u].turn
          /\ calls'[u].state = calls[u].state
             \/ (calls[u].state = "running" /\ calls'[u].state = "ended")
             \/ (u \in asked /\ calls'[u].state = "pending")
    <3>1. CASE asked = {}
      <4>1. calls' = ParentTold(r)
        BY <1>3, <3>1, Zenon DEF SettleTurn
      <4> QED
        BY <4>1, ParentToldRow
    <3>2. CASE asked # {}
      <4>1. calls' = [u \in Uses |-> IF u \in asked THEN [calls[u] EXCEPT !.state = "pending"] ELSE calls[u]]
        BY <1>3, <3>2, Zenon DEF SettleTurn
      <4>2. \A u \in Uses : calls[u] \in CallOfSession
        BY DEF RunsOK
      <4> HIDE DEF asked
      <4> QED
        BY <4>1, <4>2 DEF CallOfSession
    <3> QED
      BY <3>1, <3>2
  <2>4. \A u \in Uses : calls[u].of = r /\ calls[u].turn = runs[r].turn /\ calls[u].state # "none" => u \in asked
    BY <1>0, <2>1 DEF UseRows
  <2> HIDE DEF asked
  <2>5. \A u \in asked : calls[u].of = r /\ calls[u].state = "asked"
    BY DEF asked
  <2>6. QuietCalls
    BY <2>3, <2>5 DEF QuietCalls
  <2>7. \A q \in SessionRuns : QuietRow(q)
    BY <2>1, <2>2 DEF QuietRow
  <2>8. RunPhases'
    BY <1>0, <2>1, <2>2 DEF RunPhases
  <2>9. UseRows'
    BY <1>0, <2>2, <2>3, <2>4, <2>5 DEF UseRows
  <2> QED
    BY <2>6, <2>7, <2>8, <2>9
<1>4. ASSUME FailSessionRun(r) PROVE Goal
  <2>1. runs[r].state \notin {"none", "failed"}
    BY <1>4 DEF FailSessionRun, LiveStates
  <2>2. \A q \in SessionRuns : /\ runs'[q].turn = runs[q].turn
                               /\ q # r => runs'[q].state = runs[q].state /\ runs'[q].at = runs[q].at
                               /\ q = r => runs'[q].state = "failed" /\ runs'[q].at = "idle"
    BY <1>4 DEF FailSessionRun, RunsOK, RunOfSession
  <2>3. \A u \in Uses :
          /\ calls'[u].of = calls[u].of /\ calls'[u].turn = calls[u].turn
          /\ calls'[u].state = calls[u].state \/ (calls[u].state = "running" /\ calls'[u].state = "ended")
    BY <1>4, ParentToldRow DEF FailSessionRun
  <2> QED
    BY <1>0, <2>1, <2>2, <2>3 DEF QuietCalls, QuietRow, RunPhases, UseRows
<1>5. ASSUME LinkChild(r) PROVE Goal
  <2>1. UNCHANGED runs
    BY <1>5 DEF LinkChild
  <2>2. \A u \in Uses : /\ calls'[u].of = calls[u].of /\ calls'[u].turn = calls[u].turn
                        /\ calls'[u].state = calls[u].state
    BY <1>5 DEF LinkChild, RunsOK, CallOfSession
  <2> QED
    BY <1>0, <2>1, <2>2 DEF QuietCalls, QuietRow, RunPhases, UseRows
<1> QED
  BY <1>1, <1>2, <1>3, <1>4, <1>5

\* So do those of a call.
LEMMA QuietTool ==
    ASSUME RunsOK, PairInv, NEW u \in Uses, RunTool(u) \/ \E k \in Kids : Delegate(u, k)
    PROVE  QuietCalls /\ (\A q \in SessionRuns : QuietRow(q)) /\ RunPhases' /\ UseRows'
<1>0. RunPhases /\ UseRows
  BY DEF PairInv
<1>1. calls[u].state = "pending"
  BY DEF RunTool, Delegate
<1>2. \A v \in Uses : /\ calls'[v].of = calls[v].of /\ calls'[v].turn = calls[v].turn
                      /\ v # u => calls'[v].state = calls[v].state
                      /\ v = u => calls'[v].state \in {"running", "ended"}
  <2>1. \E e \in {"running", "ended"} : calls' = [calls EXCEPT ![u].state = e]
    BY DEF RunTool, Delegate
  <2> QED
    BY <2>1 DEF RunsOK, CallOfSession
<1>3. \A q \in SessionRuns :
        /\ runs'[q].turn = runs[q].turn /\ runs'[q].at = runs[q].at
        /\ runs'[q].state = runs[q].state \/ (runs[q].state = "none" /\ runs'[q].state = "pending")
  <2>1. CASE RunTool(u)
    BY <2>1 DEF RunTool
  <2>2. ASSUME NEW k \in Kids, Delegate(u, k)
        PROVE  /\ runs[k].state = "none" /\ k \in SessionRuns
               /\ runs' = [runs EXCEPT ![k].state = "pending", ![k].asks = u]
    BY <2>2 DEF Delegate, SessionRuns
  <2>3. CASE \E k \in Kids : Delegate(u, k)
    <3>1. PICK k \in SessionRuns :
            runs[k].state = "none" /\ runs' = [runs EXCEPT ![k].state = "pending", ![k].asks = u]
      BY <2>2, <2>3
    <3> QED
      BY <3>1 DEF RunsOK, RunOfSession
  <2> QED
    BY <2>1, <2>3
<1>4. QuietCalls
  BY <1>1, <1>2 DEF QuietCalls
<1>5. \A q \in SessionRuns : QuietRow(q)
  BY <1>0, <1>3 DEF QuietRow, RunPhases
<1>6. RunPhases'
  BY <1>0, <1>3 DEF RunPhases
<1>7. UseRows'
  BY <1>0, <1>1, <1>2, <1>3 DEF UseRows
<1> QED
  BY <1>4, <1>5, <1>6, <1>7

\* What a message `new' may hold that is inserted, and what the step may make of runs
\* and calls: its run owes nothing any more, or what it just asked for.
InsertFits(new) ==
    /\ \A u \in Uses : calls[u].state # "none" =>
          /\ calls'[u].state # "none" /\ calls'[u].of = calls[u].of /\ calls'[u].turn = calls[u].turn
          /\ Open(u)' => Open(u) /\ calls[u].of # new.run
    /\ \A q \in SessionRuns \ {new.run} : runs'[q] = runs[q]
    /\ new.run \in SessionRuns =>
          /\ \A m \in log : m.run = new.run => m.filled
          /\ ~new.filled => runs'[new.run].at \in {"prompting", "answering"}
    /\ \A u \in Uses : UseOf(u) \in new.body =>
          /\ calls'[u].state # "none" /\ new.run = calls'[u].of /\ new.role = "assistant"
          /\ calls'[u].turn = runs'[new.run].turn /\ runs'[new.run].at = "answering"
          /\ \A n \in log : ResultOf(u) \notin n.body
          /\ ResultOf(u) \notin new.body
    /\ \A u \in Uses : ResultOf(u) \in new.body =>
          /\ calls'[u].state # "none" /\ new.run = calls'[u].of /\ new.role = "user" /\ new.filled
          /\ \A m \in log : UseOf(u) \in m.body => m.filled /\ \A o \in log : o.run = m.run => o.id <= m.id
    /\ \A u \in Uses : calls'[u].state # "none" =>
          /\ calls[u].state # "none" \/ UseOf(u) \in new.body
          /\ Past(u)' => (calls[u].state # "none" /\ Past(u)) \/ ResultOf(u) \in new.body

\* Such a message keeps uses and results in order.
LEMMA InsertStep ==
    ASSUME MessagesOK, PairInv, NEW new, log' = log \cup {new}, new.id = count + 1, count' = count + 1,
           InsertFits(new), Cardinality(log') <= count', Missing => Missing'
    PROVE  UseBlocks' /\ ResultBlocks' /\ Pairs' /\ Unfilled' /\ Written'
<1>1. count \in Nat /\ \A o \in log : o.id \in 1 .. count
  BY DEF MessagesOK
<1>2. UseBlocks'
  <2> SUFFICES ASSUME NEW m \in log', NEW u \in Uses, UseOf(u) \in m.body
               PROVE  /\ calls'[u].state # "none" /\ m.run = calls'[u].of /\ m.role = "assistant"
                      /\ ~m.filled =>
                            /\ calls'[u].turn = runs'[m.run].turn
                            /\ runs'[m.run].at = "answering" \/ runs'[m.run].state = "failed"
                      /\ Open(u)' => \A o \in log' : o.run = m.run => o.id <= m.id
    BY DEF UseBlocks
  <2>1. CASE m \in log
    <3>1. /\ calls[u].state # "none" /\ m.run = calls[u].of /\ m.role = "assistant"
          /\ ~m.filled =>
                /\ calls[u].turn = runs[m.run].turn
                /\ runs[m.run].at = "answering" \/ runs[m.run].state = "failed"
          /\ Open(u) => \A o \in log : o.run = m.run => o.id <= m.id
      BY <2>1 DEF PairInv, UseBlocks
    <3>2. m.run \in SessionRuns
      BY <3>1 DEF PairInv, UseRows
    <3>3. ~m.filled => runs'[m.run] = runs[m.run]
      BY <2>1, <3>2 DEF InsertFits
    <3>4. Open(u)' => Open(u) /\ m.run # new.run
      BY <3>1 DEF InsertFits
    <3> QED
      BY <3>1, <3>3, <3>4 DEF InsertFits
  <2>2. CASE m = new
    <3>1. \A o \in log' : o.id <= m.id
      BY <1>1, <2>2
    <3> QED
      BY <2>2, <3>1 DEF InsertFits
  <2> QED
    BY <2>1, <2>2
<1>3. ResultBlocks'
  <2> SUFFICES ASSUME NEW n \in log', NEW u \in Uses, ResultOf(u) \in n.body
               PROVE  calls'[u].state # "none" /\ n.run = calls'[u].of /\ n.role = "user" /\ n.filled
    BY DEF ResultBlocks
  <2> QED
    BY DEF InsertFits, PairInv, ResultBlocks
<1>4. Pairs'
  <2> SUFFICES ASSUME NEW m \in log', NEW n \in log', NEW u \in Uses,
                      UseOf(u) \in m.body, ResultOf(u) \in n.body
               PROVE  /\ m.filled /\ m.id < n.id
                      /\ \A o \in log' : o.run = m.run => o.id <= m.id \/ n.id <= o.id
    BY DEF Pairs
  <2>1. CASE m \in log /\ n \in log
    BY <1>1, <2>1 DEF PairInv, Pairs
  <2>2. CASE m \in log /\ n = new
    BY <1>1, <2>2 DEF InsertFits
  <2>3. m # new
    BY DEF InsertFits
  <2> QED
    BY <2>1, <2>2, <2>3
<1>5. Unfilled'
  <2> SUFFICES ASSUME NEW m \in log', ~m.filled, m.run \in SessionRuns
               PROVE  /\ runs'[m.run].at \in {"prompting", "answering"} \/ runs'[m.run].state = "failed"
                      /\ runs'[m.run].at \in {"prompting", "answering"} =>
                            \A n \in log' : n.run = m.run /\ ~n.filled => n = m
    BY DEF Unfilled
  <2>1. CASE m.run = new.run
    BY <2>1 DEF InsertFits
  <2>2. CASE m.run # new.run
    <3>1. m \in log /\ runs'[m.run] = runs[m.run]
      BY <2>2 DEF InsertFits
    <3> QED
      BY <2>2, <3>1 DEF PairInv, Unfilled
  <2> QED
    BY <2>1, <2>2
<1>6. Written'
  BY DEF PairInv, Written, InsertFits
<1> QED
  BY <1>2, <1>3, <1>4, <1>5, <1>6

\* The prompt is a run's first message.
LEMMA PromptFits ==
    ASSUME RunsOK, PairInv, NEW r \in SessionRuns, InsertPrompt(r), NEW new,
           new.run = r, new.body = {Text}
    PROVE  InsertFits(new) /\ RunPhases' /\ UseRows'
<1>0. RunPhases /\ UseRows /\ Unfilled
  BY DEF PairInv
<1>1. UNCHANGED calls /\ runs[r].at = "prompt" /\ runs[r].state = "running"
  BY <1>0 DEF InsertPrompt, RunPhases
<1>2. \A q \in SessionRuns : /\ q # r => runs'[q] = runs[q]
                             /\ runs'[q].state = runs[q].state /\ runs'[q].turn = runs[q].turn
                             /\ q = r => runs'[q].at = "prompting"
  BY DEF InsertPrompt, RunsOK, RunOfSession
<1>3. ASSUME NEW u \in Uses, calls[u].state # "none"
      PROVE  (Open(u)' => Open(u) /\ calls[u].of # r) /\ (Past(u)' => Past(u))
  <2>1. calls[u].of \in SessionRuns
    BY <1>0, <1>3 DEF UseRows
  <2>2. CASE calls[u].of = r
    <3>1. calls[u].turn = runs[r].turn /\ runs[r].turn \in Nat => calls[u].turn \in 1 .. runs[r].turn
      BY <1>0, <1>3, <2>2 DEF UseRows
    <3> QED
      BY <1>0, <1>1, <1>2, <1>3, <2>2 DEF Open, Past
  <2>3. CASE calls[u].of # r
    BY <1>1, <1>2, <2>1, <2>3 DEF Open, Past
  <2> QED
    BY <2>2, <2>3
<1>4. \A m \in log : m.run = r => m.filled
  BY <1>0, <1>1 DEF Unfilled
<1>5. \A u \in Uses : UseOf(u) \notin new.body /\ ResultOf(u) \notin new.body
  BY BlocksApart
<1>6. InsertFits(new)
  BY <1>1, <1>2, <1>3, <1>4, <1>5 DEF InsertFits
<1>7. RunPhases'
  BY <1>0, <1>1, <1>2 DEF RunPhases
<1>8. UseRows'
  BY <1>0, <1>1, <1>2 DEF UseRows
<1> QED
  BY <1>6, <1>7, <1>8

\* The calls after the run's answer for turn t, and the answer's blocks.
AskedFor(r, U, t) ==
    [u \in Uses |-> IF u \in U THEN [calls[u] EXCEPT !.state = "asked", !.of = r, !.turn = t] ELSE calls[u]]

AnswerBody(U) == IF U = {} THEN {Text} ELSE {UseOf(u) : u \in U}

\* An answer asks only for what was not asked for before.
LEMMA AnswerFits ==
    ASSUME RunsOK, PairInv, NEW r \in SessionRuns, InsertAnswer(r), NEW new,
           NEW U, U \subseteq {u \in Uses : calls[u].state = "none"},
           new.run = r, new.role = "assistant", new.body = AnswerBody(U),
           NEW t \in Nat, t = runs[r].turn + 1, calls' = AskedFor(r, U, t)
    PROVE  InsertFits(new) /\ RunPhases' /\ UseRows'
<1>0. RunPhases /\ UseRows /\ Unfilled /\ ResultBlocks
  BY DEF PairInv
<1>1. runs[r].at = "ask" /\ runs[r].state = "running" /\ runs[r].turn \in Nat
  BY <1>0 DEF InsertAnswer, RunPhases, RunsOK, RunOfSession
<1>2. \A q \in SessionRuns : q # r => runs'[q] = runs[q]
  BY DEF InsertAnswer, RunsOK
<1>3. runs'[r].state = "running" /\ runs'[r].turn = t /\ runs'[r].at = "answering"
  <2>1. runs' = [runs EXCEPT ![r] = [runs[r] EXCEPT !.at = "answering", !.turn = runs[r].turn + 1]]
    BY DEF InsertAnswer
  <2>2. r \in DOMAIN runs /\ runs[r] \in RunOfSession
    BY DEF RunsOK
  <2> QED
    BY <1>1, <2>1, <2>2 DEF RunOfSession
<1>4. t \in 1 .. t /\ t > runs[r].turn
  <2>1. \A n \in Nat : n + 1 \in 1 .. n + 1 /\ n + 1 > n
    OBVIOUS
  <2> QED
    BY <1>1, <2>1, Zenon
<1>5. \A u \in U : calls'[u].state = "asked" /\ calls'[u].of = r /\ calls'[u].turn = t
  BY DEF AskedFor, RunsOK, CallOfSession
<1>6. \A u \in Uses \ U : calls'[u] = calls[u]
  BY DEF AskedFor
<1>7. \A u \in Uses : calls[u].state # "none" => u \notin U
  OBVIOUS
<1>8. ASSUME NEW u \in Uses, calls[u].state # "none"
      PROVE  (Open(u)' => Open(u) /\ calls[u].of # r) /\ (Past(u)' => Past(u))
  <2>1. calls[u].of \in SessionRuns /\ calls[u].turn \in 1 .. runs[calls[u].of].turn
    BY <1>0, <1>8 DEF UseRows
  <2>2. calls'[u] = calls[u]
    BY <1>6, <1>7, <1>8
  <2>3. CASE calls[u].of = r
    <3>1. calls[u].turn \in 1 .. runs[r].turn
      BY <2>1, <2>3
    <3>2. calls[u].turn # t
      BY <1>1, <1>4, <3>1
    <3> QED
      BY <1>1, <1>3, <2>2, <2>3, <3>2 DEF Open, Past
  <2>4. CASE calls[u].of # r
    BY <1>2, <2>1, <2>2, <2>4 DEF Open, Past
  <2> QED
    BY <2>3, <2>4
<1>9. \A u \in Uses : (UseOf(u) \in new.body <=> u \in U) /\ ResultOf(u) \notin new.body
  <2>1. CASE U = {}
    BY <2>1, BlocksApart DEF AnswerBody
  <2>2. CASE U # {}
    BY <2>2, BlocksApart DEF AnswerBody
  <2> QED
    BY <2>1, <2>2
<1>10. \A m \in log : m.run = r => m.filled
  BY <1>0, <1>1 DEF Unfilled
<1>11. \A u \in U : ~Past(u)'
  <2> TAKE u \in U
  <2>1. calls'[u].of = r /\ calls'[u].turn = t
    BY <1>5
  <2> QED
    BY <1>3, <1>4, <2>1 DEF Past
<1>12. InsertFits(new)
  <2>1. \A u \in Uses : calls[u].state # "none" =>
          /\ calls'[u].state # "none" /\ calls'[u].of = calls[u].of /\ calls'[u].turn = calls[u].turn
          /\ Open(u)' => Open(u) /\ calls[u].of # new.run
    BY <1>6, <1>7, <1>8
  <2>2. \A u \in Uses : UseOf(u) \in new.body =>
          /\ calls'[u].state # "none" /\ new.run = calls'[u].of /\ new.role = "assistant"
          /\ calls'[u].turn = runs'[new.run].turn /\ runs'[new.run].at = "answering"
          /\ \A n \in log : ResultOf(u) \notin n.body
          /\ ResultOf(u) \notin new.body
    BY <1>0, <1>3, <1>5, <1>7, <1>9 DEF ResultBlocks
  <2>3. \A u \in Uses : calls'[u].state # "none" =>
          /\ calls[u].state # "none" \/ UseOf(u) \in new.body
          /\ Past(u)' => (calls[u].state # "none" /\ Past(u)) \/ ResultOf(u) \in new.body
    BY <1>6, <1>8, <1>9, <1>11
  <2> QED
    BY <1>2, <1>3, <1>9, <1>10, <2>1, <2>2, <2>3 DEF InsertFits
<1>13. RunPhases'
  BY <1>0, <1>2, <1>3 DEF RunPhases
<1>14. UseRows'
  <2> SUFFICES ASSUME NEW u \in Uses, calls'[u].state # "none"
               PROVE  /\ calls'[u].of \in SessionRuns
                      /\ calls'[u].turn \in 1 .. runs'[calls'[u].of].turn
                      /\ calls'[u].turn = runs'[calls'[u].of].turn =>
                            /\ runs'[calls'[u].of].state # "completed"
                            /\ runs'[calls'[u].of].at \in {"answering", "answered"} => calls'[u].state = "asked"
    BY DEF UseRows
  <2>1. CASE u \in U
    BY <1>3, <1>4, <1>5, <2>1
  <2>2. CASE u \notin U
    <3>1. calls'[u] = calls[u] /\ calls[u].of \in SessionRuns /\ calls[u].turn \in 1 .. runs[calls[u].of].turn
      BY <1>0, <1>6, <2>2 DEF UseRows
    <3>2. CASE calls[u].of = r
      <4>1. calls[u].turn \in 1 .. runs[r].turn
        BY <3>1, <3>2
      <4>2. calls[u].turn \in 1 .. t /\ calls[u].turn # t
        BY <1>1, <1>4, <4>1
      <4> QED
        BY <1>3, <3>1, <3>2, <4>2
    <3>3. CASE calls[u].of # r
      BY <1>0, <1>2, <3>1, <3>3 DEF UseRows
    <3> QED
      BY <3>2, <3>3
  <2> QED
    BY <2>1, <2>2
<1> QED
  BY <1>12, <1>13, <1>14

\* The results of a turn follow the message that asked for them.
LEMMA ResultsFit ==
    ASSUME MessagesOK, RunsOK, PairInv, NEW r \in SessionRuns, ContinueTurn(r), NEW new,
           new.run = r, new.role = "user", new.filled,
           new.body = {ResultOf(u) : u \in {v \in Uses : calls[v].of = r /\ calls[v].turn = runs[r].turn}},
           \A u \in Uses : calls[u].of = r /\ calls[u].turn = runs[r].turn => calls[u].state = "ended"
    PROVE  InsertFits(new) /\ RunPhases' /\ UseRows'
<1>0. RunPhases /\ UseRows /\ Unfilled /\ UseBlocks
  BY DEF PairInv
<1>1. UNCHANGED calls /\ runs[r].state = "pending_tools" /\ runs[r].at = "idle"
  BY <1>0 DEF ContinueTurn, RunPhases
<1>2. \A q \in SessionRuns : /\ q # r => runs'[q] = runs[q]
                             /\ runs'[q].at = runs[q].at /\ runs'[q].turn = runs[q].turn
                             /\ q = r => runs'[q].state = "pending"
  BY DEF ContinueTurn, RunsOK, RunOfSession
<1>3. \A u \in Uses : /\ UseOf(u) \notin new.body
                      /\ ResultOf(u) \in new.body <=> calls[u].of = r /\ calls[u].turn = runs[r].turn
  BY BlocksApart
<1>4. ASSUME NEW u \in Uses, calls[u].state # "none"
      PROVE  (Open(u)' => Open(u) /\ calls[u].of # r) /\ (Past(u)' => Past(u) \/ ResultOf(u) \in new.body)
  <2>1. calls[u].of \in SessionRuns /\ calls[u].turn \in 1 .. runs[calls[u].of].turn
    BY <1>0, <1>4 DEF UseRows
  <2>2. CASE calls[u].of = r
    <3>1. ~Open(u)'
      BY <1>1, <1>2, <2>2 DEF Open
    <3>2. calls[u].turn < runs[r].turn \/ calls[u].turn = runs[r].turn
      BY <2>1, <2>2 DEF RunsOK, RunOfSession
    <3> QED
      BY <1>3, <2>2, <3>1, <3>2 DEF Past
  <2>3. CASE calls[u].of # r
    BY <1>1, <1>2, <2>1, <2>3 DEF Open, Past
  <2> QED
    BY <2>2, <2>3
<1>5. \A m \in log : m.run = r => m.filled
  BY <1>0, <1>1 DEF Unfilled
<1>6. ASSUME NEW u \in Uses, ResultOf(u) \in new.body
      PROVE  /\ calls'[u].state # "none" /\ new.run = calls'[u].of
             /\ \A m \in log : UseOf(u) \in m.body => m.filled /\ \A o \in log : o.run = m.run => o.id <= m.id
  <2>1. calls[u].of = r /\ calls[u].turn = runs[r].turn /\ calls[u].state = "ended"
    BY <1>3, <1>6
  <2>2. Open(u)
    BY <1>1, <2>1 DEF Open
  <2>3. ASSUME NEW m \in log, UseOf(u) \in m.body
        PROVE  m.filled /\ \A o \in log : o.run = m.run => o.id <= m.id
    BY <1>0, <1>5, <2>1, <2>2, <2>3 DEF UseBlocks
  <2> QED
    BY <1>1, <2>1, <2>3
<1>7. InsertFits(new)
  BY <1>1, <1>2, <1>3, <1>4, <1>5, <1>6 DEF InsertFits
<1>8. RunPhases'
  BY <1>0, <1>1, <1>2 DEF RunPhases
<1>9. UseRows'
  BY <1>0, <1>1, <1>2 DEF UseRows
<1> QED
  BY <1>7, <1>8, <1>9

\* A message rewritten keeps uses and results in order, when the run of a message still
\* without blocks is left as it is.
LEMMA RewriteStep ==
    ASSUME MessagesOK, MessagesOK', PairInv, UNCHANGED <<calls, count>>,
           NEW m \in log, NEW new \in Message, Rewrite(m, new),
           \A o \in log' : ~o.filled /\ o.run \in SessionRuns => runs'[o.run] = runs[o.run],
           \A u \in Uses : calls[u].state # "none" => (Open(u)' => Open(u)) /\ (Past(u)' => Past(u)),
           Cardinality(log') <= count', Missing => Missing'
    PROVE  UseBlocks' /\ ResultBlocks' /\ Pairs' /\ Unfilled' /\ Written'
<1> DEFINE Was(o, n) == /\ o \in log /\ o.id = n.id /\ o.run = n.run /\ o.role = n.role /\ o.body = n.body
                        /\ o.filled => n.filled
<1>1. \A n \in log' : \E o \in log : Was(o, n)
  BY DEF Rewrite
<1>2. \A o \in log : \E n \in log' : Was(o, n)
  BY DEF Rewrite
<1>3. UseBlocks'
  <2> SUFFICES ASSUME NEW n \in log', NEW u \in Uses, UseOf(u) \in n.body
               PROVE  /\ calls[u].state # "none" /\ n.run = calls[u].of /\ n.role = "assistant"
                      /\ ~n.filled =>
                            /\ calls[u].turn = runs'[n.run].turn
                            /\ runs'[n.run].at = "answering" \/ runs'[n.run].state = "failed"
                      /\ Open(u)' => \A o \in log' : o.run = n.run => o.id <= n.id
    BY DEF UseBlocks
  <2>1. PICK old \in log : Was(old, n)
    BY <1>1
  <2>2. /\ calls[u].state # "none" /\ old.run = calls[u].of /\ old.role = "assistant"
        /\ ~old.filled =>
              /\ calls[u].turn = runs[old.run].turn
              /\ runs[old.run].at = "answering" \/ runs[old.run].state = "failed"
        /\ Open(u) => \A o \in log : o.run = old.run => o.id <= old.id
    BY <2>1 DEF PairInv, UseBlocks
  <2>3. n.run \in SessionRuns
    BY <2>1, <2>2 DEF PairInv, UseRows
  <2>4. Open(u)' => \A o \in log' : o.run = n.run => o.id <= n.id
    BY <1>1, <2>1, <2>2
  <2> QED
    BY <2>1, <2>2, <2>3, <2>4
<1>4. ResultBlocks'
  <2> SUFFICES ASSUME NEW n \in log', NEW u \in Uses, ResultOf(u) \in n.body
               PROVE  calls[u].state # "none" /\ n.run = calls[u].of /\ n.role = "user" /\ n.filled
    BY DEF ResultBlocks
  <2>1. PICK old \in log : Was(old, n)
    BY <1>1
  <2> QED
    BY <2>1 DEF PairInv, ResultBlocks
<1>5. Pairs'
  <2> SUFFICES ASSUME NEW p \in log', NEW n \in log', NEW u \in Uses,
                      UseOf(u) \in p.body, ResultOf(u) \in n.body
               PROVE  /\ p.filled /\ p.id < n.id
                      /\ \A o \in log' : o.run = p.run => o.id <= p.id \/ n.id <= o.id
    BY DEF Pairs
  <2>1. PICK q \in log : Was(q, p)
    BY <1>1
  <2>2. PICK old \in log : Was(old, n)
    BY <1>1
  <2>3. /\ q.filled /\ q.id < old.id
        /\ \A o \in log : o.run = q.run => o.id <= q.id \/ old.id <= o.id
    BY <2>1, <2>2 DEF PairInv, Pairs
  <2> QED
    BY <1>1, <2>1, <2>2, <2>3
<1>6. Unfilled'
  <2> SUFFICES ASSUME NEW n \in log', ~n.filled, n.run \in SessionRuns
               PROVE  /\ runs'[n.run].at \in {"prompting", "answering"} \/ runs'[n.run].state = "failed"
                      /\ runs'[n.run].at \in {"prompting", "answering"} =>
                            \A p \in log' : p.run = n.run /\ ~p.filled => p = n
    BY DEF Unfilled
  <2>1. PICK old \in log : Was(old, n)
    BY <1>1
  <2>2. runs'[n.run] = runs[n.run]
    OBVIOUS
  <2>3. ASSUME NEW p \in log', p.run = n.run, ~p.filled, runs[n.run].at \in {"prompting", "answering"} PROVE p = n
    <3>1. PICK q \in log : Was(q, p)
      BY <1>1
    <3>2. q = old
      BY <2>1, <2>3, <3>1 DEF PairInv, Unfilled
    <3> QED
      BY <2>1, <3>1, <3>2 DEF MessagesOK
  <2> QED
    BY <2>1, <2>2, <2>3 DEF PairInv, Unfilled
<1>7. Written'
  <2>1. ASSUME NEW b, NEW o \in log, b \in o.body PROVE \E n \in log' : b \in n.body
    BY <1>2, <2>1
  <2> QED
    BY <2>1 DEF PairInv, Written
<1> QED
  BY <1>3, <1>4, <1>5, <1>6, <1>7

\* Deleted messages are missing.
LEMMA DeletePairs ==
    ASSUME MessagesOK, PairInv, NEW c \in Compactors, DeleteMessage(c)
    PROVE  PairInv'
<1>1. log' \subseteq log /\ UNCHANGED <<count, runs, calls>>
  BY DEF DeleteMessage
<1>2. RunPhases' /\ UseRows'
  BY <1>1 DEF PairInv, RunPhases, UseRows
<1>3. \A u \in Uses : (Open(u)' <=> Open(u)) /\ (Past(u)' <=> Past(u))
  BY <1>1 DEF Open, Past
<1>4. UseBlocks'
  BY <1>1, <1>3 DEF PairInv, UseBlocks
<1>5. ResultBlocks' /\ Pairs' /\ Unfilled'
  BY <1>1 DEF PairInv, ResultBlocks, Pairs, Unfilled
<1>6. Written'
  <2>1. Cardinality(log') <= count' /\ (Missing => Missing') /\ (log' # log => Missing')
    BY MissingStays DEF PairInv, Written
  <2> QED
    BY <1>1, <1>3, <2>1 DEF PairInv, Written
<1> QED
  BY <1>2, <1>4, <1>5, <1>6 DEF PairInv

\* A message inserted that fits keeps uses and results in order.
LEMMA InsertPairs ==
    ASSUME MessagesOK, PairInv, NEW m \in Message, Insert(m), Whole(m),
           \A new : new = [m EXCEPT !.id = count + 1] => InsertFits(new) /\ RunPhases' /\ UseRows'
    PROVE  PairInv'
<1> DEFINE new == [m EXCEPT !.id = count + 1]
<1>1. log' = log \cup {new} /\ count' = count + 1 /\ new.id = count + 1
  BY DEF Insert, Message
<1>2. InsertFits(new) /\ RunPhases' /\ UseRows'
  OBVIOUS
<1>3. Cardinality(log') <= count' /\ (Missing => Missing')
  BY MissingStays DEF PairInv, Written, LogShape
<1> HIDE DEF new
<1>4. UseBlocks' /\ ResultBlocks' /\ Pairs' /\ Unfilled' /\ Written'
  BY <1>1, <1>2, <1>3, InsertStep
<1> QED
  BY <1>2, <1>4 DEF PairInv

\* The content of a run's own message.
LEMMA FillPairs ==
    ASSUME CompTypeOK, MessagesOK, RunsOK, PairInv, NEW r \in SessionRuns, FillOwn(r)
    PROVE  PairInv'
<1>0. RunPhases /\ UseRows /\ Unfilled
  BY DEF PairInv
<1>1. UNCHANGED <<calls, count>> /\ runs[r].at \in {"prompting", "answering"} /\ runs[r].state = "running"
  BY <1>0 DEF FillOwn, RunPhases
<1>2. PICK m \in log : m.run = r /\ Fill(m)
  BY DEF FillOwn
<1>3. PICK new \in Message : Rewrite(m, new) /\ new.filled
  BY <1>2, FillRewrites DEF CompTypeOK
<1>4. \A q \in SessionRuns :
        /\ q # r => runs'[q] = runs[q]
        /\ runs'[q].state = runs[q].state /\ runs'[q].turn = runs[q].turn
        /\ q = r => runs'[q].at = IF runs[r].at = "prompting" THEN "ask" ELSE "answered"
  BY DEF FillOwn, RunsOK, RunOfSession
<1>5. LogShape
  BY <1>1, <1>3 DEF LogShape
<1>6. MessagesOK' /\ Cardinality(log') <= count' /\ (Missing => Missing')
  BY <1>5, MessagesStep, MissingStays DEF PairInv, Written
<1>7. ASSUME NEW o \in log', ~o.filled, o.run \in SessionRuns PROVE runs'[o.run] = runs[o.run]
  <2>1. o \in log /\ o # m
    BY <1>3, <1>7 DEF Rewrite
  <2>2. o.run # r
    BY <1>0, <1>1, <1>2, <1>7, <2>1 DEF Unfilled, Fill
  <2> QED
    BY <1>4, <1>7, <2>2
<1>8. ASSUME NEW u \in Uses, calls[u].state # "none" PROVE (Open(u)' => Open(u)) /\ (Past(u)' => Past(u))
  <2>1. calls[u].of \in SessionRuns /\ calls[u].turn \in 1 .. runs[calls[u].of].turn
    BY <1>0, <1>8 DEF UseRows
  <2>2. CASE calls[u].of = r
    <3>1. runs[r].at = "answering"
      BY <1>0, <1>1, <2>1, <2>2 DEF RunPhases
    <3> QED
      BY <1>1, <1>4, <2>2, <3>1 DEF Open, Past
  <2>3. CASE calls[u].of # r
    BY <1>1, <1>4, <2>1, <2>3 DEF Open, Past
  <2> QED
    BY <2>2, <2>3
<1>9. UseBlocks' /\ ResultBlocks' /\ Pairs' /\ Unfilled' /\ Written'
  BY <1>1, <1>3, <1>6, <1>7, <1>8, RewriteStep
<1>10. RunPhases'
  BY <1>0, <1>1, <1>4 DEF RunPhases
<1>11. UseRows'
  BY <1>0, <1>1, <1>4 DEF UseRows
<1> QED
  BY <1>9, <1>10, <1>11 DEF PairInv

\* Every step of a run keeps uses and results in order.
LEMMA RunPairs ==
    ASSUME CompTypeOK, MessagesOK, RunsOK, RunsOK', PairInv, NEW r \in SessionRuns, RunWrites(r)
    PROVE  PairInv'
<1>1. CASE Submit(r) \/ Take(r) \/ SettleTurn(r) \/ FailSessionRun(r) \/ LinkChild(r)
  <2>1. UNCHANGED <<log, count>>
    BY <1>1 DEF Submit, Take, SettleTurn, FailSessionRun, LinkChild
  <2>2. QuietCalls /\ (\A q \in SessionRuns : QuietRow(q)) /\ RunPhases' /\ UseRows'
    BY <1>1, QuietRun
  <2> QED
    BY <2>1, <2>2, QuietStep DEF PairInv
<1>2. CASE InsertPrompt(r)
  <2> DEFINE m == Fresh(r, "user", {Text})
  <2>1. m \in Message /\ Whole(m) /\ Insert(m)
    BY <1>2, TextBody, FreshTypes DEF InsertPrompt
  <2>2. ASSUME NEW new, new = [m EXCEPT !.id = count + 1] PROVE new.run = r /\ new.body = {Text}
    BY <2>2 DEF Fresh
  <2> HIDE DEF m
  <2>3. \A new : new = [m EXCEPT !.id = count + 1] => InsertFits(new) /\ RunPhases' /\ UseRows'
    BY <1>2, <2>2, PromptFits
  <2> QED
    BY <2>1, <2>3, InsertPairs
<1>3. CASE InsertAnswer(r)
  <2> DEFINE t == runs[r].turn + 1
  <2>1. PICK U \in SUBSET {u \in Uses : calls[u].state = "none"} :
          /\ Insert(Fresh(r, "assistant", IF U = {} THEN {Text} ELSE {UseOf(u) : u \in U}))
          /\ calls' = [u \in Uses |-> IF u \in U
                                      THEN [calls[u] EXCEPT !.state = "asked", !.of = r, !.turn = runs[r].turn + 1]
                                      ELSE calls[u]]
    BY <1>3 DEF InsertAnswer
  <2> DEFINE m == Fresh(r, "assistant", AnswerBody(U))
  <2>2. Insert(m) /\ calls' = AskedFor(r, U, t)
    BY <2>1 DEF AnswerBody, AskedFor
  <2>3. t \in Nat
    BY DEF RunsOK, RunOfSession
  <2>4. AnswerBody(U) \in SUBSET Blocks /\ \A b \in AnswerBody(U) : b.kind # "result"
    BY DEF AnswerBody, Blocks, Text, UseOf
  <2>5. m \in Message /\ Whole(m)
    BY <2>4, FreshTypes
  <2>6. ASSUME NEW new, new = [m EXCEPT !.id = count + 1]
        PROVE  new.run = r /\ new.role = "assistant" /\ new.body = AnswerBody(U)
    BY <2>6 DEF Fresh
  <2> DEFINE turn == t
  <2>7. turn = runs[r].turn + 1
    OBVIOUS
  <2> HIDE DEF m, t
  <2>8. \A new : new = [m EXCEPT !.id = count + 1] => InsertFits(new) /\ RunPhases' /\ UseRows'
    BY <1>3, <2>2, <2>3, <2>6, <2>7, AnswerFits
  <2> QED
    BY <2>2, <2>5, <2>8, InsertPairs
<1>4. CASE FillOwn(r)
  BY <1>4, FillPairs
<1>5. CASE ContinueTurn(r)
  <2> DEFINE body == {ResultOf(u) : u \in {v \in Uses : calls[v].of = r /\ calls[v].turn = runs[r].turn}}
             m == [Fresh(r, "user", body) EXCEPT !.filled = TRUE]
  <2>1. Insert(m) /\ \A u \in Uses : calls[u].of = r /\ calls[u].turn = runs[r].turn => calls[u].state = "ended"
    BY <1>5 DEF ContinueTurn
  <2>2. body \in SUBSET Blocks
    BY DEF Blocks
  <2>3. m \in Message /\ Whole(m)
    BY <2>2, FreshTypes
  <2>4. ASSUME NEW new, new = [m EXCEPT !.id = count + 1]
        PROVE  new.run = r /\ new.role = "user" /\ new.filled /\ new.body = body
    BY <2>4 DEF Fresh
  <2> HIDE DEF m
  <2>5. \A new : new = [m EXCEPT !.id = count + 1] => InsertFits(new) /\ RunPhases' /\ UseRows'
    BY <1>5, <2>1, <2>4, ResultsFit
  <2> QED
    BY <2>1, <2>3, <2>5, InsertPairs
<1> QED
  BY <1>1, <1>2, <1>3, <1>4, <1>5 DEF RunWrites

\* So does every step of the compactions, and the mark is_preserved.
LEMMA CompactionPairs ==
    ASSUME CompTypeOK, MessagesOK, PairInv, UNCHANGED <<runs, calls>>,
           MarkPreserved \/ \E c \in Compactors : CompactStep(c)
    PROVE  PairInv'
<1>0. RunPhases' /\ UseRows' /\ \A u \in Uses : (Open(u)' <=> Open(u)) /\ (Past(u)' <=> Past(u))
  BY DEF PairInv, RunPhases, UseRows, Open, Past
<1>1. ASSUME UNCHANGED <<log, count>> PROVE PairInv'
  BY <1>0, <1>1 DEF PairInv, UseBlocks, ResultBlocks, Pairs, Unfilled, Written, Missing
<1>2. ASSUME UNCHANGED count, NEW m \in log, NEW new \in Message, Rewrite(m, new) PROVE PairInv'
  <2>1. LogShape
    BY <1>2 DEF LogShape
  <2>2. MessagesOK' /\ Cardinality(log') <= count' /\ (Missing => Missing')
    BY <2>1, MessagesStep, MissingStays DEF PairInv, Written
  <2>3. UseBlocks' /\ ResultBlocks' /\ Pairs' /\ Unfilled' /\ Written'
    BY <1>0, <1>2, <2>2, RewriteStep
  <2> QED
    BY <1>0, <2>3 DEF PairInv
<1>3. CASE MarkPreserved
  <2>1. PICK m \in log : log' = (log \ {m}) \cup {[m EXCEPT !.kept = TRUE]}
    BY <1>3 DEF MarkPreserved
  <2> DEFINE new == [m EXCEPT !.kept = TRUE]
  <2>2. m \in Message
    BY DEF CompTypeOK, LogTypeOK
  <2>3. /\ new \in Message /\ new.id = m.id /\ new.summary = m.summary
        /\ new.body = m.body /\ new.run = m.run /\ new.role = m.role /\ new.filled = m.filled
    BY <2>2 DEF Message
  <2>4. Rewrite(m, new) /\ UNCHANGED count
    BY <1>3, <2>1, <2>3 DEF Rewrite, MarkPreserved
  <2> QED
    BY <1>2, <2>3, <2>4
<1>4. ASSUME NEW c \in Compactors, FillSummary(c) PROVE PairInv'
  <2>1. PICK m \in log : Fill(m)
    BY <1>4 DEF FillSummary
  <2>2. PICK new \in Message : Rewrite(m, new)
    BY <2>1, FillRewrites DEF CompTypeOK
  <2> QED
    BY <1>2, <1>4, <2>2 DEF FillSummary
<1>5. ASSUME NEW c \in Compactors, CreateSummary(c) PROVE PairInv'
  <2> DEFINE m == [Fresh(NoRun, "assistant", {Text}) EXCEPT !.summary = TRUE]
  <2>1. m \in Message /\ Whole(m) /\ Insert(m)
    BY <1>5, TextBody, FreshTypes DEF CreateSummary
  <2>2. ASSUME NEW new, new = [m EXCEPT !.id = count + 1] PROVE new.run = NoRun /\ new.body = {Text}
    BY <2>2 DEF Fresh
  <2>3. \A new : new.body = {Text} => \A u \in Uses : UseOf(u) \notin new.body /\ ResultOf(u) \notin new.body
    BY BlocksApart
  <2>4. NoRun \notin SessionRuns /\ \A u \in Uses : calls[u].state # "none" => calls[u].of \in SessionRuns
    BY RunsAssumption DEF SessionRuns, PairInv, UseRows
  <2> HIDE DEF m
  <2>5. ASSUME NEW new, new = [m EXCEPT !.id = count + 1] PROVE InsertFits(new)
    BY <1>0, <2>2, <2>3, <2>4, <2>5 DEF InsertFits
  <2> QED
    BY <1>0, <2>1, <2>5, InsertPairs
<1>6. ASSUME NEW c \in Compactors, CompactStep(c), ~FillSummary(c), ~CreateSummary(c), ~DeleteMessage(c)
      PROVE  UNCHANGED <<log, count>>
  BY <1>6 DEF CompactStep, CheckNeed, CallCompact, PlanCompaction, CreateEvent, ArchiveMessage, ArchiveFails,
              DeleteFails, SummaryFails, UpdateCount, GiveUp, logVars
<1> QED
  BY <1>1, <1>3, <1>4, <1>5, <1>6, DeletePairs

\* Every step keeps uses and results in order.
LEMMA PairStep ==
    ASSUME CompInv, PairInv, [CompNext]_<<logVars, compVars>>
    PROVE  PairInv'
<1>0. CompTypeOK /\ MessagesOK /\ RunsOK
  BY TypeParts DEF CompInv
<1>1. CASE LogNext
  <2>1. RunsOK'
    BY <1>0, <1>1, RunsStep
  <2>2. ASSUME NEW r \in SessionRuns, RunWrites(r) PROVE PairInv'
    BY <1>0, <2>1, <2>2, RunPairs
  <2>3. ASSUME NEW u \in Uses, RunTool(u) \/ \E k \in Kids : Delegate(u, k) PROVE PairInv'
    <3>1. UNCHANGED <<log, count>>
      BY <2>3 DEF RunTool, Delegate
    <3>2. QuietCalls /\ (\A q \in SessionRuns : QuietRow(q)) /\ RunPhases' /\ UseRows'
      BY <1>0, <2>3, QuietTool
    <3> QED
      BY <1>0, <2>1, <3>1, <3>2, QuietStep DEF PairInv
  <2> QED
    BY <1>1, <2>2, <2>3 DEF LogNext
<1>2. CASE MarkPreserved \/ \E c \in Compactors : CompactStep(c)
  <2>1. UNCHANGED <<runs, calls>>
    BY <1>2 DEF MarkPreserved, CompactStep, CheckNeed, CallCompact, PlanCompaction, CreateEvent, ArchiveMessage,
                ArchiveFails, DeleteMessage, DeleteFails, CreateSummary, FillSummary, SummaryFails, UpdateCount,
                GiveUp, logVars
  <2> QED
    BY <1>0, <1>2, <2>1, CompactionPairs
<1>3. CASE UNCHANGED <<logVars, compVars>>
  BY <1>3 DEF logVars, PairInv, RunPhases, UseRows, UseBlocks, ResultBlocks, Pairs, Unfilled, Written, Missing,
              Open, Past
<1> QED
  BY <1>1, <1>2, <1>3 DEF CompNext

\* A run about to send a request has every use of it answered, and every result asked for.
LEMMA RequestFromPairs == CompInv /\ PairInv => RequestPaired
<1> SUFFICES ASSUME CompInv, PairInv, NEW r \in SessionRuns, runs[r].at = "ask",
                    NEW m \in Request(r), NEW u \in Uses
             PROVE  /\ UseOf(u) \in m.body =>
                          \/ \E n \in Request(r) : /\ ResultOf(u) \in n.body
                                                   /\ InNextTurn(Request(r), m, n) \/ Interleaved(Request(r), m, n)
                          \/ Abandoned(r, u)
                          \/ Removed(ResultOf(u))
                    /\ ResultOf(u) \in m.body =>
                          \/ \E n \in Request(r) : /\ UseOf(u) \in n.body
                                                   /\ InNextTurn(Request(r), n, m) \/ Interleaved(Request(r), n, m)
                          \/ Removed(UseOf(u))
  BY DEF RequestPaired
<1> DEFINE S == Request(r)
<1>1. /\ m \in log /\ m.filled
      /\ \A o \in log : o \in S <=> o.filled /\ (IF r \in Kids THEN o.run = r ELSE o.run \notin Kids)
      /\ S \subseteq log
  BY DEF Request, Context
<1>2. \A b : (\E n \in log : b \in n.body) \/ (Missing => Removed(b))
  BY DEF Missing, Removed
<1>3. ASSUME NEW n \in log, n.run = m.run, n.filled PROVE n \in S
  BY <1>1, <1>3
<1>4. ASSUME NEW p \in S, NEW n \in S, p.run = n.run, UseOf(u) \in p.body, ResultOf(u) \in n.body
      PROVE  InNextTurn(S, p, n) \/ Interleaved(S, p, n)
  <2>1. /\ p.id < n.id /\ p.role = "assistant" /\ n.role = "user"
        /\ \A o \in log : o.run = p.run => o.id <= p.id \/ n.id <= o.id
    BY <1>1, <1>4 DEF PairInv, Pairs, UseBlocks, ResultBlocks
  <2>2. \A o \in log : o.id \in Nat
    BY TypeParts DEF CompInv, MessagesOK
  <2> SUFFICES ASSUME ~Interleaved(S, p, n) PROVE InNextTurn(S, p, n)
    OBVIOUS
  <2>3. ASSUME NEW o \in S, p.id < o.id, o.id < n.id PROVE FALSE
    <3>1. o.run = p.run \/ o.run \in Kids
      BY <2>3 DEF Interleaved
    <3>2. o.run \in Kids => o.run = r /\ p.run = r
      BY <1>1, <1>4
    <3>3. o.id <= p.id \/ n.id <= o.id
      BY <1>1, <2>1, <2>3, <3>1, <3>2
    <3> QED
      BY <1>1, <1>4, <2>2, <2>3, <3>3
  <2>4. \A o \in S : ~(p.id < o.id /\ o.id < n.id)
    BY <2>3
  <2>5. \A o, q \in S : p.id < o.id /\ o.id < q.id /\ q.id < n.id => ~(o.role = n.role /\ q.role = p.role)
    BY <1>1, <1>4, <2>2, <2>4
  <2>6. p.role # n.role
    BY <2>1
  <2> QED
    BY <2>1, <2>5, <2>6 DEF InNextTurn
<1>5. ASSUME UseOf(u) \in m.body, ~Abandoned(r, u), ~Removed(ResultOf(u))
      PROVE  \E n \in S : ResultOf(u) \in n.body /\ (InNextTurn(S, m, n) \/ Interleaved(S, m, n))
  <2>1. calls[u].state # "none" /\ m.run = calls[u].of
    BY <1>1, <1>5 DEF PairInv, UseBlocks
  <2>2. Past(u)
    <3>1. CASE calls[u].of = r
      BY <3>1 DEF Past
    <3>2. CASE runs[calls[u].of].state = "completed"
      <4>1. /\ calls[u].of \in SessionRuns /\ calls[u].turn \in 1 .. runs[calls[u].of].turn
            /\ calls[u].turn # runs[calls[u].of].turn
        BY <2>1, <3>2 DEF PairInv, UseRows
      <4>2. runs[calls[u].of].turn \in Nat
        BY <4>1, TypeParts DEF CompInv, RunsOK, RunOfSession
      <4> QED
        BY <4>1, <4>2 DEF Past
    <3> QED
      BY <1>5, <3>1, <3>2 DEF Abandoned
  <2>3. PICK n \in log : ResultOf(u) \in n.body
    BY <1>2, <1>5, <2>1, <2>2 DEF PairInv, Written
  <2>4. n.run = m.run /\ n.filled
    BY <2>1, <2>3 DEF PairInv, ResultBlocks
  <2>5. n \in S
    BY <1>3, <2>4
  <2> QED
    BY <1>4, <1>5, <2>3, <2>4, <2>5
<1>6. ASSUME ResultOf(u) \in m.body, ~Removed(UseOf(u))
      PROVE  \E n \in S : UseOf(u) \in n.body /\ (InNextTurn(S, n, m) \/ Interleaved(S, n, m))
  <2>1. calls[u].state # "none" /\ m.run = calls[u].of
    BY <1>1, <1>6 DEF PairInv, ResultBlocks
  <2>2. PICK n \in log : UseOf(u) \in n.body
    BY <1>2, <1>6, <2>1 DEF PairInv, Written
  <2>3. n.run = m.run /\ n.filled
    BY <1>1, <1>6, <2>1, <2>2 DEF PairInv, UseBlocks, Pairs
  <2>4. n \in S
    BY <1>3, <2>3
  <2> QED
    BY <1>4, <1>6, <2>2, <2>3, <2>4
<1> QED
  BY <1>5, <1>6

-----------------------------------------------------------------------------
(* Theorems.                                                               *)

\* The inductive invariant holds for any number of overlapping compactions, any
\* failures of their statements and any steps of the runs in between.
THEOREM CompInvHolds == CompSpec => []CompInv
<1>1. LogInit /\ CompInit => CompInv
  <2> SUFFICES ASSUME LogInit, CompInit PROVE CompInv
    OBVIOUS
  <2>1. MessagesOK /\ RunsOK
    BY FS_EmptySet DEF LogInit, MessagesOK, RunsOK, RunOfSession, CallOfSession, LiveStates, Steps, Message
  <2>2. CompactorsOK
    BY KeepAssumption DEF CompInit, CompactorsOK, CompRow, Phases
  <2>3. DoomedSafe /\ DoomedOld
    BY DEF CompInit, DoomedSafe, DoomedOld, Working
  <2>4. Somewhere /\ CopiesAsRead
    BY DEF LogInit, CompInit, Somewhere, CopiesAsRead
  <2> QED
    BY <2>1, <2>2, <2>3, <2>4, TypeParts DEF CompInv
<1>2. CompInv /\ [CompNext]_<<logVars, compVars>> => CompInv'
  BY CompTypeStep, DoomedOldStep, DoomedSafeStep, LostStep, CopiesStep DEF CompInv
<1> QED
  BY <1>1, <1>2, PTL DEF CompSpec

\* Type correctness of the messages, runs, calls and compactions.
THEOREM CompTypeCorrect == CompSpec => []CompTypeOK
<1>1. CompInv => CompTypeOK
  BY DEF CompInv
<1> QED
  BY <1>1, CompInvHolds, PTL

\* No message is lost, wherever compactions overlap or stop: it is in the session, or
\* in the archive with its content, or its insert there was reported to fail
\* (compaction.go:254-280), or a compaction read it before its blocks were there.
THEOREM MessagesKept == CompSpec => []NothingLost
<1>1. CompInv => NothingLost
  BY DEF CompInv, Somewhere, CopiesAsRead, NothingLost, Ids
<1> QED
  BY <1>1, CompInvHolds, PTL

\* What is deleted has PreserveLastN newer messages and is no summary at the moment of
\* its deletion, though the messages were read long before (compaction.go:283).
THEOREM OnlyOldDeleted == CompSpec => DeletesOldOnly
<1>1. CompInv /\ [CompNext]_<<logVars, compVars>> =>
        [\A m \in log : m.id \notin Ids(log') =>
            /\ Cardinality({n \in log : n.id > m.id}) >= PreserveLastN
            /\ ~m.summary]_<<logVars, compVars>>
  <2> SUFFICES ASSUME CompInv, [CompNext]_<<logVars, compVars>>, NEW m \in log, m.id \notin Ids(log')
               PROVE  Cardinality({n \in log : n.id > m.id}) >= PreserveLastN /\ ~m.summary
    OBVIOUS
  <2>0. CompTypeOK /\ MessagesOK
    BY TypeParts DEF CompInv
  <2>1. ~LogShape
    <3>1. ASSUME NEW n \in Message, Insert(n) PROVE FALSE
      BY <3>1 DEF Insert, Ids
    <3>2. ASSUME NEW n \in log, NEW new \in Message, Rewrite(n, new) PROVE FALSE
      BY <3>2 DEF Rewrite, Ids
    <3>3. ~UNCHANGED log
      BY DEF Ids
    <3> QED
      BY <3>1, <3>2, <3>3 DEF LogShape
  <2>2. PICK c \in Compactors : DeleteMessage(c)
    BY <2>0, <2>1, CompNextShape
  <2>3. PICK x \in comp[c].doomed : log' = {n \in log : n.id # x}
    BY <2>2 DEF DeleteMessage, OldestId
  <2>4. m.id = x
    BY <2>3 DEF Ids
  <2>5. Working(c)
    BY <2>2 DEF DeleteMessage, Working
  <2> QED
    BY <2>3, <2>4, <2>5 DEF CompInv, DoomedOld, Newer
<1> QED
  BY <1>1, CompInvHolds, PTL DEF CompSpec, DeletesOldOnly

\* The reasons hold as well, with the results of the copies they rest on.
THEOREM ToldInvHolds == CompSpec => []ToldInv
<1>1. LogInit /\ CompInit => SameResults /\ Reasons /\ NothingForgotten
  BY DEF LogInit, CompInit, SameResults, Copies, Reasons, DoomedForReason, CoversKept, Working, NothingForgotten
<1>2. ToldInv /\ [CompNext]_<<logVars, compVars>> => (SameResults /\ Reasons /\ NothingForgotten)'
  BY ResultsStep, ReasonsStep, ForgottenStep DEF ToldInv
<1>3. (CompInv /\ SameResults /\ Reasons /\ NothingForgotten) <=> ToldInv
  BY DEF ToldInv
<1> QED
  BY <1>1, <1>2, <1>3, CompInvHolds, PTL DEF CompSpec

\* Unless a statement failed, a message that is gone is told of in a summary that is in
\* the session or soon will be, was summarised before its blocks were there, or was
\* pruned for a long result that the archive has (compaction.go:254-306, hybrid.go:57):
\* for any number of overlapping compactions, strategies and limits.
THEOREM MessagesTold == CompSpec => []NothingForgotten
<1>1. ToldInv => NothingForgotten
  BY DEF ToldInv
<1> QED
  BY <1>1, ToldInvHolds, PTL

\* Uses and results are in order in every session, whatever its runs and the runs they
\* delegate to write in between, and whatever compactions take away.
THEOREM PairInvHolds == CompSpec => []PairInv
<1>1. LogInit /\ CompInit => PairInv
  BY FS_EmptySet DEF LogInit, PairInv, RunPhases, UseRows, UseBlocks, ResultBlocks, Pairs, Unfilled, Written
<1>2. CompInv /\ PairInv /\ [CompNext]_<<logVars, compVars>> => PairInv'
  BY PairStep
<1> QED
  BY <1>1, <1>2, CompInvHolds, PTL DEF CompSpec

\* A request the model's API would reject, with a use that the next message does not
\* answer, has it from another root run of the session or from a compaction, never from
\* the run itself or from those it delegated to (run_worker.go:219): for any number of
\* runs, tools, turns and compactions.
THEOREM RequestsArePaired == CompSpec => []RequestPaired
<1>1. CompInv /\ PairInv => RequestPaired
  BY RequestFromPairs
<1> QED
  BY <1>1, CompInvHolds, PairInvHolds, PTL
=============================================================================
