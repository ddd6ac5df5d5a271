------------------------------ MODULE Compaction ------------------------------
(***************************************************************************)
(* Compaction of a session while its runs go on: the check a worker makes  *)
(* after it completed a run, and Compact, which reads the messages, parts  *)
(* them, has them summarised, archives them one by one, deletes them one   *)
(* by one and writes the summary, each in a statement of its own.          *)
(* Nothing keeps two compactions of a session apart.                       *)
(***************************************************************************)
EXTENDS SessionLog, Integers, FiniteSetsExt

CONSTANTS
    Callers,          \* calls of Client.Compact
    AutoCompaction,   \* ClientConfig.AutoCompactionEnabled
    Hybrid,           \* Config.Strategy is hybrid
    KeepToolOutputs,  \* Config.PreserveToolOutputs
    PreserveLastN,
    ProtectedTokens,
    TargetTokens,
    TriggerThreshold, \* Config.MaxTokensForModel times Config.Trigger
    ApiTotals,        \* totals the token counting API may answer with
    MaxCompactions,   \* bound: compactions begun
    MaxFaults,        \* bound: statements of compactions that fail, and crashes
    Markable          \* bound: messages that may be marked is_preserved, by id

ASSUME CallersAssumption == Callers \cap (Roots \cup Kids) = {}
ASSUME KeepAssumption == ApiTotals \subseteq Nat /\ {MaxFaults, MaxCompactions} \subseteq Nat

\* A zero stands for the default.  New calls this and nothing calls Validate: any
\* other value is taken as it is, and a negative one keeps no message.
ApplyDefaults ==
    {PreserveLastN, ProtectedTokens, TargetTokens} \subseteq Int \ {0} /\ TriggerThreshold \in Int

ASSUME DefaultsAssumption == ApplyDefaults

VARIABLES
    comp,        \* each compaction: where it is, what it read and has left to do,
                 \* what its summary tells of, what it read without blocks, and what
                 \* pruning alone would have shortened
    archive,     \* agentpg_message_archive
    unarchived,  \* messages whose insert into the archive failed
    events,      \* rows of agentpg_compaction_events
    compacted,   \* agentpg_sessions.compaction_count
    faults       \* failures so far

compVars == <<comp, archive, unarchived, events, compacted, faults>>

Compactors == SessionRuns \cup Callers
Phases == {"before", "read", "event", "work", "fill", "count", "done"}

CompTypeOK ==
    /\ LogTypeOK
    /\ comp \in [Compactors -> [pc : Phases, todo : SUBSET Message,
                                doomed : SUBSET Nat, covers : SUBSET Nat, blank : SUBSET Nat,
                                pruned : SUBSET Nat, summing : BOOLEAN, written : Nat]]
    /\ archive \subseteq Message
    /\ unarchived \subseteq Nat
    /\ events \in Nat
    /\ compacted \in {0, 1}
    /\ faults \in 0 .. MaxFaults

CompInit ==
    /\ comp = [c \in Compactors |-> [pc |-> "before", todo |-> {}, doomed |-> {}, covers |-> {},
                                     blank |-> {}, pruned |-> {}, summing |-> FALSE,
                                     written |-> 0]]
    /\ archive = {}
    /\ unarchived = {}
    /\ events = 0
    /\ compacted = 0
    /\ faults = 0

-----------------------------------------------------------------------------
(* Counting and parting, over the messages S of the session.               *)

\* Text and uses are short, a long result is not, and every message costs something.
BlockTokens(b) == IF b.kind = "result" /\ b.use \in LongUses THEN 3 ELSE 1
Tokens(m) == 1 + IF m.filled THEN MapThenSumSet(BlockTokens, m.body) ELSE 0
Total(S) == MapThenSumSet(Tokens, S)

\* The API's total, or the approximation where it is not used or failed.
Totals(S) == {Total(S)} \cup ApiTotals

\* From the newest message backwards, as long as they fit in.
Protected(S) == {m \in S : Total({n \in S : n.id >= m.id}) <= ProtectedTokens}

\* Mutant of Recent: the last messages are not preserved.
RecentNone(S) == {}

Recent(S) ==
    LET rest == S \ Protected(S) IN
    {m \in rest : Cardinality({n \in rest : n.id > m.id}) < PreserveLastN}

Compactable(S) == {m \in S \ (Protected(S) \cup Recent(S)) : ~m.summary /\ ~m.kept}

\* pruneToolOutputs: what it would replace, and the tokens that would save.
LongBlocks(m) == IF m.filled THEN {b \in m.body : b.kind = "result" /\ b.use \in LongUses} ELSE {}
Prunable(P) == IF KeepToolOutputs THEN {} ELSE {m \in P : LongBlocks(m) # {}}
Saved(P) == 2 * MapThenSumSet(LAMBDA m : Cardinality(LongBlocks(m)), Prunable(P))

Ids(S) == {m.id : m \in S}

\* The next of the messages S, and of the IDs D, in the order of created_at.
Oldest(S) == {m \in S : \A n \in S : m.id <= n.id}
OldestId(D) == {d \in D : \A e \in D : d <= e}

-----------------------------------------------------------------------------
(* One compaction.                                                         *)

Move(c, pc) == comp' = [comp EXCEPT ![c].pc = pc]

MayBegin(c) ==
    /\ comp[c].pc = "before"
    /\ Cardinality({d \in Compactors : comp[d].pc # "before"}) < MaxCompactions

Fault == faults < MaxFaults /\ faults' = faults + 1

\* checkAndCompact, in the worker that completed the run, of a child too.
CheckNeed(c) ==
    /\ AutoCompaction
    /\ c \in SessionRuns /\ runs[c].state = "completed"
    /\ MayBegin(c)
    /\ \E t \in Totals(log) : Move(c, IF t >= TriggerThreshold THEN "read" ELSE "done")
    /\ UNCHANGED <<logVars, archive, unarchived, events, compacted, faults>>

CallCompact(c) ==
    /\ c \in Callers
    /\ MayBegin(c)
    /\ Move(c, "read")
    /\ UNCHANGED <<logVars, archive, unarchived, events, compacted, faults>>

\* What the summary tells of: a message without blocks adds no line to the prompt.
Told(P) == Ids({m \in P : m.filled})

SummarizationExecute(P) == [doomed |-> Ids(P), covers |-> Told(P), summing |-> TRUE]

\* Mutant of HybridExecute: all are deleted where pruning suffices.
HybridExecuteAll(P, total) ==
    IF total <= TargetTokens + Saved(P)
    THEN [doomed |-> Ids(P), covers |-> {}, summing |-> FALSE]
    ELSE SummarizationExecute(P)

\* Where pruning alone would reach the target, the messages it would have shortened
\* are to be deleted, and no summary is made.
HybridExecute(P, total) ==
    IF total <= TargetTokens + Saved(P)
    THEN [doomed |-> Ids(Prunable(P)), covers |-> {}, summing |-> FALSE]
    ELSE SummarizationExecute(P)

Execute(P, total) == IF Hybrid THEN HybridExecute(P, total) ELSE SummarizationExecute(P)

\* Compact reads the messages again and parts them, and the strategy decides.
PlanCompaction(c) ==
    /\ comp[c].pc = "read"
    /\ \E total \in Totals(log) :
          LET P == Compactable(log)
              plan == Execute(P, total)
          IN IF P = {}
             THEN Move(c, "done")
             ELSE comp' = [comp EXCEPT ![c] =
                      [pc |-> "event", todo |-> P, doomed |-> plan.doomed, covers |-> plan.covers,
                       blank |-> Ids(P) \ Told(P),
                       pruned |-> IF plan.summing THEN {} ELSE Ids(Prunable(P)),
                       summing |-> plan.summing, written |-> 0]]
    /\ UNCHANGED <<logVars, archive, unarchived, events, compacted, faults>>

\* The model has summarised the messages, seconds later, and the event is inserted.
CreateEvent(c) ==
    /\ comp[c].pc = "event"
    /\ Move(c, "work")
    /\ events' = events + 1
    /\ UNCHANGED <<logVars, archive, unarchived, compacted, faults>>

\* Mutant of ArchiveMessage: the message is archived without its content blocks.
ArchiveRowOnly(c) ==
    /\ comp[c].pc = "work"
    /\ \E m \in Oldest(comp[c].todo) :
          /\ archive' = IF m.id \in Ids(archive) THEN archive
                        ELSE archive \cup {[m EXCEPT !.filled = FALSE]}
          /\ comp' = [comp EXCEPT ![c].todo = @ \ {m}]
    /\ UNCHANGED <<logVars, unarchived, events, compacted, faults>>

\* The archive's key is the message's: what another compaction has archived stays.
ArchiveMessage(c) ==
    /\ comp[c].pc = "work"
    /\ \E m \in Oldest(comp[c].todo) :
          /\ archive' = IF m.id \in Ids(archive) THEN archive ELSE archive \cup {m}
          /\ comp' = [comp EXCEPT ![c].todo = @ \ {m}]
    /\ UNCHANGED <<logVars, unarchived, events, compacted, faults>>

\* The insert fails; the message is deleted all the same.
ArchiveFails(c) ==
    /\ Fault
    /\ comp[c].pc = "work"
    /\ \E m \in Oldest(comp[c].todo) :
          /\ unarchived' = unarchived \cup {m.id}
          /\ comp' = [comp EXCEPT ![c].todo = @ \ {m}]
    /\ UNCHANGED <<logVars, archive, events, compacted>>

\* Deleted, after all are archived, without a look at what the row is by now.
DeleteMessage(c) ==
    /\ comp[c].pc = "work" /\ comp[c].todo = {}
    /\ \E d \in OldestId(comp[c].doomed) :
          /\ log' = {m \in log : m.id # d}
          /\ comp' = [comp EXCEPT ![c].doomed = @ \ {d}]
    /\ UNCHANGED <<count, runs, calls, archive, unarchived, events, compacted, faults>>

DeleteFails(c) ==
    /\ Fault
    /\ comp[c].pc = "work" /\ comp[c].todo = {}
    /\ \E d \in OldestId(comp[c].doomed) : comp' = [comp EXCEPT ![c].doomed = @ \ {d}]
    /\ UNCHANGED <<logVars, archive, unarchived, events, compacted>>

Deleted(c) == comp[c].pc = "work" /\ comp[c].todo = {} /\ comp[c].doomed = {}

\* The summary is the newest message of the session, and of no run.
CreateSummary(c) ==
    /\ Deleted(c) /\ comp[c].summing
    /\ Insert([Fresh(NoRun, "assistant", {Text}) EXCEPT !.summary = TRUE])
    /\ comp' = [comp EXCEPT ![c].pc = "fill", ![c].written = count + 1]
    /\ UNCHANGED <<runs, calls, archive, unarchived, events, compacted, faults>>

FillSummary(c) ==
    /\ comp[c].pc = "fill"
    /\ \E m \in log : m.id = comp[c].written /\ Fill(m)
    /\ Move(c, "count")
    /\ UNCHANGED <<count, runs, calls, archive, unarchived, events, compacted, faults>>

SummaryFails(c) ==
    /\ Fault
    /\ (Deleted(c) /\ comp[c].summing) \/ comp[c].pc = "fill"
    /\ Move(c, "count")
    /\ UNCHANGED <<logVars, archive, unarchived, events, compacted>>

\* Not incremented: set to 1.
UpdateCount(c) ==
    /\ comp[c].pc = "count" \/ (Deleted(c) /\ ~comp[c].summing)
    /\ Move(c, "done")
    /\ compacted' = 1
    /\ UNCHANGED <<logVars, archive, unarchived, events, faults>>

\* Reading, summarising or the event's insert fails, the last update does, or the
\* process ends.
GiveUp(c) ==
    /\ Fault
    /\ comp[c].pc \notin {"before", "done"}
    /\ Move(c, "done")
    /\ UNCHANGED <<logVars, archive, unarchived, events, compacted>>

\* The application's own UPDATE of is_preserved (docs/compaction.md).
MarkPreserved ==
    /\ \E m \in log :
          /\ m.id \in Markable /\ ~m.kept
          /\ log' = (log \ {m}) \cup {[m EXCEPT !.kept = TRUE]}
    /\ UNCHANGED <<count, runs, calls, compVars>>

CompactStep(c) ==
    \/ CheckNeed(c) \/ CallCompact(c) \/ PlanCompaction(c) \/ CreateEvent(c)
    \/ ArchiveMessage(c) \/ ArchiveFails(c) \/ DeleteMessage(c) \/ DeleteFails(c)
    \/ CreateSummary(c) \/ FillSummary(c) \/ SummaryFails(c)
    \/ UpdateCount(c) \/ GiveUp(c)

CompNext ==
    \/ LogNext /\ UNCHANGED compVars
    \/ MarkPreserved
    \/ \E c \in Compactors : CompactStep(c)

CompSpec == LogInit /\ CompInit /\ [][CompNext]_<<logVars, compVars>>

-----------------------------------------------------------------------------
(* Properties.                                                             *)

\* A message that was ever written is in the session, or the archive holds it with its
\* content, unless its own insert into the archive was reported to fail
\* (compaction.go:254-280): wherever compactions overlap, stop half-way or archive what
\* another has archived.  There is one gap: of a message that a compaction has read
\* between the insert of its row and that of its blocks the archive keeps a copy without
\* content for good, docs/compaction.md:322-329 notwithstanding.
NothingLost ==
    \A id \in 1 .. count :
        \/ id \in Ids(log) \cup unarchived
        \/ \E m \in archive : m.id = id /\ (m.filled \/ \E c \in Compactors : id \in comp[c].blank)

\* A message that is gone from the session is told of in a summary that is in it, or
\* soon will be, by a compaction that had it summarised.  Only two kinds are not: what
\* a compaction that had it summarised read before its blocks were there, and what
\* a hybrid compaction without a summary deleted for a long tool result, instead of
\* shortening it (hybrid.go:57, see PruningKeepsPairs); the archive has that result.
\* Wherever compactions overlap, unless one of their statements failed.
NothingForgotten ==
    faults = 0 =>
        \A id \in 1 .. count : id \notin Ids(log) =>
            \/ \E c \in Compactors : /\ id \in comp[c].pruned
                                     /\ \E m \in archive : m.id = id /\ LongBlocks(m) # {}
            \/ \E c \in Compactors : comp[c].summing /\ id \in comp[c].blank
            \/ \E c \in Compactors :
                  /\ id \in comp[c].covers
                  /\ \/ comp[c].pc = "work"
                     \/ \E m \in log : m.id = comp[c].written /\ m.summary

\* Pruning shortens long tool outputs and "Preserves tool structure and metadata"
\* (docs/compaction.md:102-103): while no compaction has made a summary, no request lacks
\* the result of a use for it.
PruningKeepsPairs ==
    (\A c \in Compactors : ~comp[c].summing) =>
        \A r \in SessionRuns : runs[r].at = "ask" =>
            \A m \in Request(r), u \in Uses : UseOf(u) \in m.body =>
                Abandoned(r, u) \/ \E n \in Request(r) : ResultOf(u) \in n.body

\* What compaction.go:283-291 deletes has at least PreserveLastN newer messages left
\* in the session at that moment, and is no summary, however much time has passed
\* since the messages were parted and whatever else was deleted meanwhile.
DeletesOldOnly ==
    [][\A m \in log : m.id \notin Ids(log') =>
          /\ Cardinality({n \in log : n.id > m.id}) >= PreserveLastN
          /\ ~m.summary]_<<logVars, compVars>>
=============================================================================
