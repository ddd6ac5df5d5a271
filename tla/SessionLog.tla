------------------------------ MODULE SessionLog ------------------------------
(***************************************************************************)
(* The messages of one session: what the runs of the session and the runs  *)
(* they delegate to write, and what each of them sends to the model.       *)
(*                                                                         *)
(* RunLifecycle and ToolExecution have the workers, their claims and       *)
(* faults; here a run has one worker, which stops where the run fails.     *)
(* A message is inserted first and its content blocks after it, except by  *)
(* the SQL function that continues a run.                                  *)
(***************************************************************************)
EXTENDS Naturals, FiniteSets

CONSTANTS
    Roots,      \* runs started by a client, depth 0
    Kids,       \* runs started for a call of an agent, depth > 0
    Uses,       \* tool_use IDs the model may answer with
    LongUses,   \* those whose results are longer than "[TOOL OUTPUT PRUNED]"
    NoRun,      \* run_id NULL
    NoUse,      \* a block, or a run, without tool use
    MaxTurns    \* bound: answers of the model to one run

ASSUME RunsAssumption == Roots \cap Kids = {} /\ NoRun \notin Roots \cup Kids
ASSUME UsesAssumption == NoUse \notin Uses /\ LongUses \subseteq Uses
ASSUME TurnsAssumption == MaxTurns \in Nat

VARIABLES
    log,    \* agentpg_messages of the session, with their content blocks
    count,  \* messages ever inserted; id stands for created_at
    runs,   \* agentpg_runs of the session and what their worker is about to do
    calls   \* agentpg_tool_executions of the session, by tool_use ID

logVars == <<log, count, runs, calls>>

SessionRuns == Roots \cup Kids
Steps == {"idle", "prompt", "prompting", "ask", "answering", "answered"}
LiveStates == {"pending", "running", "pending_tools"}

Text == [kind |-> "text", use |-> NoUse]
UseOf(u) == [kind |-> "use", use |-> u]
ResultOf(u) == [kind |-> "result", use |-> u]
Blocks == {Text} \cup {UseOf(u) : u \in Uses} \cup {ResultOf(u) : u \in Uses}

Message ==
    [id : Nat, run : SessionRuns \cup {NoRun}, role : {"user", "assistant"},
     body : SUBSET Blocks, filled : BOOLEAN, kept : BOOLEAN, summary : BOOLEAN]

RunOfSession ==
    [state : LiveStates \cup {"none", "completed", "failed"}, at : Steps,
     turn : Nat, asks : Uses \cup {NoUse}]

CallOfSession ==
    [state : {"none", "asked", "pending", "running", "ended"},
     of : SessionRuns \cup {NoRun}, turn : Nat, kid : Kids \cup {NoRun}]

LogTypeOK ==
    /\ count \in Nat
    /\ log \subseteq Message
    /\ \A m \in log : m.id \in 1 .. count
    /\ \A m, n \in log : m.id = n.id => m = n
    /\ runs \in [SessionRuns -> RunOfSession]
    /\ calls \in [Uses -> CallOfSession]

LogInit ==
    /\ log = {}
    /\ count = 0
    /\ runs = [r \in SessionRuns |-> [state |-> "none", at |-> "idle", turn |-> 0, asks |-> NoUse]]
    /\ calls = [u \in Uses |-> [state |-> "none", of |-> NoRun, turn |-> 0, kid |-> NoRun]]

-----------------------------------------------------------------------------
(* What is read.                                                           *)

\* Mutant of Context: a run sees the messages of all.
ContextOfSession(r) == IF r \in Kids THEN {m \in log : m.run = r} ELSE log

\* GetMessagesForRunContext: a nested run sees its own messages, a root run those of
\* the root runs and those of no run.  Messages without content are skipped.
Context(r) ==
    {m \in log : IF r \in Kids THEN m.run = r ELSE m.run \notin Kids}

Request(r) == {m \in Context(r) : m.filled}

\* The request has one API message for consecutive messages S of one role: n is in
\* the API message after the one m is in.
InNextTurn(S, m, n) ==
    /\ m.id < n.id /\ m.role # n.role
    /\ \A o, p \in S : m.id < o.id /\ o.id < p.id /\ p.id < n.id =>
                           ~(o.role = n.role /\ p.role = m.role)

-----------------------------------------------------------------------------
(* What is written.                                                        *)

Insert(m) ==
    /\ count' = count + 1
    /\ log' = log \cup {[m EXCEPT !.id = count + 1]}

\* A message as its first statement leaves it.
Fresh(r, role, body) ==
    [id |-> 0, run |-> r, role |-> role, body |-> body,
     filled |-> FALSE, kept |-> FALSE, summary |-> FALSE]

\* CreateContentBlocks of a message still there: a foreign key.
Fill(m) ==
    /\ m \in log /\ ~m.filled
    /\ log' = (log \ {m}) \cup {[m EXCEPT !.filled = TRUE]}

\* What the trigger makes of the call a run was started for, when the run ends.
ParentTold(r) ==
    [u \in Uses |-> IF runs[r].asks = u /\ calls[u].state = "running"
                    THEN [calls[u] EXCEPT !.state = "ended"] ELSE calls[u]]

Submit(r) ==
    /\ r \in Roots /\ runs[r].state = "none"
    /\ runs' = [runs EXCEPT ![r].state = "pending"]
    /\ UNCHANGED <<log, count, calls>>

Take(r) ==
    /\ runs[r].state = "pending"
    /\ runs' = [runs EXCEPT ![r].state = "running",
                            ![r].at = IF runs[r].turn = 0 THEN "prompt" ELSE "ask"]
    /\ UNCHANGED <<log, count, calls>>

InsertPrompt(r) ==
    /\ runs[r].at = "prompt"
    /\ Insert(Fresh(r, "user", {Text}))
    /\ runs' = [runs EXCEPT ![r].at = "prompting"]
    /\ UNCHANGED calls

\* The model answers with text, or asks for tools it has not asked for before.
InsertAnswer(r) ==
    /\ runs[r].at = "ask" /\ runs[r].turn < MaxTurns
    /\ \E U \in SUBSET {u \in Uses : calls[u].state = "none"} :
          /\ runs[r].turn + 1 = MaxTurns => U = {}
          /\ Insert(Fresh(r, "assistant", IF U = {} THEN {Text} ELSE {UseOf(u) : u \in U}))
          /\ calls' = [u \in Uses |-> IF u \in U
                                      THEN [calls[u] EXCEPT !.state = "asked", !.of = r,
                                                            !.turn = runs[r].turn + 1]
                                      ELSE calls[u]]
    /\ runs' = [runs EXCEPT ![r].at = "answering", ![r].turn = @ + 1]

FillOwn(r) ==
    /\ runs[r].at \in {"prompting", "answering"}
    /\ \E m \in log : m.run = r /\ Fill(m)
    /\ runs' = [runs EXCEPT ![r].at = IF @ = "prompting" THEN "ask" ELSE "answered"]
    /\ UNCHANGED <<count, calls>>

\* Mutant of SettleTurn: the run is settled before the content of its message is there.
SettleEarly(r) ==
    /\ runs[r].at \in {"answering", "answered"}
    /\ LET asked == {u \in Uses : calls[u].of = r /\ calls[u].state = "asked"} IN
       IF asked = {}
       THEN /\ runs' = [runs EXCEPT ![r].state = "completed", ![r].at = "idle"]
            /\ calls' = ParentTold(r)
       ELSE /\ runs' = [runs EXCEPT ![r].state = "pending_tools", ![r].at = "idle"]
            /\ calls' = [u \in Uses |-> IF u \in asked THEN [calls[u] EXCEPT !.state = "pending"]
                                                       ELSE calls[u]]
    /\ UNCHANGED <<log, count>>

\* The run is settled after its message was written: the tool executions are
\* created with the new state, or the run is completed and its parent told.
SettleTurn(r) ==
    /\ runs[r].at = "answered"
    /\ LET asked == {u \in Uses : calls[u].of = r /\ calls[u].state = "asked"} IN
       IF asked = {}
       THEN /\ runs' = [runs EXCEPT ![r].state = "completed", ![r].at = "idle"]
            /\ calls' = ParentTold(r)
       ELSE /\ runs' = [runs EXCEPT ![r].state = "pending_tools", ![r].at = "idle"]
            /\ calls' = [u \in Uses |-> IF u \in asked THEN [calls[u] EXCEPT !.state = "pending"]
                                                       ELSE calls[u]]
    /\ UNCHANGED <<log, count>>

\* A tool returns or fails for good; an agent's call may fail before its run starts.
RunTool(u) ==
    /\ calls[u].state = "pending"
    /\ calls' = [calls EXCEPT ![u].state = "ended"]
    /\ UNCHANGED <<log, count, runs>>

\* The child run is created in the session of its parent, one level deeper.
Delegate(u, k) ==
    /\ calls[u].state = "pending"
    /\ k \in Kids /\ runs[k].state = "none"
    /\ calls' = [calls EXCEPT ![u].state = "running"]
    /\ runs' = [runs EXCEPT ![k].state = "pending", ![k].asks = u]
    /\ UNCHANGED <<log, count>>

\* A second statement stores child_run_id; the call may have ended by then.
LinkChild(k) ==
    /\ k \in Kids /\ runs[k].asks # NoUse
    /\ calls[runs[k].asks].kid = NoRun
    /\ calls' = [calls EXCEPT ![runs[k].asks].kid = k]
    /\ UNCHANGED <<log, count, runs>>

\* The tool results of the turn and the state are written in one transaction.
ContinueTurn(r) ==
    /\ runs[r].state = "pending_tools"
    /\ LET asked == {u \in Uses : calls[u].of = r /\ calls[u].turn = runs[r].turn} IN
          /\ \A u \in asked : calls[u].state = "ended"
          /\ Insert([Fresh(r, "user", {ResultOf(u) : u \in asked}) EXCEPT !.filled = TRUE])
    /\ runs' = [runs EXCEPT ![r].state = "pending"]
    /\ UNCHANGED calls

\* A failed statement, a failed call of the API, a cleaned-up instance.
FailSessionRun(r) ==
    /\ runs[r].state \in LiveStates
    /\ runs' = [runs EXCEPT ![r].state = "failed", ![r].at = "idle"]
    /\ calls' = ParentTold(r)
    /\ UNCHANGED <<log, count>>

RunWrites(r) ==
    \/ Submit(r) \/ Take(r) \/ InsertPrompt(r) \/ InsertAnswer(r) \/ FillOwn(r)
    \/ SettleTurn(r) \/ ContinueTurn(r) \/ FailSessionRun(r) \/ LinkChild(r)

LogNext ==
    \/ \E r \in SessionRuns : RunWrites(r)
    \/ \E u \in Uses : RunTool(u) \/ \E k \in Kids : Delegate(u, k)

-----------------------------------------------------------------------------
(* Properties.                                                             *)

\* Whose unfinished turn, or whose message in between, may come between a use and
\* its result in a request of r: that of another root run of the session.
Abandoned(r, u) == calls[u].of # r /\ runs[calls[u].of].state # "completed"

Interleaved(S, m, n) ==
    \E o \in S : (m.id < o.id /\ o.id < n.id) /\ (o.run # m.run) /\ (o.run \notin Kids)

Removed(b) == count > Cardinality(log) /\ ~\E m \in log : b \in m.body

\* The model's API rejects a request in which a tool use is not answered in the
\* next message.  A run about to send one (run_worker.go:219, streaming_worker.go:397)
\* has such a use only when another root run of the session left its turn
\* unfinished, wrote between the two, or a compaction removed one of them or put
\* its summary between them.  The messages of child runs, which are in the same
\* session and are written between every use of an agent and its result, never are
\* the reason; a child run's own request can only suffer from a compaction.
RequestPaired ==
    \A r \in SessionRuns : runs[r].at = "ask" =>
        LET S == Request(r) IN
        \A m \in S, u \in Uses :
            /\ UseOf(u) \in m.body =>
                  \/ \E n \in S : ResultOf(u) \in n.body
                                  /\ (InNextTurn(S, m, n) \/ Interleaved(S, m, n))
                  \/ Abandoned(r, u)
                  \/ Removed(ResultOf(u))
            /\ ResultOf(u) \in m.body =>
                  \/ \E n \in S : UseOf(u) \in n.body
                                  /\ (InNextTurn(S, n, m) \/ Interleaved(S, n, m))
                  \/ Removed(UseOf(u))
=============================================================================
