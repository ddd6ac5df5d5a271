---------------------------- MODULE RunLifecycle ----------------------------
(***************************************************************************)
(* The life of agent runs: rows of agentpg_runs shared by several client   *)
(* instances through PostgreSQL.  Every instance has a batch run worker, a *)
(* streaming run worker, a batch poller, a tool worker and a rescuer; the  *)
(* leader's rescuer and cleanup repair what a dead instance left behind.   *)
(*                                                                         *)
(* One action is one autocommitted statement, one stored procedure or one  *)
(* call of the Claude API, with the local computation that leads to it.    *)
(* Between two of them any other process may act.  Tool executions are     *)
(* abstracted to "iteration n of run r has executions that are not done".  *)
(***************************************************************************)
EXTENDS Naturals, Sequences, FiniteSets

CONSTANTS
    Runs,         \* rows of agentpg_runs
    Instances,    \* client instances, by instance ID
    None,         \* SQL NULL
    RunMode,      \* run_mode of each run: "batch" or "streaming"
    Tooled,       \* the runs whose agent requires registered tools
    MaxTurns,     \* bound: the model asks for tools in iterations 1..MaxTurns
    MaxIter,      \* bound: iterations per run
    MaxClaim,     \* MaxConcurrentRuns and MaxConcurrentStreamingRuns
    MaxRescue,    \* RunRescueConfig.MaxRescueAttempts
    MayLead,      \* instances for which IsLeader may answer TRUE
    MayCrash,     \* instances that may stop
    Faults        \* what else may go wrong, see below

Modes == {"batch", "streaming"}

\* slow        a claim grows older than RescueTimeout while no worker holds the
\*             run: batches take minutes to hours, claimed_at is not refreshed
\* timeout     so does a claim whose worker is slow, or busy with other runs
\* restart     a stopped instance starts again under its configured ID
\* stall       the heartbeat of a live instance is late, its row is deleted
\* fast_batch  a batch ends before its submitter has updated the run
\* lost_result a batch is canceled or expires, or has no result for the request
\* error       statements and API calls fail
\* late_notify completions are handled so late that the model has already replied
\*             to the next turn
FaultKinds == {"slow", "timeout", "restart", "stall", "fast_batch", "lost_result",
               "error", "late_notify"}

ASSUME RunsAssumption == RunMode \in [Runs -> Modes] /\ Tooled \subseteq Runs
ASSUME NoneAssumption == None \notin Runs /\ None \notin Instances
ASSUME BoundsAssumption ==
    MaxTurns \in Nat /\ MaxIter \in Nat /\ MaxClaim \in Nat /\ MaxRescue \in Nat
ASSUME FaultsAssumption ==
    MayLead \subseteq Instances /\ MayCrash \subseteq Instances /\ Faults \subseteq FaultKinds

Iters == 1 .. MaxIter

VARIABLES
    run,      \* the row of each run
    status,   \* batch_status of each iteration's row
    api,      \* what the Claude API knows of each iteration's request
    open,     \* per run, the iterations with pending or running tool executions
    conv,     \* the messages stored for each run, in order
    note,     \* runs with an unhandled tools_complete notification
    hand,     \* each instance's handleAllToolsComplete
    work,     \* the run worker and the streaming worker of each instance
    poll,     \* the batch poller of each instance
    stuck,    \* the rescuer's list on each instance
    up, row   \* the process lives; its row is in agentpg_instances

vars == <<run, status, api, open, conv, note, hand, work, poll, stuck, up, row>>

-----------------------------------------------------------------------------
(* Rows and messages *)

Terminal == {"completed", "failed"}
InFlight == {"batch_submitting", "batch_pending", "batch_processing",
             "streaming", "pending_tools"}
RunStates == {"absent", "pending"} \cup InFlight \cup Terminal

Row == [state : RunStates, final : BOOLEAN, claimed : Instances \cup {None},
        aged : BOOLEAN, cur : 0 .. MaxIter, rescues : Nat]

Statuses == {"absent", "created", "in_progress", "canceling", "ended"}
Replies  == {"tools", "text", "errored", "lost"}
Message  == [kind : {"prompt", "tools", "text", "tool_result"}, iter : 0 .. MaxIter]

IsTerminal(r) == run[r].state \in Terminal

\* Mutant of Consistent: the table has no CHECK.
ConsistentUnchecked(new) == new \in Row

\* CHECK run_finalized_consistency, evaluated on the row an UPDATE produces.
Consistent(new) == new.final <=> new.state \in Terminal

\* UPDATE agentpg_runs: the row changes, or the CHECK rejects the statement.
Write(r, new) == run' = IF Consistent(new) THEN [run EXCEPT ![r] = new] ELSE run

Said(r, kind, n) == conv' = [conv EXCEPT ![r] = Append(@, [kind |-> kind, iter |-> n])]

\* UpdateRunState(failed) with finalized_at, as the workers and the poller do.
FailedRow(r) == [run[r] EXCEPT !.state = "failed", !.final = TRUE]

\* What processResult makes of the run: tool executions to wait for, or the end.
\* finalized_at is written with "completed" only.
SettledRow(r, n) ==
    IF api[r][n] = "tools"
    THEN [run[r] EXCEPT !.state = "pending_tools"]
    ELSE [run[r] EXCEPT !.state = "completed", !.final = TRUE]

\* CreateToolExecutionsAndUpdateRunState or UpdateRunState(completed): the
\* executions and the new state are one transaction, undone by the CHECK.
Settle(r, n) ==
    /\ Write(r, SettledRow(r, n))
    /\ open' = IF api[r][n] = "tools" /\ Consistent(SettledRow(r, n))
               THEN [open EXCEPT ![r] = @ \cup {n}] ELSE open

-----------------------------------------------------------------------------
(* Workers and pollers.  A worker holds one run and the queue of the runs it *)
(* claimed with it; base is current_iteration in the row it claimed.         *)

WorkerPCs == {"idle", "prompt", "iterate", "submit", "record", "advance",
              "begin", "stream", "respond", "settle", "fail"}
Task   == [run : Runs, base : 0 .. MaxIter]
Worker == [pc : WorkerPCs, run : Runs \cup {None}, base : 0 .. MaxIter, queue : SUBSET Task]
Rest   == [pc |-> "idle", run |-> None, base |-> 0, queue |-> {}]

PollerPCs == {"idle", "seen", "mark", "cancel", "ended", "fetch", "respond", "settle", "fail"}
Poller == [pc : PollerPCs, run : Runs \cup {None}, iter : 0 .. MaxIter,
           list : SUBSET (Runs \X Iters)]
Quiet  == [pc |-> "idle", run |-> None, iter |-> 0, list |-> {}]

\* The tool worker's handler of one completion: the run it is to read, then the run and
\* the iteration it has read.  Its three statements are GetRun, the executions of that
\* iteration, and the procedure; the second only reads what ToolExecution has in detail.
Hand   == [pc : {"idle", "read", "continue"}, run : Runs \cup {None}, iter : 0 .. MaxIter]
Unused == [pc |-> "idle", run |-> None, iter |-> 0]

At(i, m, pc) == up[i] /\ work[i][m].pc = pc
Polls(i, pc) == up[i] /\ poll[i].pc = pc
Handles(i, pc) == up[i] /\ hand[i].pc = pc

\* From the insert of an iteration to the end of processRun.
Preparing == {"submit", "record", "advance", "begin", "stream", "respond", "settle"}

Goto(i, m, pc) == work' = [work EXCEPT ![i][m].pc = pc]
Next1(i, m)    == work' = [work EXCEPT ![i][m].pc = "idle", ![i][m].run = None,
                                       ![i][m].base = 0]
PollGoto(i, pc) == poll' = [poll EXCEPT ![i].pc = pc]
PollNext(i)     == poll' = [poll EXCEPT ![i].pc = "idle", ![i].run = None, ![i].iter = 0]

-----------------------------------------------------------------------------
Init ==
    /\ run = [r \in Runs |-> [state |-> "absent", final |-> FALSE, claimed |-> None,
                              aged |-> FALSE, cur |-> 0, rescues |-> 0]]
    /\ status = [r \in Runs |-> [n \in Iters |-> "absent"]]
    /\ api = [r \in Runs |-> [n \in Iters |-> "none"]]
    /\ open = [r \in Runs |-> {}]
    /\ conv = [r \in Runs |-> <<>>]
    /\ note = {}
    /\ hand = [i \in Instances |-> Unused]
    /\ work = [i \in Instances |-> [m \in Modes |-> Rest]]
    /\ poll = [i \in Instances |-> Quiet]
    /\ stuck = [i \in Instances |-> {}]
    /\ up = [i \in Instances |-> TRUE]
    /\ row = [i \in Instances |-> TRUE]

\* Client.Run, Client.RunFast and the child runs of agent tools.
CreateRun(r) ==
    /\ run[r].state = "absent"
    /\ run' = [run EXCEPT ![r].state = "pending"]
    /\ UNCHANGED <<status, api, open, conv, note, hand, work, poll, stuck, up, row>>

\* Mutant of Claimable: runs that a worker is preparing may be claimed again.
ClaimableTwice(i, m) ==
    {r \in Runs : /\ run[r].state \in {"pending", "batch_submitting", "streaming"}
                  /\ RunMode[r] = m /\ (r \in Tooled => row[i]) /\ run[r].cur < MaxIter}

\* agentpg_claim_runs.  instance_tools rows are deleted with the instance's row.
Claimable(i, m) ==
    {r \in Runs : /\ run[r].state = "pending" /\ run[r].claimed = None
                  /\ RunMode[r] = m
                  /\ r \in Tooled => row[i]
                  /\ run[r].cur < MaxIter}

\* processRuns: the worker claims again only when it is done with its batch.
\* LIMIT and SKIP LOCKED return some of the claimable rows.
Claim(i, m) ==
    /\ At(i, m, "idle") /\ work[i][m].queue = {}
    /\ \E S \in (SUBSET Claimable(i, m)) \ {{}} :
        /\ Cardinality(S) <= MaxClaim
        /\ run' = [r \in Runs |->
                     IF r \in S
                     THEN [run[r] EXCEPT !.claimed = i, !.aged = FALSE,
                             !.state = IF m = "batch" THEN "batch_submitting" ELSE "streaming"]
                     ELSE run[r]]
        /\ work' = [work EXCEPT ![i][m].queue = {[run |-> r, base |-> run[r].cur] : r \in S}]
    /\ UNCHANGED <<status, api, open, conv, note, hand, poll, stuck, up, row>>

\* processRun takes the next claimed run; its iteration comes from the claimed row.
Take(i, m) ==
    /\ At(i, m, "idle")
    /\ \E t \in work[i][m].queue :
        work' = [work EXCEPT ![i][m] =
                   [pc |-> IF t.base = 0 THEN "prompt" ELSE "iterate",
                    run |-> t.run, base |-> t.base, queue |-> @.queue \ {t}]]
    /\ UNCHANGED <<run, status, api, open, conv, note, hand, poll, stuck, up, row>>

CreatePrompt(i, m) ==
    /\ At(i, m, "prompt")
    /\ Said(work[i][m].run, "prompt", 0)
    /\ Goto(i, m, "iterate")
    /\ UNCHANGED <<run, status, api, open, note, hand, poll, stuck, up, row>>

\* Mutant of CreateIteration: no UNIQUE constraint, or an upsert.
CreateIterationAgain(i, m) ==
    /\ At(i, m, "iterate")
    /\ status' = [status EXCEPT ![work[i][m].run][work[i][m].base + 1] = "created"]
    /\ Goto(i, m, IF m = "batch" THEN "submit" ELSE "begin")
    /\ UNCHANGED <<run, api, open, conv, note, hand, poll, stuck, up, row>>

\* CreateIteration: UNIQUE (run_id, iteration_number) makes a second insert fail.
CreateIteration(i, m) ==
    LET r == work[i][m].run
        n == work[i][m].base + 1
        new == status[r][n] = "absent"
    IN  /\ At(i, m, "iterate")
        /\ status' = IF new THEN [status EXCEPT ![r][n] = "created"] ELSE status
        /\ Goto(i, m, IF ~new THEN "fail" ELSE IF m = "batch" THEN "submit" ELSE "begin")
        /\ UNCHANGED <<run, api, open, conv, note, hand, poll, stuck, up, row>>

\* Batch mode: Batches.New ...
SubmitBatch(i, m) ==
    LET r == work[i][m].run  n == work[i][m].base + 1 IN
    /\ At(i, m, "submit")
    /\ api' = [api EXCEPT ![r][n] = "running"]
    /\ Goto(i, m, "record")
    /\ UNCHANGED <<run, status, open, conv, note, hand, poll, stuck, up, row>>

\* ... then UpdateIteration with the batch's ID and status ...
RecordBatch(i, m) ==
    LET r == work[i][m].run  n == work[i][m].base + 1 IN
    /\ At(i, m, "record")
    /\ status' = [status EXCEPT ![r][n] = "in_progress"]
    /\ Goto(i, m, "advance")
    /\ UNCHANGED <<run, api, open, conv, note, hand, poll, stuck, up, row>>

\* Mutant of AdvancedRow: the state only.
AdvancedRowBehind(r, n) == [run[r] EXCEPT !.state = "batch_pending"]

\* ... then UpdateRunState(batch_pending) with the current iteration.
AdvancedRow(r, n) == [run[r] EXCEPT !.state = "batch_pending", !.cur = n]
AdvanceRun(i, m) ==
    LET r == work[i][m].run  n == work[i][m].base + 1 IN
    /\ At(i, m, "advance")
    /\ Write(r, AdvancedRow(r, n))
    /\ IF Consistent(AdvancedRow(r, n)) THEN Next1(i, m) ELSE Goto(i, m, "fail")
    /\ UNCHANGED <<status, api, open, conv, note, hand, poll, stuck, up, row>>

\* Streaming mode: UpdateIteration with the start time, UpdateRun with the
\* current iteration (the state is not written) ...
BeginStream(i, m) ==
    LET r == work[i][m].run  n == work[i][m].base + 1 IN
    /\ At(i, m, "begin")
    /\ run' = [run EXCEPT ![r].cur = n]
    /\ Goto(i, m, "stream")
    /\ UNCHANGED <<status, api, open, conv, note, hand, poll, stuck, up, row>>

\* Without "late_notify", who has begun to handle a completion of the run is done, in
\* milliseconds, before the model has answered the next request, in seconds.
Settled(r) == "late_notify" \in Faults \/ \A i \in Instances : hand[i].run # r

\* ... Messages.NewStreaming ...
StreamReply(i, m) ==
    LET r == work[i][m].run  n == work[i][m].base + 1 IN
    /\ At(i, m, "stream") /\ Settled(r)
    /\ \E reply \in {"text"} \cup (IF n <= MaxTurns THEN {"tools"} ELSE {}) :
        api' = [api EXCEPT ![r][n] = reply]
    /\ Goto(i, m, "respond")
    /\ UNCHANGED <<run, status, open, conv, note, hand, poll, stuck, up, row>>

\* ... and processResult: the assistant message and the iteration's row ...
StreamRespond(i, m) ==
    LET r == work[i][m].run  n == work[i][m].base + 1 IN
    /\ At(i, m, "respond")
    /\ Said(r, api[r][n], n)
    /\ Goto(i, m, "settle")
    /\ UNCHANGED <<run, status, api, open, note, hand, poll, stuck, up, row>>

\* ... then the run's next state.  A rejected write is an error of processRun.
StreamSettle(i, m) ==
    LET r == work[i][m].run  n == work[i][m].base + 1 IN
    /\ At(i, m, "settle")
    /\ Settle(r, n)
    /\ IF Consistent(SettledRow(r, n)) THEN Next1(i, m) ELSE Goto(i, m, "fail")
    /\ UNCHANGED <<status, api, conv, note, hand, poll, stuck, up, row>>

\* failRun: unconditional on the state and on who owns the run.
FailRun(i, m) ==
    /\ At(i, m, "fail")
    /\ Write(work[i][m].run, FailedRow(work[i][m].run))
    /\ Next1(i, m)
    /\ UNCHANGED <<status, api, open, conv, note, hand, poll, stuck, up, row>>

\* Any statement or API call of processRun may fail; when failRun fails too the
\* error is logged and the worker goes on.
WorkerError(i, m) ==
    /\ "error" \in Faults
    /\ up[i] /\ work[i][m].pc # "idle"
    /\ IF work[i][m].pc = "fail" THEN Next1(i, m) ELSE Goto(i, m, "fail")
    /\ UNCHANGED <<run, status, api, open, conv, note, hand, poll, stuck, up, row>>

-----------------------------------------------------------------------------
(* The batch poller *)

\* agentpg_get_iterations_for_poll: by the run's owner, whatever the run's state
\* and current iteration.
Pollable(i) ==
    {p \in Runs \X Iters : status[p[1]][p[2]] = "in_progress" /\ run[p[1]].claimed = i}

ListIterations(i) ==
    /\ Polls(i, "idle") /\ poll[i].list = {} /\ Pollable(i) # {}
    /\ poll' = [poll EXCEPT ![i].list = Pollable(i)]
    /\ UNCHANGED <<run, status, api, open, conv, note, hand, work, stuck, up, row>>

\* Batches.Get
GetBatch(i) ==
    /\ Polls(i, "idle")
    /\ \E p \in poll[i].list :
        poll' = [poll EXCEPT ![i] =
                   [pc |-> CASE api[p[1]][p[2]] = "running"   -> "seen"
                             [] api[p[1]][p[2]] = "canceling" -> "cancel"
                             [] OTHER                         -> "ended",
                    run |-> p[1], iter |-> p[2], list |-> @.list \ {p}]]
    /\ UNCHANGED <<run, status, api, open, conv, note, hand, work, stuck, up, row>>

\* A batch in progress: GetRun, and a write if the state was batch_pending.
ReadRun(i) ==
    /\ Polls(i, "seen")
    /\ IF run[poll[i].run].state = "batch_pending" THEN PollGoto(i, "mark") ELSE PollNext(i)
    /\ UNCHANGED <<run, status, api, open, conv, note, hand, work, stuck, up, row>>

MarkProcessing(i) ==
    /\ Polls(i, "mark")
    /\ Write(poll[i].run, [run[poll[i].run] EXCEPT !.state = "batch_processing"])
    /\ PollNext(i)
    /\ UNCHANGED <<status, api, open, conv, note, hand, work, stuck, up, row>>

\* A batch being canceled: the iteration leaves "in_progress" for good.
MarkCanceling(i) ==
    /\ Polls(i, "cancel")
    /\ status' = [status EXCEPT ![poll[i].run][poll[i].iter] = "canceling"]
    /\ PollNext(i)
    /\ UNCHANGED <<run, api, open, conv, note, hand, work, stuck, up, row>>

\* Mutant of MarkEnded: the status is not written.
MarkEndedForgotten(i) ==
    /\ Polls(i, "ended")
    /\ PollGoto(i, "fetch")
    /\ UNCHANGED <<run, status, api, open, conv, note, hand, work, stuck, up, row>>

\* handleBatchComplete writes "ended" first: the iteration is not listed again.
MarkEnded(i) ==
    /\ Polls(i, "ended")
    /\ status' = [status EXCEPT ![poll[i].run][poll[i].iter] = "ended"]
    /\ PollGoto(i, "fetch")
    /\ UNCHANGED <<run, api, open, conv, note, hand, work, stuck, up, row>>

\* Mutant of FetchResult: a missing result is not noticed.
FetchResultUnchecked(i) ==
    /\ Polls(i, "fetch")
    /\ PollGoto(i, IF api[poll[i].run][poll[i].iter] = "errored" THEN "fail" ELSE "respond")
    /\ UNCHANGED <<run, status, api, open, conv, note, hand, work, stuck, up, row>>

\* fetchBatchResult: a missing result is logged only, an errored one fails the run.
FetchResult(i) ==
    LET reply == api[poll[i].run][poll[i].iter] IN
    /\ Polls(i, "fetch")
    /\ IF reply \in {"tools", "text"} THEN PollGoto(i, "respond")
       ELSE IF reply = "errored" THEN PollGoto(i, "fail") ELSE PollNext(i)
    /\ UNCHANGED <<run, status, api, open, conv, note, hand, work, stuck, up, row>>

PollRespond(i) ==
    LET r == poll[i].run  n == poll[i].iter IN
    /\ Polls(i, "respond")
    /\ Said(r, api[r][n], n)
    /\ PollGoto(i, "settle")
    /\ UNCHANGED <<run, status, api, open, note, hand, work, stuck, up, row>>

\* A rejected write is logged; the run keeps its state.
PollSettle(i) ==
    /\ Polls(i, "settle")
    /\ Settle(poll[i].run, poll[i].iter)
    /\ PollNext(i)
    /\ UNCHANGED <<status, api, conv, note, hand, work, stuck, up, row>>

PollFail(i) ==
    /\ Polls(i, "fail")
    /\ Write(poll[i].run, FailedRow(poll[i].run))
    /\ PollNext(i)
    /\ UNCHANGED <<status, api, open, conv, note, hand, work, stuck, up, row>>

\* A failed fetch fails the run, any other error is logged.
PollError(i) ==
    /\ "error" \in Faults
    /\ up[i] /\ poll[i].pc # "idle"
    /\ IF poll[i].pc = "fetch" THEN PollGoto(i, "fail") ELSE PollNext(i)
    /\ UNCHANGED <<run, status, api, open, conv, note, hand, work, stuck, up, row>>

-----------------------------------------------------------------------------
(* The Claude batch API, the tools and their continuation *)

\* Another process is between Batches.New and UpdateRunState for this request.
Submitting(r, n) ==
    \E i \in Instances : /\ work[i]["batch"].pc \in {"record", "advance"}
                         /\ work[i]["batch"].run = r /\ work[i]["batch"].base + 1 = n

BatchReplies(n) ==
    {"text", "errored"} \cup (IF n <= MaxTurns THEN {"tools"} ELSE {})
                        \cup (IF "lost_result" \in Faults THEN {"lost"} ELSE {})

EndBatch(r, n) ==
    /\ api[r][n] = "running" /\ Settled(r)
    /\ Submitting(r, n) => "fast_batch" \in Faults
    /\ \E reply \in BatchReplies(n) : api' = [api EXCEPT ![r][n] = reply]
    /\ UNCHANGED <<run, status, open, conv, note, hand, work, poll, stuck, up, row>>

\* Someone cancels the batch outside agentpg, then its requests have no message.
CancelBatch(r, n) ==
    /\ "lost_result" \in Faults
    /\ \/ api[r][n] = "running" /\ api' = [api EXCEPT ![r][n] = "canceling"]
       \/ api[r][n] = "canceling" /\ api' = [api EXCEPT ![r][n] = "lost"]
    /\ UNCHANGED <<run, status, open, conv, note, hand, work, poll, stuck, up, row>>

\* The last execution of an iteration ends.  The trigger counts by run.
FinishTools(r, n) ==
    /\ n \in open[r]
    /\ open' = [open EXCEPT ![r] = @ \ {n}]
    /\ note' = IF open[r] = {n} THEN note \cup {r} ELSE note
    /\ UNCHANGED <<run, status, api, conv, hand, work, poll, stuck, up, row>>

\* No instance wants the notification (full channel, reconnect), or all that do find
\* the run in another state.
DropNote(r) ==
    /\ r \in note
    /\ note' = note \ {r}
    /\ UNCHANGED <<run, status, api, open, conv, hand, work, poll, stuck, up, row>>

\* The run as GetRun returns it: one that waits, with the iteration whose executions
\* are read next.
AsRead(r) ==
    IF run[r].state = "pending_tools" /\ run[r].cur > 0
    THEN [pc |-> "continue", run |-> r, iter |-> run[r].cur] ELSE Unused

\* handleAllToolsComplete on a notification.  Every instance gets one: the run may
\* have moved on, with other instances' help, before or after it is read.
HandleNote(i, r) ==
    /\ Handles(i, "idle") /\ r \in note
    /\ AsRead(r) # Unused /\ hand' = [hand EXCEPT ![i] = AsRead(r)]
    /\ UNCHANGED <<run, status, api, open, conv, note, work, poll, stuck, up, row>>

\* Mutant of CheckStuck: the check serves notified runs only.
CheckStuckNotified(i, r) ==
    /\ Handles(i, "idle") /\ r \in note
    /\ run[r].state = "pending_tools" /\ run[r].cur \notin open[r]
    /\ hand' = [hand EXCEPT ![i].pc = "read", ![i].run = r]
    /\ UNCHANGED <<run, status, api, open, conv, note, work, poll, stuck, up, row>>

\* checkForStuckRuns, every 30 seconds on every instance, lists the runs ...
CheckStuck(i, r) ==
    /\ Handles(i, "idle")
    /\ run[r].state = "pending_tools" /\ run[r].cur \notin open[r]
    /\ hand' = [hand EXCEPT ![i].pc = "read", ![i].run = r]
    /\ UNCHANGED <<run, status, api, open, conv, note, work, poll, stuck, up, row>>

\* ... and has handleAllToolsComplete read one after the other again.
ReadListed(i, r) ==
    /\ Handles(i, "read") /\ hand[i].run = r
    /\ hand' = [hand EXCEPT ![i] = AsRead(r)]
    /\ UNCHANGED <<run, status, api, open, conv, note, work, poll, stuck, up, row>>

\* Mutant of Continued: the claim is not given up.
ContinuedClaimed(r) == [run[r] EXCEPT !.state = "pending"]

Continued(r) == [run[r] EXCEPT !.state = "pending", !.claimed = None, !.aged = FALSE]

\* agentpg_complete_tools_and_continue_run: the results are those of iteration n, in
\* whichever iteration the run waits by now.
Continue(r, n) ==
    /\ run[r].state = "pending_tools"
    /\ Said(r, "tool_result", n)
    /\ run' = [run EXCEPT ![r] = Continued(r)]
    /\ note' = IF "late_notify" \in Faults THEN note ELSE note \ {r}

ContinueRun(i, r) ==
    /\ Handles(i, "continue") /\ hand[i].run = r
    /\ Continue(r, hand[i].iter) \/ (run[r].state # "pending_tools" /\ UNCHANGED <<run, conv, note>>)
    /\ hand' = [hand EXCEPT ![i] = Unused]
    /\ UNCHANGED <<status, api, open, work, poll, stuck, up, row>>

\* A failed statement of the handler is logged.
HandError(i, r) ==
    /\ "error" \in Faults
    /\ up[i] /\ hand[i].pc # "idle" /\ hand[i].run = r
    /\ hand' = [hand EXCEPT ![i] = Unused]
    /\ UNCHANGED <<run, status, api, open, conv, note, work, poll, stuck, up, row>>

HandStep(i, r) == HandleNote(i, r) \/ CheckStuck(i, r) \/ ReadListed(i, r) \/ ContinueRun(i, r)

-----------------------------------------------------------------------------
(* Rescue *)

\* The workers that have claimed the run and are not done with it.
Holders(r) ==
    {w \in Instances \X Modes : \/ work[w[1]][w[2]].run = r
                                \/ \E t \in work[w[1]][w[2]].queue : t.run = r}

AgeClaim(r) ==
    /\ "timeout" \in Faults \/ ("slow" \in Faults /\ Holders(r) = {})
    /\ run[r].claimed # None /\ ~run[r].aged
    /\ run' = [run EXCEPT ![r].aged = TRUE]
    /\ UNCHANGED <<status, api, open, conv, note, hand, work, poll, stuck, up, row>>

\* agentpg_get_stuck_runs
StuckRuns ==
    {r \in Runs : /\ run[r].state \in InFlight
                  /\ run[r].claimed # None /\ run[r].aged
                  /\ run[r].rescues < MaxRescue
                  /\ open[r] = {}}

\* Mutant of ScanStuck: every instance rescues, leader or not.
ScanStuckEverywhere(i) ==
    /\ up[i] /\ stuck[i] = {} /\ StuckRuns # {}
    /\ stuck' = [stuck EXCEPT ![i] = {[run |-> r, attempts |-> run[r].rescues] : r \in StuckRuns}]
    /\ UNCHANGED <<run, status, api, open, conv, note, hand, work, poll, up, row>>

\* rescueStuckRuns: IsLeader, then the list; the rows are not locked afterwards.
ScanStuck(i) ==
    /\ up[i] /\ i \in MayLead /\ stuck[i] = {} /\ StuckRuns # {}
    /\ stuck' = [stuck EXCEPT ![i] = {[run |-> r, attempts |-> run[r].rescues] : r \in StuckRuns}]
    /\ UNCHANGED <<run, status, api, open, conv, note, hand, work, poll, up, row>>

\* Mutant of RescuedRow: the rescued run starts over from its prompt.
RescuedRowRestarted(r) ==
    [run[r] EXCEPT !.state = "pending", !.claimed = None, !.aged = FALSE, !.cur = 0,
                   !.rescues = @ + 1]

RescuedRow(r) ==
    [run[r] EXCEPT !.state = "pending", !.claimed = None, !.aged = FALSE, !.rescues = @ + 1]

\* One listed run: RescueRun, whatever happened to it since.  The branch for
\* exhausted attempts never sees a run, the list holds none.
RescueRun(i) ==
    /\ up[i]
    /\ \E s \in stuck[i] :
        /\ stuck' = [stuck EXCEPT ![i] = @ \ {s}]
        /\ Write(s.run, IF s.attempts >= MaxRescue THEN FailedRow(s.run) ELSE RescuedRow(s.run))
    /\ UNCHANGED <<status, api, open, conv, note, hand, work, poll, up, row>>

-----------------------------------------------------------------------------
(* Instances *)

\* A process stops: killed, or by Stop, whose cancelled context fails the
\* statements in progress, failRun's too.
Crash(i) ==
    /\ i \in MayCrash /\ up[i]
    /\ up' = [up EXCEPT ![i] = FALSE]
    /\ work' = [work EXCEPT ![i] = [m \in Modes |-> Rest]]
    /\ poll' = [poll EXCEPT ![i] = Quiet]
    /\ stuck' = [stuck EXCEPT ![i] = {}]
    /\ hand' = [hand EXCEPT ![i] = Unused]
    /\ UNCHANGED <<run, status, api, open, conv, note, row>>

\* The row goes (UnregisterInstance, or the leader's DeleteStaleInstances after
\* the heartbeat timeout); trigger agentpg_cleanup_orphaned_work fails its runs.
DeleteInstance(i) ==
    /\ row[i] /\ (up[i] => "stall" \in Faults)
    /\ row' = [row EXCEPT ![i] = FALSE]
    /\ run' = [r \in Runs |-> IF run[r].claimed = i /\ ~IsTerminal(r)
                              THEN FailedRow(r) ELSE run[r]]
    /\ UNCHANGED <<status, api, open, conv, note, hand, work, poll, stuck, up>>

\* Start under the same configured ID: RegisterInstance is an upsert.
Restart(i) ==
    /\ "restart" \in Faults /\ ~up[i]
    /\ up' = [up EXCEPT ![i] = TRUE]
    /\ row' = [row EXCEPT ![i] = TRUE]
    /\ UNCHANGED <<run, status, api, open, conv, note, hand, work, poll, stuck>>

-----------------------------------------------------------------------------
WorkerStep(i, m) ==
    \/ Take(i, m) \/ CreatePrompt(i, m) \/ CreateIteration(i, m)
    \/ FailRun(i, m)
    \/ m = "batch" /\ (SubmitBatch(i, m) \/ RecordBatch(i, m) \/ AdvanceRun(i, m))
    \/ m = "streaming" /\ (\/ BeginStream(i, m) \/ StreamReply(i, m)
                           \/ StreamRespond(i, m) \/ StreamSettle(i, m))

PollerStep(i) ==
    \/ ListIterations(i) \/ GetBatch(i) \/ ReadRun(i) \/ MarkProcessing(i)
    \/ MarkCanceling(i) \/ MarkEnded(i) \/ FetchResult(i)
    \/ PollRespond(i) \/ PollSettle(i) \/ PollFail(i)

Next ==
    \/ \E r \in Runs : \/ CreateRun(r) \/ DropNote(r) \/ AgeClaim(r)
                       \/ \E i \in Instances : HandStep(i, r) \/ HandError(i, r)
    \/ \E r \in Runs, n \in Iters : EndBatch(r, n) \/ CancelBatch(r, n) \/ FinishTools(r, n)
    \/ \E i \in Instances, m \in Modes : Claim(i, m) \/ WorkerStep(i, m) \/ WorkerError(i, m)
    \/ \E i \in Instances : \/ PollerStep(i) \/ PollError(i) \/ ScanStuck(i) \/ RescueRun(i)
                            \/ Crash(i) \/ DeleteInstance(i) \/ Restart(i)

Spec == Init /\ [][Next]_vars

\* Tickers of the workers, the poller, the 30 s check and the rescuer fire again
\* and again; tools and batches end; stopped instances lose their row.
Fairness ==
    /\ \A i \in Instances, m \in Modes :
        WF_vars(Claim(i, m)) /\ WF_vars(WorkerStep(i, m))
    /\ \A i \in Instances :
        /\ WF_vars(PollerStep(i)) /\ WF_vars(\E r \in Runs : HandStep(i, r))
        /\ WF_vars(ScanStuck(i)) /\ WF_vars(RescueRun(i))
        /\ WF_vars(~up[i] /\ DeleteInstance(i))
    /\ \A r \in Runs : WF_vars(AgeClaim(r))
    /\ \A r \in Runs, n \in Iters : WF_vars(EndBatch(r, n)) /\ WF_vars(FinishTools(r, n))

FairSpec == Spec /\ Fairness
-----------------------------------------------------------------------------
(* Properties *)

\* A process at work has a run and an iteration, and an answer where it uses one.
WorkersAssigned ==
    \A i \in Instances, m \in Modes :
        /\ work[i][m].pc # "idle" => work[i][m].run \in Runs /\ work[i][m].base < MaxIter
        /\ \A t \in work[i][m].queue : t.base < MaxIter
        /\ work[i][m].pc \in {"respond", "settle"} =>
              api[work[i][m].run][work[i][m].base + 1] \in {"tools", "text"}

PollersAssigned ==
    \A i \in Instances :
        /\ poll[i].pc # "idle" => /\ poll[i].run \in Runs /\ poll[i].iter \in Iters
                                  /\ status[poll[i].run][poll[i].iter] # "absent"
        /\ \A p \in poll[i].list : status[p[1]][p[2]] # "absent"
        /\ poll[i].pc \in {"respond", "settle"} => api[poll[i].run][poll[i].iter] \in {"tools", "text"}

\* A handler under way has its run, and has read an iteration where it uses one.
HandsAssigned ==
    \A i \in Instances :
        /\ hand[i].pc # "idle" => hand[i].run \in Runs
        /\ hand[i].pc = "continue" => hand[i].iter \in Iters

\* The types of the tables, the processes and the API's view.
Types ==
    /\ run \in [Runs -> Row]
    /\ status \in [Runs -> [Iters -> Statuses]]
    /\ api \in [Runs -> [Iters -> Replies \cup {"none", "running", "canceling"}]]
    /\ open \in [Runs -> SUBSET Iters]
    /\ conv \in [Runs -> Seq(Message)]
    /\ note \subseteq Runs
    /\ hand \in [Instances -> Hand]
    /\ work \in [Instances -> [Modes -> Worker]]
    /\ poll \in [Instances -> Poller]
    /\ stuck \in [Instances -> SUBSET [run : Runs, attempts : Nat]]
    /\ up \in [Instances -> BOOLEAN] /\ row \in [Instances -> BOOLEAN]

\* Type invariant.
TypeOK == Types /\ WorkersAssigned /\ PollersAssigned /\ HandsAssigned

\* A completed or failed run is never in flight again, whatever stale worker,
\* late poller, rescuer or notification still writes to it: every UPDATE is
\* unconditional on the state, only the CHECK on finalized_at stands in the way.
TerminalNeverReopened ==
    [][\A r \in Runs : IsTerminal(r) => run'[r].state \in Terminal]_vars

\* current_iteration never moves back, though workers write it from the row they
\* claimed, which may be older than the row of a rescued and reclaimed run.
CurrentIterationNeverRegresses ==
    [][\A r \in Runs : run'[r].cur >= run[r].cur]_vars

\* Iterations are numbered without gaps, and at most one is ahead of
\* current_iteration, under any number of rescues and duplicate workers.
IterationsContiguous ==
    \A r \in Runs, n \in Iters :
        /\ n <= run[r].cur => status[r][n] # "absent"
        /\ n > run[r].cur + 1 => status[r][n] = "absent"

\* A worker about to call the API is the first to do so for its iteration: no
\* iteration is submitted twice, even when two workers hold the same run.
AskedOnce ==
    \A i \in Instances, m \in Modes :
        work[i][m].pc \in {"submit", "begin", "stream"} =>
            api[work[i][m].run][work[i][m].base + 1] = "none"

\* What a worker claimed is never ahead of its run.
HeldBehind ==
    \A i \in Instances, m \in Modes :
        /\ work[i][m].pc # "idle" => work[i][m].base <= run[work[i][m].run].cur
        /\ \A t \in work[i][m].queue : t.base <= run[t.run].cur

\* A worker past CreateIteration has its iteration's row.
CreatedBefore ==
    \A i \in Instances, m \in Modes :
        work[i][m].pc \in Preparing => status[work[i][m].run][work[i][m].base + 1] # "absent"

\* Until it has written current_iteration, nobody else moved that column.
NotMoved ==
    \A i \in Instances, m \in Modes :
        work[i][m].pc \in Preparing \ {"stream", "respond", "settle"} =>
            run[work[i][m].run].cur = work[i][m].base

\* No two workers prepare or answer the same iteration.
Alone ==
    \A i, j \in Instances, m, k \in Modes :
        /\ work[i][m].pc \in Preparing /\ work[j][k].pc \in Preparing
        /\ work[i][m].run = work[j][k].run /\ work[i][m].base = work[j][k].base
        => i = j /\ m = k

\* The worker that created an iteration is alone with it, and until it has written
\* current_iteration nobody else moves that column, however many workers a rescued
\* run has: the UNIQUE constraint alone keeps them apart.
ExclusivePreparation == HeldBehind /\ CreatedBefore /\ NotMoved /\ Alone

\* Completed and failed are final: neither is overwritten by the other.  ImplementsLoop
\* below says this and more.
TerminalIsFinal ==
    [][\A r \in Runs : IsTerminal(r) => run'[r].state = run[r].state]_vars

\* A run is processed by one worker at a time, and while the run is in flight
\* that worker's instance is the one the row names as its owner.
OneOwner ==
    \A r \in Runs :
        /\ Cardinality(Holders(r)) <= 1
        /\ \A w \in Holders(r) : run[r].state \in InFlight => run[r].claimed = w[1]

\* Someone will still move the run: a claim, the worker that holds it, a poller,
\* the tools' continuation, the cleanup of a dead owner, or the rescuer.
Driven(r) ==
    \/ run[r].state = "pending" /\ run[r].claimed = None
    \/ Holders(r) # {}
    \/ \E i \in Instances : poll[i].run = r /\ poll[i].pc \in {"ended", "fetch", "respond", "settle", "fail"}
    \/ run[r].claimed # None /\ up[run[r].claimed] /\ "in_progress" \in {status[r][n] : n \in Iters}
    \/ run[r].state = "pending_tools" /\ run[r].cur > 0
    \/ run[r].claimed # None /\ row[run[r].claimed] /\ ~up[run[r].claimed]
    \/ run[r].claimed # None /\ run[r].state \in InFlight /\ run[r].rescues < MaxRescue
         /\ \E i \in MayLead : up[i]

\* No unfinished run is left that nothing in the system will ever touch again.
NoRunForgotten ==
    \A r \in Runs : run[r].state \notin Terminal \cup {"absent"} => Driven(r)

\* In the messages sent to Claude a tool_use is followed by its tool_result and
\* by nothing else.
ToolUseAnswered ==
    \A r \in Runs : \A k \in 1 .. Len(conv[r]) - 1 :
        conv[r][k].kind = "tools" =>
            conv[r][k + 1] = [kind |-> "tool_result", iter |-> conv[r][k].iter]

\* The conversation sent to Claude is one prompt, then turns of tool use each
\* followed at once by the results of that iteration, then the final text.
WellFormedConversation ==
    ToolUseAnswered /\ \A r \in Runs : \A k \in 1 .. Len(conv[r]) :
        LET msg == conv[r][k] IN
        /\ msg.kind = "prompt" <=> k = 1
        /\ msg.kind = "text" => k = Len(conv[r])
        /\ msg.kind = "tool_result" => conv[r][k - 1] = [kind |-> "tools", iter |-> msg.iter]

\* Whatever statement of a worker, the poller, the tools or the cleanup moves a run, and
\* however these interleave, each run keeps the order of the agent loop: a turn is begun
\* when the one before it is answered, an answer is stored once, it settles the run, and
\* no message, turn or state is written after the end.
Phase(state) ==
    CASE state = "pending" -> "queued"
      [] state \in InFlight \ {"pending_tools"} -> "working"
      [] state = "pending_tools" -> "waiting"
      [] OTHER -> state

Loop(r) == INSTANCE AgentLoop WITH
    phase <- Phase(run[r].state), turn <- run[r].cur, talk <- conv[r]

ImplementsLoop ==
    /\ \A r \in Runs : Loop(r)!Init
    /\ [][\A r \in Runs : [Loop(r)!Next]_(Loop(r)!vars)]_vars

\* With one leader no run is rescued more than MaxRescueAttempts times.
RescueBudget == \A r \in Runs : run[r].rescues <= MaxRescue

\* Every run that was created finishes.
EventuallyFinal == \A r \in Runs : run[r].state # "absent" ~> IsTerminal(r)

\* A stuck run that has used up its rescues is failed by the rescuer.
ExhaustedRunFails ==
    \A r \in Runs :
        run[r].rescues >= MaxRescue /\ run[r].aged ~> run[r].state \notin InFlight

\* A rescued run is processed again, it does not fail on the iteration that its
\* former worker left behind.
RescuedRunIsReprocessed ==
    \A i \in Instances, m \in Modes :
        work[i][m].pc = "iterate" /\ run[work[i][m].run].rescues > 0 =>
            status[work[i][m].run][work[i][m].base + 1] = "absent"
=============================================================================
