--------------------------- MODULE ToolExecution ---------------------------
(***************************************************************************)
(* The tool calls of one run: rows of agentpg_tool_executions, claimed by   *)
(* the tool workers of several instances, executed each in a goroutine of   *)
(* its own, retried, snoozed, discarded or delegated to a child run, and    *)
(* the handling of their completion, which every instance attempts.         *)
(*                                                                         *)
(* One action is one statement or procedure with the local computation that *)
(* leads to it.  The rest of the run's life (RunLifecycle) is reduced to    *)
(* Reply and Finish.  scheduled_at only delays a claim, which may be late   *)
(* anyway; MaxConcurrentTools limits one claim, which may be partial anyway.*)
(***************************************************************************)
EXTENDS Naturals, Sequences, FiniteSets

CONSTANTS
    Instances,    \* client instances, by instance ID
    None,         \* SQL NULL
    Calls,        \* the tool calls one reply may contain
    AgentCalls,   \* those that name an agent
    Free,         \* those that any instance may claim: agents without tools
    MaxTurns,     \* bound: replies that ask for tools
    MaxAttempts,  \* ToolRetryConfig.MaxAttempts
    MaxSnooze,    \* bound: snoozes per execution
    MayCrash,     \* instances that may stop
    MayStall,     \* instances whose heartbeat may be late while they live
    Faults        \* what else may go wrong, see below

\* error    statements fail: the goroutine or the handler logs it and ends
\* restart  a stopped instance starts again under its configured ID
\* late     completions are handled so late that the model has already replied
\*          to the next turn
FaultKinds == {"error", "restart", "late"}

ASSUME CallsAssumption == Free \subseteq AgentCalls /\ AgentCalls \subseteq Calls
ASSUME BoundsAssumption == MaxTurns \in Nat /\ MaxAttempts \in Nat \ {0} /\ MaxSnooze \in Nat
ASSUME InstancesAssumption ==
    None \notin Instances /\ MayCrash \subseteq Instances /\ MayStall \subseteq Instances
ASSUME FaultsAssumption == Faults \subseteq FaultKinds

Turns == 1 .. MaxTurns

VARIABLES
    run,      \* the run's row: state, current iteration, owner
    exec,     \* the execution of each call of each turn
    child,    \* the child run of each execution
    job,      \* the goroutines of each instance
    note,     \* unread tools_complete notifications of each instance
    hand,     \* each instance's handleAllToolsComplete
    told,     \* the tool_result messages stored for the run
    up, row   \* the process lives; its row is in agentpg_instances

vars == <<run, exec, child, job, note, hand, told, up, row>>

-----------------------------------------------------------------------------
(* Rows *)

Ended == {"completed", "failed"}
Open  == {"pending", "running"}

\* finished stands for completed_at IS NOT NULL.
Execution ==
    [state : {"absent"} \cup Open \cup Ended, finished : BOOLEAN,
     owner : Instances \cup {None}, attempts : Nat, snoozes : 0 .. MaxSnooze]

Absent == [state |-> "absent", finished |-> FALSE, owner |-> None, attempts |-> 0, snoozes |-> 0]

\* Mutant of Consistent: the table has no CHECK.
ConsistentUnchecked(new) == new \in Execution

\* CHECK tool_exec_state_consistency, on the row an UPDATE produces.
Consistent(new) == new.finished <=> new.state \in Ended

Put(n, c, new) == [exec EXCEPT ![n][c] = new]

\* The rows the worker's statements produce from the present row.
Running(e)   == [e EXCEPT !.state = "running"]
Completed(e) == [e EXCEPT !.state = "completed", !.finished = TRUE]
Failed(e)    == [e EXCEPT !.state = "failed", !.finished = TRUE]

\* Mutant of Retried: the claim is not given up.
RetriedOwned(e) == [e EXCEPT !.state = "pending"]

Retried(e) == [e EXCEPT !.state = "pending", !.owner = None]

\* Mutant of Snoozed: the attempt is not given back.
SnoozedSpent(e) == [Retried(e) EXCEPT !.snoozes = @ + 1]

\* GREATEST(0, attempt_count - 1)
Snoozed(e) == [Retried(e) EXCEPT !.snoozes = @ + 1, !.attempts = IF @ = 0 THEN 0 ELSE @ - 1]

Pending(e) == {x \in Turns \X Calls : e[x[1]][x[2]].state \in Open}

Asked(n) == {c \in Calls : n > 0 /\ exec[n][c].state # "absent"}
HasEnded(n) == {c \in Asked(n) : exec[n][c].state \in Ended}

\* Mutant of Announced: any execution that ends is announced.
AnnouncedEach == Pending(exec') # Pending(exec)

\* agentpg_notify_tools_complete counts the open executions of the whole run.
Announced == Pending(exec) # {} /\ Pending(exec') = {}

\* Some instances do not hear it: full channel, reconnecting listener, or two
\* transactions that ended executions without seeing each other.
Notify ==
    IF Announced
    THEN \E D \in SUBSET {i \in Instances : up[i]} :
            note' = [i \in Instances |-> note[i] + (IF i \in D THEN 1 ELSE 0)]
    ELSE UNCHANGED note

-----------------------------------------------------------------------------
(* Goroutines and handlers *)

Job  == [turn : Turns, call : Calls, attempt : Nat]
Hand == [pc : {"idle", "read", "fetch", "continue"}, turn : 0 .. MaxTurns, seen : SUBSET Calls]
Idle == [pc |-> "idle", turn |-> 0, seen |-> {}]

Row(j) == exec[j.turn][j.call]
Ends(i, j) == job' = [job EXCEPT ![i] = @ \ {j}]
Settled == \A i \in Instances : note[i] = 0 /\ hand[i].pc = "idle"

Init ==
    /\ run = [state |-> "away", turn |-> 0, owner |-> None]
    /\ exec = [n \in Turns |-> [c \in Calls |-> Absent]]
    /\ child = [n \in Turns |-> [c \in Calls |-> "none"]]
    /\ job = [i \in Instances |-> {}]
    /\ note = [i \in Instances |-> 0]
    /\ hand = [i \in Instances |-> Idle]
    /\ told = <<>>
    /\ up = [i \in Instances |-> TRUE]
    /\ row = [i \in Instances |-> TRUE]

\* A reply with tool calls: agentpg_create_tool_executions_and_update_run.  The
\* run's agent has tools, so its owner had a row when it claimed the run, and a
\* run whose owner lost its row has failed.
Reply(i, S) ==
    /\ run.state = "away" /\ run.turn < MaxTurns
    /\ up[i] /\ row[i] /\ S # {}
    /\ Settled \/ "late" \in Faults
    /\ run' = [state |-> "waiting", turn |-> run.turn + 1, owner |-> i]
    /\ exec' = [exec EXCEPT ![run.turn + 1] =
                  [c \in Calls |-> IF c \in S THEN [Absent EXCEPT !.state = "pending"] ELSE Absent]]
    /\ UNCHANGED <<child, job, note, hand, told, up, row>>

\* The final text, or a failure of the run while the model or a worker has it.
Finish ==
    /\ run.state = "away"
    /\ run' = [run EXCEPT !.state = "over", !.owner = None]
    /\ UNCHANGED <<exec, child, job, note, hand, told, up, row>>

-----------------------------------------------------------------------------
(* Executions *)

\* Mutant of Claimable: running executions may be claimed.
ClaimableRunning(i) == {x \in Pending(exec) : row[i] \/ x[2] \in Free}

\* agentpg_claim_tool_executions.  instance_tools rows go with the instance's row.
Claimable(i) ==
    {x \in Pending(exec) : /\ exec[x[1]][x[2]].state = "pending" /\ exec[x[1]][x[2]].owner = None
                           /\ row[i] \/ x[2] \in Free}

\* processToolExecutions, then one goroutine for each.  The loop that claims is
\* also the one that handles completions.
Claim(i) ==
    /\ up[i] /\ hand[i].pc = "idle"
    /\ \E S \in (SUBSET Claimable(i)) \ {{}} :
        /\ exec' = [n \in Turns |-> [c \in Calls |->
                      IF <<n, c>> \in S
                      THEN [exec[n][c] EXCEPT !.state = "running", !.owner = i, !.attempts = @ + 1]
                      ELSE exec[n][c]]]
        /\ job' = [job EXCEPT ![i] = @ \cup
                     {[turn |-> x[1], call |-> x[2], attempt |-> exec[x[1]][x[2]].attempts + 1] : x \in S}]
    /\ UNCHANGED <<run, child, note, hand, told, up, row>>

\* executeTool first writes "running" again.  On a row that is running this changes
\* nothing, so that a goroutine need not remember whether it has done it; on a finished
\* row the CHECK refuses it and the goroutine ends.
Start(i, j) ==
    /\ up[i] /\ j \in job[i]
    /\ IF Consistent(Running(Row(j)))
       THEN exec' = Put(j.turn, j.call, Running(Row(j))) /\ UNCHANGED job
       ELSE Ends(i, j) /\ UNCHANGED exec
    /\ UNCHANGED <<run, child, note, hand, told, up, row>>

\* The goroutine's last statement; it is logged when the CHECK refuses it.
Return(i, j, new) ==
    /\ up[i] /\ j \in job[i]
    /\ exec' = IF Consistent(new) THEN Put(j.turn, j.call, new) ELSE exec
    /\ Ends(i, j)
    /\ Notify
    /\ UNCHANGED <<run, child, hand, told, up, row>>

ToolReturns(i, j) == j.call \notin AgentCalls /\ Return(i, j, Completed(Row(j)))

\* ToolCancel, ToolDiscard, an unknown tool, or an agent call that cannot be made.
Discard(i, j) == Return(i, j, Failed(Row(j)))

\* handleToolError decides by the attempt count it was claimed with.
ErrorRow(j) == IF j.attempt >= MaxAttempts THEN Failed(Row(j)) ELSE Retried(Row(j))

ToolErrs(i, j) == j.call \notin AgentCalls /\ Return(i, j, ErrorRow(j))

Snooze(i, j) ==
    /\ j.call \notin AgentCalls /\ Row(j).snoozes < MaxSnooze
    /\ Return(i, j, Snoozed(Row(j)))

\* executeAgentTool creates the child run and leaves the execution running.  The last
\* statement, child_run_id, is a column nothing decides on.
CreateChild(i, j) ==
    /\ up[i] /\ j \in job[i] /\ j.call \in AgentCalls
    /\ child' = [child EXCEPT ![j.turn][j.call] = "active"]
    /\ Ends(i, j)
    /\ UNCHANGED <<run, exec, note, hand, told, up, row>>

\* The child run ends well or badly: agentpg_handle_child_run_complete.
ChildEnds(n, c) ==
    /\ child[n][c] = "active"
    /\ child' = [child EXCEPT ![n][c] = "done"]
    /\ \E new \in {Completed(exec[n][c]), Failed(exec[n][c])} :
        exec' = IF exec[n][c].state = "running" THEN Put(n, c, new) ELSE exec
    /\ Notify
    /\ UNCHANGED <<run, job, hand, told, up, row>>

\* A statement of executeTool fails: logged, and the row is left as it is.
JobError(i, j) ==
    /\ "error" \in Faults
    /\ up[i] /\ j \in job[i]
    /\ Ends(i, j)
    /\ UNCHANGED <<run, exec, child, note, hand, told, up, row>>

-----------------------------------------------------------------------------
(* Completion *)

\* Begin with the run as GetRun returns it.
Enter(i) ==
    hand' = [hand EXCEPT ![i] = IF run.state = "waiting"
                                THEN [pc |-> "fetch", turn |-> run.turn, seen |-> {}] ELSE Idle]

HandleNote(i) ==
    /\ up[i] /\ hand[i].pc = "idle" /\ note[i] > 0
    /\ note' = [note EXCEPT ![i] = @ - 1]
    /\ Enter(i)
    /\ UNCHANGED <<run, exec, child, job, told, up, row>>

\* Mutant of CheckStuck: the 30 s check is left out after the first turn.
CheckStuckOnce(i) ==
    /\ up[i] /\ hand[i].pc = "idle" /\ run.state = "waiting" /\ run.turn = 1
    /\ HasEnded(run.turn) = Asked(run.turn)
    /\ hand' = [hand EXCEPT ![i].pc = "read"]
    /\ UNCHANGED <<run, exec, child, job, note, told, up, row>>

\* checkForStuckRuns lists the runs, then handles them one by one.
CheckStuck(i) ==
    /\ up[i] /\ hand[i].pc = "idle" /\ run.state = "waiting"
    /\ HasEnded(run.turn) = Asked(run.turn)
    /\ hand' = [hand EXCEPT ![i].pc = "read"]
    /\ UNCHANGED <<run, exec, child, job, note, told, up, row>>

ReadRun(i) ==
    /\ up[i] /\ hand[i].pc = "read"
    /\ Enter(i)
    /\ UNCHANGED <<run, exec, child, job, note, told, up, row>>

\* GetToolExecutionsByIteration: an execution that has not ended yields an empty result.
FetchResults(i) ==
    /\ up[i] /\ hand[i].pc = "fetch"
    /\ hand' = [hand EXCEPT ![i].pc = "continue", ![i].seen = HasEnded(hand[i].turn)]
    /\ UNCHANGED <<run, exec, child, job, note, told, up, row>>

\* Mutant of ContinueRun: the procedure does not look at the run's state.
ContinueAnyway(i) ==
    /\ up[i] /\ hand[i].pc = "continue"
    /\ told' = Append(told, [turn |-> hand[i].turn, calls |-> hand[i].seen])
    /\ run' = [run EXCEPT !.state = "away", !.owner = None]
    /\ hand' = [hand EXCEPT ![i] = Idle]
    /\ UNCHANGED <<exec, child, job, note, up, row>>

\* agentpg_complete_tools_and_continue_run
ContinueRun(i) ==
    /\ up[i] /\ hand[i].pc = "continue"
    /\ IF run.state = "waiting"
       THEN /\ told' = Append(told, [turn |-> hand[i].turn, calls |-> hand[i].seen])
            /\ run' = [run EXCEPT !.state = "away", !.owner = None]
       ELSE UNCHANGED <<told, run>>
    /\ hand' = [hand EXCEPT ![i] = Idle]
    /\ UNCHANGED <<exec, child, job, note, up, row>>

HandError(i) ==
    /\ "error" \in Faults
    /\ up[i] /\ hand[i].pc # "idle"
    /\ hand' = [hand EXCEPT ![i] = Idle]
    /\ UNCHANGED <<run, exec, child, job, note, told, up, row>>

-----------------------------------------------------------------------------
(* Instances *)

\* Killed, or stopped: Stop cancels the context, the statements of goroutines
\* that it does not wait for fail.
Crash(i) ==
    /\ i \in MayCrash /\ up[i]
    /\ up' = [up EXCEPT ![i] = FALSE]
    /\ job' = [job EXCEPT ![i] = {}]
    /\ note' = [note EXCEPT ![i] = 0]
    /\ hand' = [hand EXCEPT ![i] = Idle]
    /\ UNCHANGED <<run, exec, child, told, row>>

\* The row goes: UnregisterInstance, or DeleteStaleInstances once the heartbeat is
\* too old.  Trigger agentpg_cleanup_orphaned_work fails its run and executions.
DeleteInstance(i) ==
    /\ row[i] /\ (up[i] => i \in MayStall)
    /\ row' = [row EXCEPT ![i] = FALSE]
    /\ run' = IF run.owner = i THEN [run EXCEPT !.state = "over"] ELSE run
    /\ exec' = [n \in Turns |-> [c \in Calls |->
                  IF exec[n][c].owner = i /\ exec[n][c].state = "running"
                  THEN Failed(exec[n][c]) ELSE exec[n][c]]]
    /\ Notify
    /\ UNCHANGED <<child, job, hand, told, up>>

Restart(i) ==
    /\ "restart" \in Faults /\ ~up[i]
    /\ up' = [up EXCEPT ![i] = TRUE]
    /\ row' = [row EXCEPT ![i] = TRUE]
    /\ UNCHANGED <<run, exec, child, job, note, hand, told>>

-----------------------------------------------------------------------------
JobStep(i) ==
    \E j \in job[i] : \/ Start(i, j) \/ ToolReturns(i, j) \/ Discard(i, j) \/ ToolErrs(i, j)
                      \/ Snooze(i, j) \/ CreateChild(i, j)

HandStep(i) ==
    HandleNote(i) \/ CheckStuck(i) \/ ReadRun(i) \/ FetchResults(i) \/ ContinueRun(i)

Next ==
    \/ Finish
    \/ \E n \in Turns, c \in Calls : ChildEnds(n, c)
    \/ \E i \in Instances :
        \/ \E S \in SUBSET Calls : Reply(i, S)
        \/ Claim(i) \/ JobStep(i) \/ HandStep(i)
        \/ (\E j \in job[i] : JobError(i, j)) \/ HandError(i)
        \/ Crash(i) \/ DeleteInstance(i) \/ Restart(i)

Spec == Init /\ [][Next]_vars

\* The tool worker's two tickers fire again and again, tools return within their
\* five minutes, child runs end, and stopped instances lose their row.
Fairness ==
    /\ \A i \in Instances :
        /\ WF_vars(Claim(i)) /\ WF_vars(JobStep(i)) /\ WF_vars(HandStep(i))
        /\ WF_vars(~up[i] /\ DeleteInstance(i))
    /\ \A n \in Turns, c \in Calls : WF_vars(ChildEnds(n, c))

FairSpec == Spec /\ Fairness

-----------------------------------------------------------------------------
(* Properties *)

\* A row is claimed unless it is pending, and satisfies the CHECK.
RowsOK ==
    \A n \in Turns, c \in Calls :
        /\ Consistent(exec[n][c])
        /\ exec[n][c].owner = None <=> exec[n][c].state \in {"absent", "pending"}

Types ==
    /\ run \in [state : {"away", "waiting", "over"}, turn : 0 .. MaxTurns,
                owner : Instances \cup {None}]
    /\ exec \in [Turns -> [Calls -> Execution]]
    /\ child \in [Turns -> [Calls -> {"none", "active", "done"}]]
    /\ job \in [Instances -> SUBSET Job]
    /\ note \in [Instances -> Nat]
    /\ hand \in [Instances -> Hand]
    /\ told \in Seq([turn : 0 .. MaxTurns, calls : SUBSET Calls])
    /\ up \in [Instances -> BOOLEAN] /\ row \in [Instances -> BOOLEAN]

\* Type invariant.
TypeOK == RowsOK /\ Types

\* The user's tool never runs twice at the same time for one call, and never for an
\* execution another instance may still claim: retries, snoozes, deleted instances and
\* restarts notwithstanding.
OneGoroutine ==
    \A i, k \in Instances : \A j \in job[i], l \in job[k] :
        /\ Row(j).state # "pending"
        /\ j.turn = l.turn /\ j.call = l.call => i = k /\ j = l

\* The attempt count stays within max_attempts, a snooze notwithstanding, and the count
\* a goroutine was claimed with, on which it decides, is still the row's.
AttemptsBounded ==
    /\ \A n \in Turns, c \in Calls : exec[n][c].attempts <= MaxAttempts
    /\ \A i \in Instances : \A j \in job[i] : j.attempt = Row(j).attempts

\* However many instances handle a completion, early or late, a turn is answered by one
\* tool_result message: never two, and none before the run goes on.
OneAnswerPerTurn ==
    /\ run.state = "waiting" => Len(told) = run.turn - 1
    /\ run.state = "away" => Len(told) = run.turn

\* An execution that has ended is not opened again by the goroutine of an instance that
\* was cleaned up while it lived; only the CHECK on completed_at prevents it.
FinishedStaysFinished ==
    [][\A n \in Turns, c \in Calls :
        exec[n][c].state \in Ended => exec'[n][c].state \in Ended]_vars

\* The k-th tool_result message holds the results of the k-th turn, all of them ended:
\* nothing missing, nothing from another turn.
AnswersComplete ==
    \A k \in 1 .. Len(told) : told[k] = [turn |-> k, calls |-> Asked(k)]

\* A run that waits for its tools goes on or ends.
EventuallyContinued == run.state = "waiting" ~> run.state # "waiting"

\* The tool workers keep the promise of ToolTurns, in order and in the end.
Promise == INSTANCE ToolTurns WITH
    phase <- run.state, turn <- run.turn,
    asked <- Asked(run.turn), ended <- HasEnded(run.turn)

ImplementsTurns == Promise!FairSpec
=============================================================================
