# Verification of agentpg

agentpg runs AI agents on any number of client instances that share nothing but a
PostgreSQL database. There is no broker and no coordinator: all coordination is rows,
stored procedures, triggers and NOTIFY. This directory holds TLA+ models of that
coordination, TLC configurations that check them on small instances, and TLAPS proofs of
the properties that hold for every instance.

Source lines below are those of the repository; `up.sql` is
`storage/migrations/001_agentpg_migration.up.sql`.

## Inventory of the system

| Component | State it keeps | Operations | What makes it correct |
|---|---|---|---|
| Client (`client.go`) | started flag, run waiters, local leader flag | Start, Stop, Run, RunTx, RunFast, WaitForRun, CRUD | a created run is eventually final; a waiter is woken |
| Batch run worker (`run_worker.go`) | the runs of one claim, in order | claim, prompt message, iteration row, `Batches.New`, batch status, `batch_pending`, failRun | one worker per run; one API request per iteration |
| Streaming worker (`streaming_worker.go`) | same | same, with the answer received and settled by the worker | same |
| Batch poller (`batch_poller.go`) | the list of one poll | list, `Batches.Get`, `batch_processing`, `canceling`, `ended`, fetch, assistant message, settle | an ended batch is settled once; a rescue is not overwritten |
| Tool worker (`tool_worker.go`) | a trigger and a channel of completed runs; one goroutine per execution | claim, execute, retry, snooze, discard, complete, child run, continuation, 30 s check | a tool runs once at a time; each turn is answered once and completely |
| Rescuer (`rescuer.go`) | the list of one tick | IsLeader, list of stuck runs, RescueRun | bounded rescues; no live run harmed; a run that cannot be rescued fails |
| Leader election (`client.go` leaderLoop, `agentpg_leader`) | lease row; local flag | acquire, refresh, release | one leader at a time |
| Instances (`agentpg_instances`, `agentpg_instance_tools`) | heartbeat, capabilities | register, heartbeat, unregister, delete stale; trigger `agentpg_cleanup_orphaned_work` | the work of a dead instance ends, other work is left alone |
| Runs, iterations, executions, messages (`up.sql`) | the tables | claim, poll, stuck, settle and continue procedures; CHECK and UNIQUE constraints; notify triggers | constraints hold the line where the Go code writes unconditionally |
| Nested agents | child runs, `parent_tool_execution_id` | child run created by an execution; trigger completes the execution | the child's answer reaches the parent once |
| Listeners (`driver/*/listener.go`) | a connection, a channel | LISTEN, reconnect | lost notifications are made up for by polling |
| Compaction (`compaction/`) | a partition of the messages it has read; archive, compaction events | check, partition, prune, summarise, archive, delete, summary, count | protected and recent messages survive; nothing is deleted unarchived; what is gone is told of |
| Conversation assembly (buildMessages, buildTools) | none | context of a run, merge of messages by role, tools and agents offered | tool_use is followed by tool_result, whoever else writes in the session |
| Waiters (`WaitForRun`, `client.go`) | a table of channels by run | register, read, poll, wake, time out | a waiter is woken or polls; what it returns is true of the run |
| Catalogue (`client.go`, agent statements of both drivers) | `agentpg_agents` | get or create, update, delete; lookup by name | where the lookup finds nothing the constraint refuses nothing |
| Retry delays (`config.go`) | none | attempt^4 with jitter | at least one second, monotone |
| Drivers (`driver/pgxv5`, `driver/databasesql`) | a pool | the statements of all of the above, twice | both do the same; where they differ, both are modelled |
| Web UI (`ui/`) | none; a page is put together from several statements, and may poll | chat, hierarchy, run, conversation, execution, session, agents, instances, lists | a page does not contradict itself or hide what it says exists |
| Tool API (`tool/`), examples | - | schema validation; example programs | outside the models |

Interactions. A run is created `pending`. A worker of its mode claims it
(`agentpg_claim_runs`, SKIP LOCKED), inserts the next iteration and asks Claude, by batch
or stream. The batch poller of the instance that owns the run looks for the answer. The
answer either completes the run or creates tool executions and leaves the run
`pending_tools`. Any capable instance claims the executions. A trigger announces the end of
the last one; every instance that hears it tries to store the tool_result message and put
the run back to `pending`, unclaimed. The leader's rescuer puts runs whose claim is old
back to `pending`; deleting an instance's row fails everything it owned.

What is hard. Almost no UPDATE asks for the state or the owner it expects: a stale worker,
poller, rescuer or notification writes over whatever is there. Claims are not refreshed, so
"stuck" and "slow" cannot be told apart. A session's messages are shared by all runs in it
and by compactions, a message and its blocks are separate statements, and nothing keeps two
compactions apart. Leadership is a row that expires and a local flag that is told of it
later. Between any two statements a process may die, be
rescued from, be cleaned up while alive, or restart under its old ID. `PROJECT.json`,
"hazards", lists each of these at its line with the property that would catch it.

## Modules

| Module | What it is |
|---|---|
| `AgentLoop` | abstract specification: one run, turn by turn, as one process alone with it would take it through |
| `RunLifecycle` | run rows, iterations, conversation, workers, pollers, rescuer, cleanup: the core, which implements `AgentLoop` once per run |
| `RunLifecycle_proofs` | TLAPS proofs about it: types, the conversation with Claude, iterations, rescues |
| `RunOwnership_proofs` | TLAPS proofs about it: one worker per run, final states, the conversation, nobody forgotten, the refinement of `AgentLoop` |
| `MCRunLifecycle` | its constants for TLC |
| `ToolTurns` | abstract specification: every turn of tool use is answered once, in order, completely, and in the end |
| `ToolExecution` | the tool worker, executions, goroutines, notifications and continuation of one run, which implements `ToolTurns` |
| `ToolExecution_proofs` | TLAPS proofs about it, the refinement of `ToolTurns` included |
| `MCToolExecution` | its constants for TLC |
| `Membership` | instances, their tools, heartbeats, the leader's lease, the local flag and the loops that use it |
| `Membership_proofs` | TLAPS proofs about it |
| `RunWaiters` | the callers of WaitForRun, the notification handler and the listener of one client |
| `MCCluster` | `Membership` and `RunWaiters` for TLC, with the fairness of their loops |
| `Cluster_proofs` | TLAPS proofs about `RunWaiters` and about `MCCluster` |
| `SessionLog` | the messages of one session: what its runs and the runs they delegate to write, and what each sends to the model |
| `Compaction` | compactions over `SessionLog` |
| `Compaction_proofs` | TLAPS proofs about it |
| `Console` | the chat pages over `SessionLog` |
| `RunPages` | the pages of a run, a conversation, an execution and a session, over `Console` |
| `AdminPages` | the pages of agents, tools and instances, over `Membership` |
| `Paging` | the lists of sessions and runs, page by page |
| `Catalog` | agents by ID and by name, in both drivers |
| `WebUI_proofs` | TLAPS proofs about `Console`, `RunPages`, `AdminPages` and `Paging`, and what they rely on in `SessionLog` |
| `MCSession` | `Compaction`, `RunPages`, `Catalog`, `Paging` and `AdminPages` for TLC |
| `Session_proofs` | TLAPS proofs about `Catalog` and about `MCSession` |

What composes what: `Compaction` and `Console` EXTEND `SessionLog` and act on its messages
between the steps of its runs; `RunPages` EXTENDS `Console`; `AdminPages` EXTENDS
`Membership`. `ToolExecution` implements `ToolTurns`, and `RunLifecycle` implements
`AgentLoop` for each of its runs. `RunLifecycle` has the rows, workers
and faults of a run but not the session around it; `SessionLog` has the session and gives
each run one worker. What the one leaves out the other has; they are not composed, because
the product is out of TLC's reach.

### RunLifecycle

One action is one autocommitted statement, one stored procedure or one API call, with the
local computation that leads to it. Between two of them any other process may act.

State: `run` is the row of `agentpg_runs` (state, `finalized_at` set or not, owner, whether
`claimed_at` is older than RescueTimeout, `current_iteration`, `rescue_attempts`); `status`
is `batch_status` per iteration, "absent" while the row does not exist; `api` is what Claude
knows of the iteration's request; `open` the iterations with unfinished executions; `conv`
the stored messages; `note` undelivered tools_complete notifications; `hand[i]`
handleAllToolsComplete on instance i: the run it is to read, or the run and the iteration it
has read and will continue; `work[i][m]` the run
worker and the streaming worker of instance i with the queue of one claim; `poll[i]` the
batch poller; `stuck[i]` the rescuer's list; `up` and `row` whether the process lives and
whether its row exists, which are independent.

| Actions | Code |
|---|---|
| Claim, Take, CreatePrompt, CreateIteration, SubmitBatch, RecordBatch, AdvanceRun | `processRuns`, `processRun` (run_worker.go:52-217) |
| BeginStream, StreamReply, StreamRespond, StreamSettle | streaming_worker.go:73-360 |
| FailRun, WorkerError | failRun, on any error of processRun |
| ListIterations, GetBatch, ReadRun, MarkProcessing, MarkCanceling, MarkEnded, FetchResult, PollRespond, PollSettle, PollFail, PollError | batch_poller.go:42-413 |
| FinishTools, DropNote | the tools as seen from the run; detailed in ToolExecution |
| HandleNote, CheckStuck, ReadListed, ContinueRun, HandError | handleAllToolsComplete and checkForStuckRuns (tool_worker.go:304-415), up.sql:1851-1905 |
| AgeClaim, ScanStuck, RescueRun | up.sql:1474-1497, rescuer.go:43-108 |
| Crash, DeleteInstance, Restart | Stop or a kill; up.sql:1690-1713; Start with a configured ID |

`Write` is UpdateRunState: the row changes unless the CHECK `run_finalized_consistency`
rejects the statement. `CreateIteration` fails on UNIQUE (run_id, iteration_number). These
two constraints carry most of the safety, and the proofs say so.

Faults are a constant, so that each run states what it assumes: `slow` (a claim ages while
no worker holds the run: batches take up to 24 h), `timeout` (also while one does),
`restart`, `stall` (row deleted while the process lives), `fast_batch` (batch ends before
its submitter's last statement), `lost_result` (canceled, expired or missing result),
`error` (statements and calls fail), `late_notify` (a completion is handled so late that the
model has replied to the next turn).

`Continue(r, n)` is the stored procedure: it stores the results of iteration n, which its
handler read earlier, and asks for the state `pending_tools` only. So a handler that read the
run in turn n can store turn n's results in turn n+1. `HandleNote` or `ReadListed` is GetRun, and
`ContinueRun` the procedure; the list of executions, read between them, changes nothing here
and is a step of its own in `ToolExecution`.

`AgentLoop` has no rows, owners, claims or processes: a run has a phase, a turn and what was
said in it so far, and each turn goes prompt, request, reply, and either an end or tool
results. The mapping (`Loop`): phase is the row's state with the states of waiting for Claude
taken together (`Phase`), turn is `current_iteration`, what was said is `conv`.

### ToolExecution and ToolTurns

`exec` is the row of each call of each turn, `job[i]` the goroutines of instance i with the
attempt count they were claimed with, `hand[i]` handleAllToolsComplete between its three
database calls (GetRun, the executions of the iteration, the continue procedure), `note[i]`
the notifications instance i has not read, `told` the tool_result messages. The rest of the
run's life is `Reply` and `Finish`.

`executeTool` begins by writing "running" again. On a running row this changes nothing, so
the model does not record whether a goroutine has done it; on a row that cleanup has failed
meanwhile, the CHECK refuses it and the goroutine ends.

`ToolTurns` knows only the phase of the run, the calls of the turn, which of them have
ended, and the answers. The mapping: phase is the run's state, `asked` the executions of
the current iteration, `ended` those in a final state.

### Membership

State: `lease` is the row of `agentpg_leader` with the ticks it has left; `beat[i]` the age of
the heartbeat in the row of i, or none; `toolKnown` and `capable` the rows of `agentpg_tools`
and `agentpg_instance_tools`; `life[i]` how far `Start` or `Stop` has come; `leads` the local
flags; `answer[i]` what the leader loop was told and has not written to its flag; `sweep` and
`cleaning` the rescuers and cleanup loops that were told they lead and now act on it. `trust`
and `seen` are how long the lease lasts that a loop was told of: nothing reads them but the
invariants.

| Actions | Code |
|---|---|
| RegisterInstance, UpsertTool, RegisterInstanceTool, StartFails | `Start` (client.go), three statements of which any may fail |
| CancelLoops, ReleaseLeader, UnregisterInstance | `Stop`: the flag is kept, the lease released, the row deleted |
| UpdateHeartbeat, RefreshLeader, TryAcquireLeader, LeaderError, LearnLeader | heartbeat and leader loops; the statement first, the flag after it |
| AskLeader, EndSweep, BeginCleanup, DeleteStaleInstances | rescuer (asks the row) and cleanup loop (asks the flag) |
| Tick, Die | time, and a kill at any point |

All times are `NOW()` of one database, so `Tick` ages everything at once. Instances outside
`Tardy` are on time: no tick passes while their `Start` is half-way, an answer is not yet in
their flag, or a heartbeat is due. One tool stands for an
instance's tools: registration is all of them or an error.

### RunWaiters

`rowState` is the state of a run or "deleted"; `inbox` the announcements the client has
received and not handled; `line` the LISTEN connection; `missed` the announcements that were
lost or whose handling failed; `handler` is `handleNotification` between `GetRun` and the
last wake-up; `table`, `chan`, `stage` and `outcome` are the waiters. A caller registers
first and reads second, the handler reads first and empties the table second, and between
them lie the poll, the timeout, the deletion of the run and the reconnect.

### SessionLog, Compaction, Console, RunPages

`log` holds messages with their run, role, set of blocks, whether the blocks are inserted
(`filled`), `is_preserved` and whether it is a summary; `runs` is a run's row with what its worker is about to do;
`calls` the executions by tool_use ID with `child_run_id`. A message and its blocks are two
statements everywhere but in the SQL function that continues a run. `Context` is
GetMessagesForRunContext, `Request` what buildMessages makes of it; `InNextTurn` is its
merging of consecutive messages of one role.

`comp[c]` is one compaction, by the worker of a run after it completed or by a caller of
`Compact`: `PlanCompaction` reads and parts the messages (`Protected`, `Recent`,
`Compactable`, the pruning of long results, `HybridExecute` or `SummarizationExecute`), and then every archive insert,
every delete, the summary, its blocks and the counter are steps of their own, each of which
may fail: a failed archive insert, delete or summary does not stop it, and `GiveUp` is every failure that
does, a crash included. Token counts are small numbers that keep the order of the code's estimates.

`page[p]` is a chat page: which view, what it has read, which run it follows. `sight` is a
page put together once: `OpenRun`, `OpenCall`, `OpenSession` or the conversation, one action
per statement, and `StatementFails` for those whose error the code swallows (`partial`).

### AdminPages, Paging, Catalog

`sheet` is the page of agents or of instances, as far as it is read; `ever` and `through`
record what was so at some moment or at every moment of the reading (`Watch` is not part of
the system). `walk` is a user who follows Next from page to page, `rows` the table under
him. `agents` is the table, `app` the callers of `GetOrCreateAgent`, `turn` one run
that offers tools and agents and is answered with a name; `driver` chooses which store's lookup is used.

## Runs

| Run | Instance | Question |
|---|---|---|
| crash | batch run `b` (its agent needs tools) and streaming run `s`, 2 instances, i1 may stop, up to 2 tool turns and 3 iterations, no rescues | Does each run go through `AgentLoop` (so that its end is final), is it owned by one worker, its conversation well formed, and does every run end? |
| rescue | `b` or `s`, 2 instances, 1 rescue, every fault: slow and fast batches, lost results, late claims and notifications, errors; for `s` also crash, restart and stall | Do numbering, single submission, terminal states and the budget survive rescues of live runs; do workers stay apart when several hold the run? |
| turns | 1 plain and 1 agent call, 2 turns, 2 instances, i1 may stop, lost notifications | Does the tool worker implement `ToolTurns`, liveness included? |
| faults | 1 call per turn, 2 turns, 2 attempts, 1 snooze, all faults | What do the CHECK, the claim and the run's lock still guarantee? |
| cluster | instances i1 and i2, of which i2 may die, be late and lose statements; beside them two callers of WaitForRun for one run | Do leaders, rescuers and cleanups stay apart, does leadership always return, do dead rows go; is a waiter woken, answered truly and in the end? |
| session | two client runs, two delegated runs, two tool uses, two compactions and one fault, one page; two agents and names; three rows; two instances | Is every request well formed, does compaction lose nothing, do the pages tell the truth, does the lookup of agents see what the constraint sees? |
| orphan, doomed, lost, exhausted, wedged, pruned | as small as the counterexample allows | Six statements of the docs and comments the code does not keep |

Bounds and why they are enough. Two instances: every race in the code is between two
processes on one row, and a third would only take a step one of the two may take. Two tool turns and three iterations: the
second turn is the first that has a predecessor to be confused with. One rescue: it makes
two workers of one run; `MaxRescue = 0` in `crash` removes the rescuer because with it the
properties of that run are false (see below). `turns` has `MaxAttempts = 1`: retries and
snoozes are in `faults`, where only safety is checked. Two runs at once only in `crash`: runs share
nothing but workers' queues, which that run exercises. In `rescue` a behaviour has one of the
two (`Only`); `BatchCase` keeps the batch run to what befalls batches and rescued claims: no
crashes, no claim that ages after the only rescue, one instance that continues it, no batch that
moves while it does, a second batch that ends with a text, no notification left when it goes on. `StreamCase` has none of these bounds. Symmetry is not used: leaders and
instances that may stop are fixed, and liveness is checked.

`cluster` and `session` put parts that share no variable into one run: `part`, chosen at the
start and never changed, says which of them moves, so nothing is multiplied and no behaviour
of a part is left out. In `cluster` the lease lasts two ticks, so that it can be half over,
and a row one; a third instance could only do again what i2 does. In `session` (parts `talk`,
`compaction`, `page`, `detail`, `agents`, `lists`, `fleet`; about 1.4 million states) a run
has two turns, so that a second request sees a first answer; two compactions overlap; `TargetTokens`,
`TriggerThreshold` and the protected tokens are chosen so that pruning alone sometimes
reaches the target and sometimes does not; pages ask for 4 messages and 2 runs, so that their limits
cut. Seven bounds named in `MCSession` keep each part to the case it is about: `Flat` (agents
call agents only in `detail`), `ToolsOrRuns` (two uses or two client runs), `OneRun`
(compactions of one client's run; faults and preserved messages, or a delegated run), `OneOther`, `Nested`, `OneAtATime`
(no racing callers while a turn is taken), `FewLoops` (no rescuers under a page, and no new
leader but one while it is open).

Every configuration says `CHECK_DEADLOCK FALSE`: the system stops when its runs have
ended and no more are created.

Fairness. Workers, pollers, tool worker and rescuer are ticker loops started by `Start`
(client.go:346-373) that retry for ever: weak fairness per instance and loop. The notifications and the 30 s check of an instance
are one loop, `HandStep`. Batches end
within 24 hours, tools have a five minute timeout, and an instance that stopped loses its
row (by itself, or by the leader's cleanup): weak fairness of `EndBatch`, `FinishTools`,
`ChildEnds` and `DeleteInstance` of a stopped instance. Nothing is assumed of notifications,
crashes, stalls and errors. Where statements may fail, fairness of `FinishTools` is more
than the code gives: that is what `wedged` shows, and no liveness is claimed there. Which
instance leads is a constant in these two modules, and `Membership` is what justifies it: some
instance leads again and again, and two do so at once only in the window its invariants
describe. In `cluster`, instances outside `MayDie` have weak fairness of each loop and of a
started `Start`, and time passes. Four of their steps have strong fairness, because what enables
them comes and goes: `TryAcquireLeader` (another may take a lapsed lease first, but a ticker
that tries for ever does not lose every time), `BeginCleanup` (it needs the flag), and
`UpsertTool` and `RegisterInstanceTool` (a start that fails midway is tried again until it
succeeds). Callers of WaitForRun have weak fairness of `ReadAwaited`, their 500 ms ticker, and
nothing else: notifications, connection and handler may fail for ever. `session` checks safety
only.

One assumption is the environment's: unless `late` (`late_notify` in `RunLifecycle`) is a fault,
the model replies only when no instance is still handling the previous turn's completion
(`Settled`, in both modules). With it, a handler that read the run in one turn can continue it in the
next: the procedure checks the state `pending_tools`, not the iteration (tool_worker.go:312,
up.sql:1864-1872). The comment at tool_worker.go:326-328 says that results of earlier
iterations are never included; it holds under that assumption only. `faults` and `rescue` show what
survives without it: the number of answers, the numbering and the rows are right, the contents of
the answers are not. The properties of contents (`AnswersComplete`, `ToolTurns`,
`WellFormedConversation`, `AgentLoop`) are checked and proved with the assumption, and each theorem names it.

### What cluster and session check

- `OneLeader`, `OneSweeper`: two flags (rescuers) at once only after one of the leases they
  were told of has run out or was released. The code does not promise more: the flag is written after
  the statement, and a sweep outlives the tick that asked.
- `MembersCanWork`: no running, registered instance is without its tools; it would claim nothing
  for as long as it lives. It depends on the order of `Start` and on what cleanup deletes.
- `LeaderEmerges`, `DeadCleaned`: whatever dies, is late or loses an answer.
- `WakeUpOnItsWay`, `AnswerIsTrue`, `NoWaiterLeaks`, `WaiterReturns`: registering before
  reading leaves no gap; poll and notification do not disagree; the table does not grow.
- `RequestPaired`: no request has an unanswered use, except for the three reasons the
  property names (another client's run of the session, or a compaction, comes between). One of
  them, a result that a compaction removed without a summary, is reported by `pruned`. A
  child's messages are never the reason, though they lie between every agent call and its result.
- `NothingLost`, `DeletesOldOnly`, `NothingForgotten`: overlapping compactions that archive the same
  message, or stop anywhere, leave each message in the session or, with its content, in the
  archive; they delete no recent message and no summary; and what is gone is told of in a summary.
  `NothingLost` has two exceptions: an archive insert that was reported to fail, and a message
  that the compaction read between the insert of its row and that of its blocks (store.go:1382).
  Of the second the archive keeps an empty copy for good, and a later compaction with the whole
  message cannot replace it (the key is taken), although docs/compaction.md:322-329 says that
  the archive holds the full message for recovery. `NothingForgotten` has that exception as well, for
  compactions that summarise, and one more: what a hybrid compaction without a summary deleted because pruning would
  have shortened it. That one contradicts the docs, and the run `pruned` reports it.
- `AnswerShown`, `HierarchyShowsAll`: a page that shows a run as completed shows its answer;
  the hierarchy has a group for every message. Both have the exceptions the page limits make.
- `MissIsFree`: the lookup of GetOrCreateAgent, which differs between the drivers and between
  nil and empty metadata, misses no row that the UNIQUE constraint then refuses. So a call that has no rival
  succeeds again and again; of two that race, the loser gets the constraint's error (client.go:265), though
  docs/distributed.md:80 and docs/ui.md:227 call it idempotent and safe on every startup.
- `WalkComplete`, `FleetShown`: lists read by OFFSET and pages read statement by statement are
  consistent as far as the comments of the two properties say, and no further.

Four of these name exceptions because the code has them. Things a reader of the code may want to know,
met while modelling: the session page's "recent" messages are the oldest ones; the chat page
asks for the oldest messages too, so a long session hides its last answer; an agent without
tools is shown as active though no instance exists; "View all runs" of a session is narrowed
on its first page only; WaitForRun is handed a nil run if the row is deleted under a
notification; `compaction_count` is set to 1, never incremented; nothing calls
`compaction.Config.Validate`, so negative settings pass; a message archived before its blocks
were inserted is archived empty.

### What the counterexamples show

- `orphan`: the poller reads the run as `batch_pending`; the rescuer puts it back to
  `pending` and clears the owner; the poller writes `batch_processing`. Now no claim
  (not pending), no poll and no rescue (no owner, no claimed_at) will see it.
- `doomed`: a worker stops (or is late) after inserting iteration n+1 and before writing
  `current_iteration`. The rescued run inserts n+1 again, violates UNIQUE and is failed.
- `lost`: tools are done and the run not yet continued; its claim is old; the rescue puts
  it to `pending` without a tool_result message, and the next request is malformed.
- `exhausted`: `agentpg_get_stuck_runs` filters `rescue_attempts < max`, so the branch of
  the rescuer that fails exhausted runs is dead code and such runs stay in flight.
- `pruned`: where pruning alone reaches the target, `findPrunedMessageIDs` hands the messages
  it shortened to `Compact` as those to archive, and `Compact` deletes them (hybrid.go:57,
  compaction.go:283-291). The shortened text is written nowhere. A run's result message goes, its use stays, and the
  next request of that run is malformed. docs/compaction.md:102-103 says the output is replaced
  by a placeholder and the tool structure preserved.
- `wedged`: one failed statement in `executeTool` leaves the execution `running` under a
  live instance. Nothing times it out, and the rescuer skips runs with running executions.

## Proofs

`RunLifecycle_proofs` proves, for any sets of runs and instances, any bounds and any
faults, from the named assumptions of `RunLifecycle` (run modes, `None` is no run or
instance, bounds are naturals, faults are known):

- `IndInvHolds`: `Spec => []IndInv`, the inductive invariant;
- `TypeCorrect`, `IterationsAskedOnce`, `PreparationIsExclusive`, `IterationsAreContiguous`:
  the invariants `TypeOK`, `AskedOnce`, `ExclusivePreparation`, `IterationsContiguous`;
- `TerminalStaysTerminal`, `CurrentIterationOnlyGrows`: the action properties
  `TerminalNeverReopened`, `CurrentIterationNeverRegresses`;
- `RescuesAreBudgeted`: the invariant `RescueBudget`, if at most one instance may lead
  (`OneLeader`). What makes it inductive is `Budgeted`: the rescuer's list names runs it has
  read as stuck below the budget, and nobody else counts rescues.

The inductive invariant has three parts. `TypeOK` alone is inductive only with
`WorkersAssigned`, `PollersAssigned` and `HandsAssigned`, which say what a process holds at each of its
control points. `RowsConsistent`: every row satisfies the CHECK. It is needed because
`Claim`, `BeginStream`, `Continue` and cleanup are modelled without the CHECK, and only a
consistent row shows that they cannot violate it; it gives `TerminalNeverReopened` at once,
since no statement that reopens a run clears `finalized_at`. `Exclusive`: a worker that
inserted an iteration is alone with it (`Alone`), because any other worker with the same
base fails on UNIQUE; so until it has written `current_iteration` nobody else moves that
column (`NotMoved`); the column is never behind the base of a claimed run (`HeldBehind`);
and an iteration that has no row was not sent (`Unsent`). Without `Unsent`, `AskedOnce` is
not inductive; without `Alone`, `NotMoved` is not.

The proof of exclusion separates the seven steps that take, insert, send or write an
iteration (lemma `ExclusiveStep`) from all others, for which one lemma suffices:
`OnwardKeeps` says that a process which only goes on, with nothing new in its hands, keeps
the invariant, and `OnwardSteps` that all other steps are of that kind.

`RunOwnership_proofs` proves what holds of a run only when some faults do not happen. The
hypotheses are constants of `RunLifecycle`, so each theorem says what it assumes:

| Theorem | States | Excludes |
|---|---|---|
| `OneWorkerPerRun` | `OneOwner` | rescuers (`MayLead = {}` or `MaxRescue = 0`), "error", "fast_batch": `OwnershipKept` |
| `ConversationIsWellFormed` | `WellFormedConversation` | these, "restart" and "late_notify": `TalkKept` |
| `EndIsFinal` | `TerminalIsFinal` | `OwnershipKept`'s, "restart" and "stall": `FinalityKept` |
| `AgentLoopImplemented`, `EachRunLoops` | `ImplementsLoop` | `FinalityKept`'s and "late_notify": `LoopKept` |
| `NobodyIsForgotten` | `NoRunForgotten` | `LoopKept`'s and "lost_result": `ProgressKept` |

Everything else may happen in them: instances that crash, claims that age, notifications
that are lost, several instances that handle one completion at once, batches that fail. The hypotheses are what the system relies on, not what the
proof needs: with any one of the excluded faults allowed again TLC violates the property (two
instances, both of which may crash). The runs `lost`, `doomed` and `orphan` show some of these.

Each theorem has its invariant, and each of these contains the one before it or `OwnInv`.
`OwnInv` adds to `IndInv` who holds a run: what a worker has in its hands is claimed by its
instance (`Hands`, `Claims`), a batch is recorded as submitted by whoever submitted it
(`Submitted`), one iteration of a run is engaged at a time (`OneEngaged`), and a run that
waits for a batch, for tools or for an answer is in no worker's hands (`Waiting`, `Unanswered`,
`Polling`). `OneOwner` alone says nothing of the rows, so a claim could not be shown to find
the run free. `EndInv` adds what is so of instances that are down (`Down`) and that nothing is
under way for an ended run (`Ended`). `TalkInv` adds what the conversation holds at each
control point of each process (`Talks`) and that `current_iteration` is the last one
(`Current`). `Talks` says also of which iteration the last message is: without the number, a
late answer of one turn could pass for that of the next. And it says what handlers have in their
hands (`Handed`): the turn the run waits in, or the run has moved on and Claude has answered
no later turn, which is where the hypothesis about "late_notify" enters. `LoopInv`, for the refinement, is `TalkInv` with `EndInv`,
that the model asks for tools in the first `MaxTurns` turns only (`Limited`), and that a run
which waits to be claimed has no owner (`Unowned`). A step moves a run's row, its turn or its conversation, and of the
three cases (`LoopBegins`, `LoopSpeaks`, and `LoopMoves` with `LoopSettles` and `LoopFails`)
each is a step of `AgentLoop` or changes nothing it can see; the invariant gives what the loop's
own guards ask for and the code does not test. `BusyInv` adds, for each state of a row, who will move it on: `Owned`, with
`Present` (who owns a run is registered or will be cleaned up) and `Asked` (what was submitted
is known to Claude). A step changes the work of one instance and one row at most, so most
cases go through a few lemmas on what such a step keeps (`FewerKeeps`, `SameWork`,
`GotoHeld`).

`ToolExecution_proofs` proves, for any sets of instances and calls, any bounds and any
faults, from the named assumptions of `ToolExecution`:

- `IndInvHolds`, the inductive invariant; `TypeCorrect`, `OneGoroutineEach`,
  `AttemptsStayBounded`, `TurnsAnsweredOnce` and the action property `FinishedIsFinal`: all
  that the run `faults` checks;
- if `late` is not a fault, `AnswersAreComplete` and `ToolTurnsImplemented`: the
  specification implements `ToolTurns` without its fairness.

Its inductive invariant has four parts besides types. `JobInv`: a goroutine's row is owned
by its instance and has the attempt count the goroutine was claimed with. That makes it the
only goroutine of its row, and the count it decides on the row's. `ExecInv`: every row
satisfies the CHECK, has an owner unless it is pending, has an attempt left while it is
pending, and does not exist before its turn. `Answers`: turns and answers alternate.
`Prompt`, without late completions: a notification unread and a handler under way are about
the present turn and find it complete, so what a handler has fetched is what it stores.

Every statement changes a row in one of three ways, which the lemmas name: the claim is held
(`Held`, lemma `HeldStep`), it is given up (`Released`, lemma `ReturnStep`), or a pending
row is claimed (`ClaimRows`). A step that does not ask for tools only moves rows onward
(`RowsKept`) and either leaves the answers alone (`Quiet`) or is the continuation; the
refinement and the last two parts of the invariant follow from that classification
(lemma `OtherSteps`), not from the actions.

`Membership_proofs`, for any set of instances, any positive TTLs (`ConfigAssumption`, which is
what `validate` ensures) and any that die or are late (`MembersAssumption`): `MemberInvHolds`,
`MemberTypeCorrect`, `LeadersApart`, `SweepersApart`, `RegisteredCanWork`. `OneLeader` is not
inductive: it says nothing of the row. `TrustInv` does: a flag's lease is the row's and ends no
later, so two that are not over have one holder. `SweepInv` is the same of a
rescuer, as long as its instance runs; `Stop` releases the lease under a sweep that goes on.

`Cluster_proofs`, for any callers and runs and any loss (`NothingAssumption`):
`WaiterInvHolds`, `WaiterTypeCorrect`, `WakeUpsComing`, `AnswersTrue`, `NoneLeaks`. The
invariant adds that what is announced has ended (`AnnouncedEnded`), that a channel holds what
the run has come to (`ChannelTrue`), and that a caller is in the table while its run lives
(`InTable`), which is where registering before reading enters: without it the case of a run
that ends between the two is not provable.

Of the composition: `ClusterSpec` implies the specification of either part
(`ClusterHasMembers`, `ClusterHasWaiters`), so the invariants of the run `cluster` hold of it
for any constants (`ClusterTypeCorrect`, `ClusterIsSafe`), and what the run checks is what is proved.

`Compaction_proofs`, for any runs, callers, bounds, faults and either strategy
(`RunsAssumption`, `UsesAssumption`, `TurnsAssumption`, `CallersAssumption`, `KeepAssumption`, `DefaultsAssumption`):
`CompInvHolds`, `CompTypeCorrect`, `MessagesKept`, `OnlyOldDeleted`, `MessagesTold`, `RequestsArePaired`. `DoomedSafe`: what a compaction is going
to delete is archived, still to be archived, or reported as failed. `DoomedOld`: it has
`PreserveLastN` newer messages, and keeps them, since whatever another compaction deletes
has as many newer ones itself (lemma `DeleteNewer`); this is the induction that
makes `DeletesOldOnly` true of overlapping compactions. Its lemmas reduce a step of the session to
three shapes of the log (nothing, one message more, one rewritten).

`MessagesKept` is `NothingLost`: `Somewhere` says where each message is, and `CopiesAsRead` that
a copy in the archive, or about to go there, has its content unless a compaction read it without
(`blank`: a worker inserts a message and its blocks in two statements, and a compaction may read
between them). `MessagesTold` is `NothingForgotten`: the model is told of what a compaction
removes, but for what one that summarises had read without blocks, and what a hybrid one without
a summary removed for a long result (`pruned`). `ToldInv` says of each compaction under way that the results it
counts are those it was asked for (`SameResults`) and why each message is doomed (`Reasons`).
`RequestsArePaired` is `RequestPaired`, for sessions with compactions, failed
runs, agents that call agents and any number of clients: `PairInv` says in which phase of a
run which blocks are there (`RunPhases`, `UseRows`, `UseBlocks`, `ResultBlocks`, `Unfilled`,
`Written`), and `Pairs` that a use and its result are in messages of one run with no other
message of that run between them. That another run of the session, or a compaction, is the
only thing that may part them follows from the order of the message numbers.

`WebUI_proofs`, for any runs, pages, instances and limits, from the assumptions of the modules it
extends and no others: `FleetInvHolds`, `FleetIsShown`; `PagesInvHolds`, `PagesTyped`,
`MessagesAreGrouped` (`HierarchyShowsAll`), `AnswerIsShown` (`AnswerShown`);
`PagingInvHolds`, `PagingTypeCorrect`, `WalkIsComplete`. `PagesSpec` has the chat pages and a page of details over
one session, all at once; `session` has one of them at a time.

- A page is read in several statements, so its invariant says what it has at each of them.
  What it needs of the session is `SessionInv`: a run that has ended writes no more
  (`AtWork`), a message is of a run that was created (`Authors`), a child is named by the call
  it was started for (`Families`), the last message of a run that is settled is its answer
  (`LastWord`). With it, what a page has read of an ended run is still so later
  (`AnswerStays`), however the session goes on.
- Chat pages (`ConsoleInv`): a page has thrown away what it asks for again (`Emptied`), it
  loads only when its run has ended (`Follows`), and has then the answer or a full page
  (`Answering`). That a page without the answer is full (`OldestOrFull`) takes a ranking: the
  messages of a finite log, counted by the number of older ones, are numbered from 0 without
  a gap (`Ranked`). `Grouping` rests on the order in which runs are created (`InOrder`): were a
  run left without a group, take the one that was created first; its parent came before it.
- Pages of details (`DetailInv`): an answer is listed, or its message is listed and its blocks are still to
  be read (`AnswerListed`); a child that is shown is in the tree or still to be put there
  (`TreeGrows`); `StillSo` is why what the first statement read agrees with the last.
- Pages of agents and instances (`FleetInv`): an instance that was capable all the time is
  listed or still to be read, and what is listed was capable at some moment.
- Lists (`PagingInv`): a row that is due and not seen comes after the offset, because rows
  that are created only move it on, and the next offset is at most where this page ended.

`Session_proofs`, for any agents, names, callers and drivers (`CatalogAssumption`):
`CatalogInvHolds` and `CallersFindTheirs`, which is `MissIsFree`. `Table` holds the UNIQUE
constraint; equal metadata contain each other in both drivers' sense, nil and empty included,
so what the constraint would refuse the lookup has found.

Of the composition: `SessionSpec` implies `CompSpec`, `CatalogSpec`, `PagingSpec`, `AdminSpec`
and, where pages of a session move, `PagesSpec` (`SessionHasCompaction` and so on), whence
`SessionTypeCorrect` and `SessionIsSafe`: all that the run `session` checks, for any constants.
That pages do to the session only what its clients do needs their invariant: a page submits a
run, and only `RunsOK` makes that the step of a client (`ConsoleLog`). The bounds of
`MCSession` only take behaviours away, and no theorem uses them.

Only model-checked: liveness (`EventuallyFinal`, `LeaderEmerges`, `DeadCleaned`,
`WaiterReturns`, the fairness in `ImplementsTurns`), which is outside the prover's reach. Every
other property of a run that is to pass is a theorem.

## Not modelled

- Contents of messages; token, iteration and cost counters: no decision of the code reads
  them, except compaction's estimates, which are modelled as small numbers. The counters are
  written as value read plus increment, so concurrent settlers can lose an increment; that is
  listed as a hazard without a property.
- Message search, vector embeddings, views and plain lookups of the stores.
- The attempt^4 delay: it only sets `scheduled_at`, and the models let a retry come at any
  time. What leads to a retry, a snooze or a discard is in `ToolExecution`.
- Transactions of the caller (RunTx) beyond "the run appears".
- PostgreSQL's own crash. Instances, capabilities and the lease are UNLOGGED tables, which are
  empty after it; no statement of the code restores them.
- Agents that call agents without end. Whether such a chain can go on depends on the depth the
  model reaches and on the tools of every instance, neither of which the code bounds.
- The dashboard and the list of compactions in the web UI, its templates, rendering,
  middleware and configuration; schemas and validation of tools (`tool/`); the examples.
- The run states `cancelled` and `awaiting_input` and the execution state `skipped`: they are
  in the schema, and no code enters them (`RunWaiters` has `cancelled`, which the handler of
  notifications tests for).

What is left to do: `AgentLoop` where runs are rescued. It does not hold there as it stands:
the rescuer acts on a list it has read, and a run that was continued and claimed again in
between loses that claim. An abstract loop that may repeat a turn would say what still
holds. Larger instances of `session` with two pages.
