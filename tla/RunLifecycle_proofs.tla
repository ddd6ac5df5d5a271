------------------------ MODULE RunLifecycle_proofs ------------------------
(***************************************************************************)
(* Proofs about RunLifecycle, for every set of runs and instances, every   *)
(* bound and every combination of faults.                                  *)
(***************************************************************************)
EXTENDS RunLifecycle, TLAPS

-----------------------------------------------------------------------------
(* The idioms of the model: what each leaves typed and what it changes. *)

\* A row with one of its columns rewritten is a row.
LEMMA RowTypes ==
    ASSUME NEW x \in Row, NEW st \in RunStates
    PROVE  /\ [x EXCEPT !.state = st] \in Row
           /\ [x EXCEPT !.state = st, !.final = TRUE] \in Row
           /\ [x EXCEPT !.state = st, !.claimed = None, !.aged = FALSE] \in Row
           /\ [x EXCEPT !.state = st, !.claimed = None, !.aged = FALSE, !.rescues = @ + 1] \in Row
           /\ \A n \in 0 .. MaxIter : [x EXCEPT !.state = st, !.cur = n] \in Row
           /\ \A n \in 0 .. MaxIter : [x EXCEPT !.cur = n] \in Row
           /\ \A i \in Instances : [x EXCEPT !.claimed = i, !.aged = FALSE, !.state = st] \in Row
           /\ [x EXCEPT !.aged = TRUE] \in Row
<1>1. [x EXCEPT !.state = st] \in Row
  BY DEF Row
<1>2. [x EXCEPT !.state = st, !.final = TRUE] \in Row
  BY DEF Row
<1>3. [x EXCEPT !.state = st, !.claimed = None, !.aged = FALSE] \in Row
  BY DEF Row
<1>4. [x EXCEPT !.state = st, !.claimed = None, !.aged = FALSE, !.rescues = @ + 1] \in Row
  <2>1. [x EXCEPT !.state = st, !.claimed = None, !.aged = FALSE, !.rescues = @ + 1]
        = [x EXCEPT !.state = st, !.claimed = None, !.aged = FALSE, !.rescues = x.rescues + 1]
    BY DEF Row
  <2>2. x.rescues + 1 \in Nat
    BY DEF Row
  <2>3. \A k \in Nat : [x EXCEPT !.state = st, !.claimed = None, !.aged = FALSE, !.rescues = k] \in Row
    BY DEF Row
  <2> QED
    BY <2>1, <2>2, <2>3
<1>5. ASSUME NEW n \in 0 .. MaxIter PROVE [x EXCEPT !.state = st, !.cur = n] \in Row
  BY DEF Row
<1>6. ASSUME NEW n \in 0 .. MaxIter PROVE [x EXCEPT !.cur = n] \in Row
  BY DEF Row
<1>7. ASSUME NEW i \in Instances
      PROVE  [x EXCEPT !.claimed = i, !.aged = FALSE, !.state = st] \in Row
  BY DEF Row
<1>8. [x EXCEPT !.aged = TRUE] \in Row
  BY DEF Row
<1> QED
  BY <1>1, <1>2, <1>3, <1>4, <1>5, <1>6, <1>7, <1>8

\* A checked UPDATE leaves well-typed rows, whether it is applied or rejected.
LEMMA WriteTypes ==
    ASSUME run \in [Runs -> Row], NEW r \in Runs, NEW new \in Row, Write(r, new)
    PROVE  run' \in [Runs -> Row]
  BY DEF Write

\* A stored message is appended to one conversation and types it.
LEMMA SaidTypes ==
    ASSUME conv \in [Runs -> Seq(Message)], NEW r \in Runs,
           NEW kind \in {"prompt", "tools", "text", "tool_result"}, NEW n \in 0 .. MaxIter,
           Said(r, kind, n)
    PROVE  conv' \in [Runs -> Seq(Message)]
<1>1. [kind |-> kind, iter |-> n] \in Message
  BY DEF Message
<1>2. conv[r] \in Seq(Message)
  OBVIOUS
<1>3. Append(conv[r], [kind |-> kind, iter |-> n]) \in Seq(Message)
  BY <1>1, <1>2
<1> QED
  BY <1>3 DEF Said

\* A worker that moves on keeps its run, its iteration and its queue; no other worker moves.
LEMMA GotoTypes ==
    ASSUME work \in [Instances -> [Modes -> Worker]], NEW i \in Instances, NEW m \in Modes,
           NEW pc \in WorkerPCs, Goto(i, m, pc)
    PROVE  /\ work' \in [Instances -> [Modes -> Worker]]
           /\ work'[i][m].pc = pc /\ work'[i][m].run = work[i][m].run
           /\ work'[i][m].base = work[i][m].base /\ work'[i][m].queue = work[i][m].queue
           /\ \A j \in Instances, k \in Modes : j # i \/ k # m => work'[j][k] = work[j][k]
<1> DEFINE w == [work[i][m] EXCEPT !.pc = pc]
<1>1. work[i][m] \in Worker
  OBVIOUS
<1>2. /\ w \in Worker /\ w.pc = pc /\ w.run = work[i][m].run
      /\ w.base = work[i][m].base /\ w.queue = work[i][m].queue
  BY <1>1 DEF Worker
<1>3. work' = [work EXCEPT ![i][m] = w]
  BY DEF Goto
<1> HIDE DEF w
<1>4. work' \in [Instances -> [Modes -> Worker]] /\ work'[i][m] = w
  BY <1>2, <1>3
<1>5. \A j \in Instances, k \in Modes : j # i \/ k # m => work'[j][k] = work[j][k]
  BY <1>3
<1> QED
  BY <1>2, <1>4, <1>5

\* A worker that is done with its run keeps its queue; no other worker moves.
LEMMA Next1Types ==
    ASSUME work \in [Instances -> [Modes -> Worker]], NEW i \in Instances, NEW m \in Modes,
           Next1(i, m)
    PROVE  /\ work' \in [Instances -> [Modes -> Worker]]
           /\ work'[i][m].pc = "idle" /\ work'[i][m].run = None
           /\ work'[i][m].queue = work[i][m].queue
           /\ \A j \in Instances, k \in Modes : j # i \/ k # m => work'[j][k] = work[j][k]
<1> DEFINE w == [work[i][m] EXCEPT !.pc = "idle", !.run = None, !.base = 0]
<1>1. work[i][m] \in Worker
  OBVIOUS
<1>2. "idle" \in WorkerPCs /\ 0 \in 0 .. MaxIter
  BY BoundsAssumption DEF WorkerPCs
<1>3. w \in Worker /\ w.pc = "idle" /\ w.run = None /\ w.queue = work[i][m].queue
  BY <1>1, <1>2 DEF Worker
<1>4. work' = [work EXCEPT ![i][m] = w]
  BY DEF Next1
<1> HIDE DEF w
<1>5. work' \in [Instances -> [Modes -> Worker]] /\ work'[i][m] = w
  BY <1>3, <1>4
<1>6. \A j \in Instances, k \in Modes : j # i \/ k # m => work'[j][k] = work[j][k]
  BY <1>4
<1> QED
  BY <1>3, <1>5, <1>6

\* A poller that moves on keeps its iteration and its list.
LEMMA PollGotoTypes ==
    ASSUME poll \in [Instances -> Poller], NEW i \in Instances, NEW pc \in PollerPCs,
           PollGoto(i, pc)
    PROVE  /\ poll' \in [Instances -> Poller]
           /\ poll'[i].pc = pc /\ poll'[i].run = poll[i].run /\ poll'[i].iter = poll[i].iter
           /\ poll'[i].list = poll[i].list
           /\ \A j \in Instances : j # i => poll'[j] = poll[j]
<1>1. poll[i] \in Poller
  OBVIOUS
<1>2. [poll[i] EXCEPT !.pc = pc] \in Poller
  BY <1>1 DEF Poller
<1>3. poll' = [poll EXCEPT ![i] = [poll[i] EXCEPT !.pc = pc]]
  BY DEF PollGoto
<1> QED
  BY <1>1, <1>2, <1>3 DEF Poller

\* A poller that is done with an iteration keeps its list.
LEMMA PollNextTypes ==
    ASSUME poll \in [Instances -> Poller], NEW i \in Instances, PollNext(i)
    PROVE  /\ poll' \in [Instances -> Poller]
           /\ poll'[i].pc = "idle" /\ poll'[i].list = poll[i].list
           /\ \A j \in Instances : j # i => poll'[j] = poll[j]
<1>1. poll[i] \in Poller
  OBVIOUS
<1>2. "idle" \in PollerPCs /\ 0 \in 0 .. MaxIter
  BY BoundsAssumption DEF PollerPCs
<1>3. [poll[i] EXCEPT !.pc = "idle", !.run = None, !.iter = 0] \in Poller
  BY <1>1, <1>2 DEF Poller
<1>4. poll' = [poll EXCEPT ![i] = [poll[i] EXCEPT !.pc = "idle", !.run = None, !.iter = 0]]
  BY DEF PollNext
<1> QED
  BY <1>1, <1>3, <1>4 DEF Poller

-----------------------------------------------------------------------------
(* Types *)

Assigned == WorkersAssigned /\ PollersAssigned /\ HandsAssigned

ApiValues == Replies \cup {"none", "running", "canceling"}

\* The names of states and control points used below belong to their types.
LEMMA Names ==
    /\ Terminal \cup InFlight \cup {"absent", "pending"} = RunStates
    /\ {"batch_submitting", "batch_pending", "batch_processing", "streaming", "pending_tools"} \subseteq RunStates
    /\ {"completed", "failed", "pending"} \subseteq RunStates
    /\ {"absent", "created", "in_progress", "canceling", "ended"} = Statuses
    /\ {"idle", "prompt", "iterate", "submit", "record", "advance", "begin", "stream",
        "respond", "settle", "fail"} = WorkerPCs
    /\ {"idle", "seen", "mark", "cancel", "ended", "fetch", "respond", "settle", "fail"} = PollerPCs
    /\ {"none", "running", "canceling", "tools", "text", "errored", "lost"} = ApiValues
    /\ "batch" \in Modes /\ "streaming" \in Modes
    /\ 0 \in 0 .. MaxIter
  BY BoundsAssumption
     DEF RunStates, Terminal, InFlight, Statuses, WorkerPCs, PollerPCs, ApiValues, Replies, Modes

\* A worker at work: its run, and the iteration it is about to do.
LEMMA WorkerTask ==
    ASSUME Types, Assigned, NEW i \in Instances, NEW m \in Modes, work[i][m].pc # "idle"
    PROVE  /\ work[i][m] \in Worker
           /\ work[i][m].run \in Runs
           /\ work[i][m].base \in 0 .. MaxIter
           /\ work[i][m].base + 1 \in Iters /\ work[i][m].base + 1 \in 0 .. MaxIter
           /\ work[i][m].base \in Nat
<1>1. work[i][m] \in Worker
  BY DEF Types
<1>2. work[i][m].run \in Runs /\ work[i][m].base < MaxIter
  BY DEF Assigned, WorkersAssigned, PollersAssigned
<1>3. work[i][m].base \in 0 .. MaxIter
  BY <1>1 DEF Worker
<1> QED
  BY <1>1, <1>2, <1>3, BoundsAssumption DEF Iters

\* A poller at work: its run and its iteration.
LEMMA PollerTask ==
    ASSUME Types, Assigned, NEW i \in Instances, poll[i].pc # "idle"
    PROVE  /\ poll[i] \in Poller
           /\ poll[i].run \in Runs
           /\ poll[i].iter \in Iters /\ poll[i].iter \in 0 .. MaxIter /\ poll[i].iter \in Nat
<1>1. poll[i] \in Poller
  BY DEF Types
<1>2. poll[i].run \in Runs /\ poll[i].iter \in Iters
  BY DEF Assigned, WorkersAssigned, PollersAssigned
<1> QED
  BY <1>1, <1>2, BoundsAssumption DEF Iters

\* The two rows processResult may write.
LEMMA SettledTypes ==
    ASSUME Types, NEW r \in Runs, NEW n \in Iters, Settle(r, n)
    PROVE  run' \in [Runs -> Row] /\ open' \in [Runs -> SUBSET Iters]
<1>1. run[r] \in Row /\ run \in [Runs -> Row] /\ open \in [Runs -> SUBSET Iters]
  BY DEF Types
<1>2. SettledRow(r, n) \in Row
  BY <1>1, RowTypes, Names DEF SettledRow
<1>3. run' \in [Runs -> Row]
  BY <1>1, <1>2, WriteTypes DEF Settle
<1>4. [open EXCEPT ![r] = @ \cup {n}] \in [Runs -> SUBSET Iters]
  BY <1>1
<1> QED
  BY <1>1, <1>3, <1>4 DEF Settle

\* failRun writes a row.
LEMMA FailedTypes ==
    ASSUME Types, NEW r \in Runs
    PROVE  FailedRow(r) \in Row
  BY RowTypes, Names DEF Types, FailedRow

\* What becomes of a notification, and of the runs whose tools are complete.
Noted(r) == DropNote(r) \/ \E i \in Instances : HandStep(i, r) \/ HandError(i, r)

\* A handler's procedure finds the run still waiting.
Continuing(r) ==
    /\ \E i \in Instances : /\ hand[i].pc = "continue" /\ hand[i].run = r
                            /\ hand[i].iter \in Iters /\ Continue(r, hand[i].iter)
    /\ UNCHANGED <<status, api, open, work, poll, stuck, up, row>>

\* The handlers read, but for the procedure that continues the run with the results of
\* the iteration they have read.
LEMMA NotedMoves ==
    ASSUME Assigned, NEW r \in Runs, Noted(r)
    PROVE  /\ UNCHANGED <<status, api, open, work, poll, stuck, up, row>>
           /\ UNCHANGED <<run, conv>> \/ Continuing(r)
<1>1. CASE DropNote(r)
  BY <1>1 DEF DropNote
<1>2. ASSUME NEW i \in Instances, HandStep(i, r) \/ HandError(i, r)
      PROVE  /\ UNCHANGED <<status, api, open, work, poll, stuck, up, row>>
             /\ UNCHANGED <<run, conv>> \/ (/\ hand[i].pc = "continue" /\ hand[i].run = r
                                            /\ hand[i].iter \in Iters /\ Continue(r, hand[i].iter))
  BY <1>2 DEF HandStep, HandError, HandleNote, CheckStuck, ReadListed, ContinueRun, Handles,
              Assigned, HandsAssigned
<1> QED
  BY <1>1, <1>2 DEF Noted, Continuing

\* A handler holds the run that it reads, or nothing.
LEMMA HandTypes ==
    ASSUME Types, Assigned, NEW r \in Runs, NEW i \in Instances, HandStep(i, r) \/ HandError(i, r)
    PROVE  hand' \in [Instances -> Hand] /\ HandsAssigned'
<1> USE DEF Types
<1>1. Unused \in Hand /\ Unused.pc = "idle"
  BY BoundsAssumption DEF Hand, Unused
<1>2. AsRead(r) \in Hand /\ (AsRead(r) # Unused => AsRead(r).run = r /\ AsRead(r).iter \in Iters)
  <2>1. run[r].cur \in 0 .. MaxIter /\ (run[r].cur > 0 => run[r].cur \in Iters)
    BY BoundsAssumption DEF Row, Iters
  <2> QED
    BY <1>1, <2>1 DEF AsRead, Hand
<1>3. ASSUME CheckStuck(i, r)
      PROVE  hand' \in [Instances -> Hand] /\ HandsAssigned'
  <2>1. hand[i].pc = "idle" /\ hand' = [hand EXCEPT ![i].pc = "read", ![i].run = r]
    BY <1>3 DEF CheckStuck, Handles
  <2>2. hand[i] \in Hand
    OBVIOUS
  <2>3. [hand[i] EXCEPT !.pc = "read", !.run = r] \in Hand
    BY <2>2 DEF Hand
  <2>4. hand' = [hand EXCEPT ![i] = [hand[i] EXCEPT !.pc = "read", !.run = r]]
    BY <2>1
  <2> QED
    BY <2>2, <2>3, <2>4 DEF Assigned, HandsAssigned, Hand
<1>4. ASSUME hand' = [hand EXCEPT ![i] = AsRead(r)] \/ hand' = [hand EXCEPT ![i] = Unused]
      PROVE  hand' \in [Instances -> Hand] /\ HandsAssigned'
  BY <1>1, <1>2, <1>4 DEF Assigned, HandsAssigned
<1> QED
  BY <1>3, <1>4 DEF HandStep, HandleNote, ReadListed, ContinueRun, HandError

\* Every step of every process keeps the types of the tables, the processes and the API.
LEMMA TypesStep ==
    ASSUME Types, Assigned, Next
    PROVE  Types'
<1> USE DEF Types
<1>1. ASSUME NEW r \in Runs, CreateRun(r) PROVE Types'
  BY <1>1, RowTypes, Names DEF CreateRun
<1>2. ASSUME NEW r \in Runs, NEW n \in Iters, Continue(r, n)
      PROVE  run' \in [Runs -> Row] /\ conv' \in [Runs -> Seq(Message)] /\ note' \subseteq Runs
  <2>1. run' \in [Runs -> Row]
    BY <1>2, RowTypes, Names DEF Continue, Continued
  <2>2. n \in 0 .. MaxIter
    BY BoundsAssumption DEF Iters
  <2>3. conv' \in [Runs -> Seq(Message)]
    BY <1>2, <2>2, SaidTypes DEF Continue
  <2> QED
    BY <1>2, <2>1, <2>3 DEF Continue
<1>3. ASSUME NEW r \in Runs, NEW i \in Instances, HandStep(i, r) \/ HandError(i, r) PROVE Types'
  <2>1. CASE ContinueRun(i, r)
    BY <1>2, <1>3, <2>1, HandTypes DEF ContinueRun, Handles, Assigned, HandsAssigned
  <2>2. CASE HandleNote(i, r) \/ CheckStuck(i, r) \/ ReadListed(i, r) \/ HandError(i, r)
    BY <1>3, <2>2, HandTypes DEF HandleNote, CheckStuck, ReadListed, HandError
  <2> QED
    BY <1>3, <2>1, <2>2 DEF HandStep
<1>4. ASSUME NEW r \in Runs, DropNote(r) PROVE Types'
  BY <1>4 DEF DropNote
<1>6. ASSUME NEW r \in Runs, AgeClaim(r) PROVE Types'
  BY <1>6, RowTypes, Names DEF AgeClaim
<1>7. ASSUME NEW r \in Runs, NEW n \in Iters, EndBatch(r, n) PROVE Types'
  <2>1. \A k \in Iters : BatchReplies(k) \subseteq ApiValues
    BY Names DEF BatchReplies
  <2> QED
    BY <1>7, <2>1 DEF EndBatch, ApiValues
<1>8. ASSUME NEW r \in Runs, NEW n \in Iters, CancelBatch(r, n) PROVE Types'
  <2>1. api \in [Runs -> [Iters -> ApiValues]] /\ {"canceling", "lost"} \subseteq ApiValues
    BY Names DEF ApiValues
  <2>2. api' \in [Runs -> [Iters -> ApiValues]]
    <3>1. CASE api' = [api EXCEPT ![r][n] = "canceling"]
      BY <2>1, <3>1
    <3>2. CASE api' = [api EXCEPT ![r][n] = "lost"]
      BY <2>1, <3>2
    <3> QED
      BY <1>8, <3>1, <3>2 DEF CancelBatch
  <2> QED
    BY <1>8, <2>2 DEF CancelBatch, ApiValues
<1>9. ASSUME NEW r \in Runs, NEW n \in Iters, FinishTools(r, n) PROVE Types'
  BY <1>9 DEF FinishTools
<1>10. ASSUME NEW i \in Instances, NEW m \in Modes, Claim(i, m) PROVE Types'
  <2>1. PICK S \in (SUBSET Claimable(i, m)) \ {{}} :
          /\ run' = [r \in Runs |->
                     IF r \in S
                     THEN [run[r] EXCEPT !.claimed = i, !.aged = FALSE,
                             !.state = IF m = "batch" THEN "batch_submitting" ELSE "streaming"]
                     ELSE run[r]]
          /\ work' = [work EXCEPT ![i][m].queue = {[run |-> r, base |-> run[r].cur] : r \in S}]
    BY <1>10 DEF Claim
  <2>2. run' \in [Runs -> Row]
    BY <2>1, RowTypes, Names
  <2>3. {[run |-> r, base |-> run[r].cur] : r \in S} \in SUBSET Task
    <3>1. ASSUME NEW r \in S PROVE r \in Runs /\ run[r].cur \in 0 .. MaxIter
      <4>1. r \in Runs
        BY <2>1 DEF Claimable
      <4> QED
        BY <4>1 DEF Row
    <3> QED
      BY <3>1 DEF Task
  <2>4. work' \in [Instances -> [Modes -> Worker]]
    <3> DEFINE q == {[run |-> r, base |-> run[r].cur] : r \in S}
    <3>0. work[i][m] \in Worker /\ q \in SUBSET Task
      BY <2>3
    <3>1. [work[i][m] EXCEPT !.queue = q] \in Worker
      <4> HIDE DEF q
      <4> QED
        BY <3>0 DEF Worker
    <3>2. work' = [work EXCEPT ![i][m] = [work[i][m] EXCEPT !.queue = q]]
      BY <2>1
    <3> QED
      BY <3>1, <3>2
  <2> QED
    BY <1>10, <2>2, <2>4 DEF Claim
<1>11. ASSUME NEW i \in Instances, NEW m \in Modes, Take(i, m) PROVE Types'
  <2>1. PICK t \in work[i][m].queue :
          work' = [work EXCEPT ![i][m] =
                     [pc |-> IF t.base = 0 THEN "prompt" ELSE "iterate",
                      run |-> t.run, base |-> t.base, queue |-> work[i][m].queue \ {t}]]
    BY <1>11 DEF Take
  <2>2. t \in Task /\ work[i][m].queue \ {t} \in SUBSET Task
    BY <2>1 DEF Worker
  <2>3. [pc |-> IF t.base = 0 THEN "prompt" ELSE "iterate",
         run |-> t.run, base |-> t.base, queue |-> work[i][m].queue \ {t}] \in Worker
    BY <2>2, Names DEF Worker, Task
  <2>4. work' \in [Instances -> [Modes -> Worker]]
    BY <2>1, <2>3
  <2> QED
    BY <1>11, <2>4 DEF Take
<1>12. ASSUME NEW i \in Instances, NEW m \in Modes, CreatePrompt(i, m) PROVE Types'
  <2>1. conv' \in [Runs -> Seq(Message)]
    BY <1>12, WorkerTask, SaidTypes, Names DEF CreatePrompt, At
  <2> QED
    BY <1>12, <2>1, GotoTypes, Names DEF CreatePrompt
<1>13. ASSUME NEW i \in Instances, NEW m \in Modes, CreateIteration(i, m) PROVE Types'
  <2>1. status' \in [Runs -> [Iters -> Statuses]]
    BY <1>13, WorkerTask, Names DEF CreateIteration, At
  <2> QED
    BY <1>13, <2>1, GotoTypes, Names DEF CreateIteration
<1>14. ASSUME NEW i \in Instances, NEW m \in Modes, SubmitBatch(i, m) PROVE Types'
  <2>1. api' \in [Runs -> [Iters -> ApiValues]]
    BY <1>14, WorkerTask, Names DEF SubmitBatch, At, ApiValues
  <2> QED
    BY <1>14, <2>1, GotoTypes, Names DEF SubmitBatch, ApiValues
<1>15. ASSUME NEW i \in Instances, NEW m \in Modes, RecordBatch(i, m) PROVE Types'
  <2>1. status' \in [Runs -> [Iters -> Statuses]]
    BY <1>15, WorkerTask, Names DEF RecordBatch, At
  <2> QED
    BY <1>15, <2>1, GotoTypes, Names DEF RecordBatch
<1>16. ASSUME NEW i \in Instances, NEW m \in Modes, AdvanceRun(i, m) PROVE Types'
  <2>1. run' \in [Runs -> Row]
    BY <1>16, WorkerTask, WriteTypes, RowTypes, Names DEF AdvanceRun, AdvancedRow, At
  <2> QED
    BY <1>16, <2>1, GotoTypes, Next1Types, Names DEF AdvanceRun
<1>17. ASSUME NEW i \in Instances, NEW m \in Modes, BeginStream(i, m) PROVE Types'
  <2>1. run' \in [Runs -> Row]
    BY <1>17, WorkerTask, RowTypes, Names DEF BeginStream, At
  <2> QED
    BY <1>17, <2>1, GotoTypes, Names DEF BeginStream
<1>18. ASSUME NEW i \in Instances, NEW m \in Modes, StreamReply(i, m) PROVE Types'
  <2>1. api' \in [Runs -> [Iters -> ApiValues]]
    <3>1. PICK reply \in {"text", "tools"} :
            api' = [api EXCEPT ![work[i][m].run][work[i][m].base + 1] = reply]
      BY <1>18 DEF StreamReply
    <3>2. reply \in ApiValues /\ api \in [Runs -> [Iters -> ApiValues]]
      BY Names DEF ApiValues
    <3>3. work[i][m].run \in Runs /\ work[i][m].base + 1 \in Iters
      BY <1>18, WorkerTask DEF StreamReply, At
    <3> QED
      BY <3>1, <3>2, <3>3
  <2> QED
    BY <1>18, <2>1, GotoTypes, Names DEF StreamReply, ApiValues
<1>19. ASSUME NEW i \in Instances, NEW m \in Modes, StreamRespond(i, m) PROVE Types'
  <2>1. api[work[i][m].run][work[i][m].base + 1] \in {"tools", "text"}
    BY <1>19 DEF StreamRespond, At, Assigned, WorkersAssigned
  <2>2. conv' \in [Runs -> Seq(Message)]
    BY <1>19, <2>1, WorkerTask, SaidTypes DEF StreamRespond, At
  <2> QED
    BY <1>19, <2>2, GotoTypes, Names DEF StreamRespond
<1>20. ASSUME NEW i \in Instances, NEW m \in Modes, StreamSettle(i, m) PROVE Types'
  <2>1. run' \in [Runs -> Row] /\ open' \in [Runs -> SUBSET Iters]
    BY <1>20, WorkerTask, SettledTypes DEF StreamSettle, At
  <2> QED
    BY <1>20, <2>1, GotoTypes, Next1Types, Names DEF StreamSettle
<1>21. ASSUME NEW i \in Instances, NEW m \in Modes, FailRun(i, m) PROVE Types'
  <2>1. run' \in [Runs -> Row]
    BY <1>21, WorkerTask, WriteTypes, FailedTypes DEF FailRun, At
  <2> QED
    BY <1>21, <2>1, Next1Types DEF FailRun
<1>22. ASSUME NEW i \in Instances, NEW m \in Modes, WorkerError(i, m) PROVE Types'
  BY <1>22, GotoTypes, Next1Types, Names DEF WorkerError
<1>23. ASSUME NEW i \in Instances, ListIterations(i) PROVE Types'
  <2>1. [poll[i] EXCEPT !.list = Pollable(i)] \in Poller
    <3>1. poll[i] \in Poller /\ Pollable(i) \in SUBSET (Runs \X Iters)
      BY DEF Pollable
    <3> QED
      BY <3>1 DEF Poller
  <2> QED
    BY <1>23, <2>1 DEF ListIterations
<1>24. ASSUME NEW i \in Instances, GetBatch(i) PROVE Types'
  <2>1. PICK p \in poll[i].list :
          poll' = [poll EXCEPT ![i] =
                   [pc |-> CASE api[p[1]][p[2]] = "running"   -> "seen"
                             [] api[p[1]][p[2]] = "canceling" -> "cancel"
                             [] OTHER                         -> "ended",
                    run |-> p[1], iter |-> p[2], list |-> poll[i].list \ {p}]]
    BY <1>24 DEF GetBatch
  <2>2. p \in Runs \X Iters /\ poll[i].list \ {p} \in SUBSET (Runs \X Iters)
    BY <2>1 DEF Poller
  <2>3. p[1] \in Runs /\ p[2] \in 0 .. MaxIter
    BY <2>2, BoundsAssumption DEF Iters
  <2>4. [pc |-> CASE api[p[1]][p[2]] = "running"   -> "seen"
                  [] api[p[1]][p[2]] = "canceling" -> "cancel"
                  [] OTHER                         -> "ended",
         run |-> p[1], iter |-> p[2], list |-> poll[i].list \ {p}] \in Poller
    BY <2>2, <2>3, Names DEF Poller
  <2> QED
    BY <1>24, <2>1, <2>4 DEF GetBatch
<1>25. ASSUME NEW i \in Instances, ReadRun(i) PROVE Types'
  BY <1>25, PollGotoTypes, PollNextTypes, Names DEF ReadRun
<1>26. ASSUME NEW i \in Instances, MarkProcessing(i) PROVE Types'
  <2>1. run' \in [Runs -> Row]
    BY <1>26, PollerTask, WriteTypes, RowTypes, Names DEF MarkProcessing, Polls
  <2> QED
    BY <1>26, <2>1, PollNextTypes DEF MarkProcessing
<1>27. ASSUME NEW i \in Instances, MarkCanceling(i) PROVE Types'
  <2>1. status' \in [Runs -> [Iters -> Statuses]]
    BY <1>27, PollerTask, Names DEF MarkCanceling, Polls
  <2> QED
    BY <1>27, <2>1, PollNextTypes DEF MarkCanceling
<1>28. ASSUME NEW i \in Instances, MarkEnded(i) PROVE Types'
  <2>1. status' \in [Runs -> [Iters -> Statuses]]
    BY <1>28, PollerTask, Names DEF MarkEnded, Polls
  <2> QED
    BY <1>28, <2>1, PollGotoTypes, Names DEF MarkEnded
<1>29. ASSUME NEW i \in Instances, FetchResult(i) PROVE Types'
  BY <1>29, PollGotoTypes, PollNextTypes, Names DEF FetchResult
<1>30. ASSUME NEW i \in Instances, PollRespond(i) PROVE Types'
  <2>1. api[poll[i].run][poll[i].iter] \in {"tools", "text"}
    BY <1>30 DEF PollRespond, Polls, Assigned, PollersAssigned
  <2>2. conv' \in [Runs -> Seq(Message)]
    BY <1>30, <2>1, PollerTask, SaidTypes DEF PollRespond, Polls
  <2> QED
    BY <1>30, <2>2, PollGotoTypes, Names DEF PollRespond
<1>31. ASSUME NEW i \in Instances, PollSettle(i) PROVE Types'
  <2>1. run' \in [Runs -> Row] /\ open' \in [Runs -> SUBSET Iters]
    BY <1>31, PollerTask, SettledTypes DEF PollSettle, Polls
  <2> QED
    BY <1>31, <2>1, PollNextTypes DEF PollSettle
<1>32. ASSUME NEW i \in Instances, PollFail(i) PROVE Types'
  <2>1. run' \in [Runs -> Row]
    BY <1>32, PollerTask, WriteTypes, FailedTypes DEF PollFail, Polls
  <2> QED
    BY <1>32, <2>1, PollNextTypes DEF PollFail
<1>33. ASSUME NEW i \in Instances, PollError(i) PROVE Types'
  BY <1>33, PollGotoTypes, PollNextTypes, Names DEF PollError
<1>34. ASSUME NEW i \in Instances, ScanStuck(i) PROVE Types'
  <2>1. {[run |-> r, attempts |-> run[r].rescues] : r \in StuckRuns}
          \in SUBSET [run : Runs, attempts : Nat]
    BY DEF StuckRuns, Row
  <2> QED
    BY <1>34, <2>1 DEF ScanStuck
<1>35. ASSUME NEW i \in Instances, RescueRun(i) PROVE Types'
  <2>1. PICK s \in stuck[i] :
          /\ stuck' = [stuck EXCEPT ![i] = @ \ {s}]
          /\ Write(s.run, IF s.attempts >= MaxRescue THEN FailedRow(s.run) ELSE RescuedRow(s.run))
    BY <1>35 DEF RescueRun
  <2>2. s.run \in Runs
    OBVIOUS
  <2>3. RescuedRow(s.run) \in Row /\ FailedRow(s.run) \in Row
    BY <2>2, RowTypes, FailedTypes, Names DEF RescuedRow
  <2>4. run' \in [Runs -> Row]
    BY <2>1, <2>2, <2>3, WriteTypes
  <2> QED
    BY <1>35, <2>1, <2>4 DEF RescueRun
<1>36. ASSUME NEW i \in Instances, Crash(i) PROVE Types'
  <2>1. Quiet \in Poller
    BY Names DEF Quiet, Poller
  <2>2. [m \in Modes |-> Rest] \in [Modes -> Worker]
    BY Names DEF Rest, Worker
  <2> QED
    BY <1>36, <2>1, <2>2, BoundsAssumption DEF Crash, Unused, Hand
<1>37. ASSUME NEW i \in Instances, DeleteInstance(i) PROVE Types'
  <2>1. run' \in [Runs -> Row]
    BY <1>37, FailedTypes DEF DeleteInstance
  <2> QED
    BY <1>37, <2>1 DEF DeleteInstance
<1>38. ASSUME NEW i \in Instances, Restart(i) PROVE Types'
  BY <1>38 DEF Restart
<1> HIDE DEF Types
<1> QED
  BY <1>1, <1>3, <1>4, <1>6, <1>7, <1>8, <1>9, <1>10, <1>11, <1>12, <1>13, <1>14, <1>15,
     <1>16, <1>17, <1>18, <1>19, <1>20, <1>21, <1>22, <1>23, <1>24, <1>25, <1>26, <1>27, <1>28,
     <1>29, <1>30, <1>31, <1>32, <1>33, <1>34, <1>35, <1>36, <1>37, <1>38
     DEF Next, WorkerStep, PollerStep

\* Only the handlers, and the end of their process, change what they hold.
LEMMA HandsStep ==
    ASSUME Types, Assigned, Next
    PROVE  HandsAssigned'
<1>1. ASSUME UNCHANGED hand PROVE HandsAssigned'
  BY <1>1 DEF Assigned, HandsAssigned
<1>2. ASSUME NEW r \in Runs, CreateRun(r) \/ Noted(r) \/ AgeClaim(r)
      PROVE  HandsAssigned'
  BY <1>1, <1>2, HandTypes DEF CreateRun, Noted, DropNote, AgeClaim
<1>3. ASSUME NEW r \in Runs, NEW n \in Iters, EndBatch(r, n) \/ CancelBatch(r, n) \/ FinishTools(r, n)
      PROVE  HandsAssigned'
  BY <1>1, <1>3 DEF EndBatch, CancelBatch, FinishTools
<1>4. ASSUME NEW i \in Instances, NEW m \in Modes, Claim(i, m) \/ WorkerStep(i, m) \/ WorkerError(i, m)
      PROVE  HandsAssigned'
  BY <1>1, <1>4 DEF Claim, WorkerStep, WorkerError, Take, CreatePrompt, CreateIteration, SubmitBatch,
     RecordBatch, AdvanceRun, BeginStream, StreamReply, StreamRespond, StreamSettle, FailRun
<1>5. ASSUME NEW i \in Instances, PollerStep(i) \/ PollError(i)
      PROVE  HandsAssigned'
  BY <1>1, <1>5 DEF PollerStep, PollError, ListIterations, GetBatch, ReadRun, MarkProcessing,
     MarkCanceling, MarkEnded, FetchResult, PollRespond, PollSettle, PollFail
<1>6. ASSUME NEW i \in Instances, ScanStuck(i) \/ RescueRun(i) \/ DeleteInstance(i) \/ Restart(i)
      PROVE  HandsAssigned'
  BY <1>1, <1>6 DEF ScanStuck, RescueRun, DeleteInstance, Restart
<1>7. ASSUME NEW i \in Instances, Crash(i) PROVE HandsAssigned'
  BY <1>7 DEF Crash, Types, Assigned, HandsAssigned, Unused
<1> QED
  BY <1>2, <1>3, <1>4, <1>5, <1>6, <1>7 DEF Next, Noted

-----------------------------------------------------------------------------
(* The CHECK on finalized_at *)

\* Every row satisfies the CHECK: the statements that the model lets through
\* unchecked produce only rows that satisfy it.
RowsConsistent == \A q \in Runs : Consistent(run[q])

\* What every step does to the state of every run.
RowsKept ==
    \A q \in Runs : Consistent(run'[q]) /\ (IsTerminal(q) => run'[q].state \in Terminal)

\* A checked UPDATE that does not reset finalized_at does not reopen a run.
LEMMA WriteKept ==
    ASSUME Types, RowsConsistent, NEW r \in Runs, NEW new \in Row, Write(r, new),
           new.final = run[r].final \/ new.final = TRUE
    PROVE  RowsKept
<1>1. run \in [Runs -> Row]
  BY DEF Types
<1>2. CASE Consistent(new)
  <2>1. run' = [run EXCEPT ![r] = new]
    BY <1>2 DEF Write
  <2>2. IsTerminal(r) => new.state \in Terminal
    BY <1>2 DEF IsTerminal, Consistent, RowsConsistent
  <2> QED
    BY <1>1, <1>2, <2>1, <2>2 DEF RowsKept, RowsConsistent, IsTerminal
<1>3. CASE ~Consistent(new)
  BY <1>3 DEF Write, RowsKept, RowsConsistent, IsTerminal
<1> QED
  BY <1>2, <1>3

\* processResult's transaction keeps the CHECK and reopens no run.
LEMMA SettleKept ==
    ASSUME Types, RowsConsistent, NEW r \in Runs, NEW n \in Iters, Settle(r, n)
    PROVE  RowsKept
<1>1. SettledRow(r, n) \in Row
  BY RowTypes, Names DEF SettledRow, Types
<1>2. SettledRow(r, n).final = run[r].final \/ SettledRow(r, n).final = TRUE
  BY DEF SettledRow, Types, Row
<1> QED
  BY <1>1, <1>2, WriteKept DEF Settle

\* Neither does failRun.
LEMMA FailKept ==
    ASSUME Types, RowsConsistent, NEW r \in Runs, Write(r, FailedRow(r))
    PROVE  RowsKept
<1>1. FailedRow(r).final = TRUE
  BY DEF FailedRow, Types, Row
<1> QED
  BY <1>1, FailedTypes, WriteKept

\* Every step keeps the CHECK true of every row and reopens no run, because each UPDATE
\* that could reopen one leaves finalized_at set and is rejected.
LEMMA RowsStep ==
    ASSUME Types, Assigned, RowsConsistent, Next
    PROVE  RowsKept
<1>0. run \in [Runs -> Row]
  BY DEF Types
<1>1. ASSUME UNCHANGED run PROVE RowsKept
  BY <1>1 DEF RowsKept, RowsConsistent, IsTerminal
<1>2. ASSUME NEW r \in Runs, CreateRun(r) PROVE RowsKept
  <2>1. ~run[r].final
    BY <1>2 DEF CreateRun, RowsConsistent, Consistent, Terminal
  <2> QED
    BY <1>0, <1>2, <2>1 DEF CreateRun, RowsKept, RowsConsistent, Consistent, IsTerminal, Row, Terminal
<1>3. ASSUME NEW r \in Runs, NEW n \in Iters, Continue(r, n) PROVE RowsKept
  <2>1. ~run[r].final
    BY <1>3 DEF Continue, Continued, RowsConsistent, Consistent, Terminal
  <2> QED
    BY <1>0, <1>3, <2>1 DEF Continue, Continued, RowsKept, RowsConsistent, Consistent, IsTerminal, Row, Terminal
<1>4. ASSUME NEW r \in Runs, AgeClaim(r) PROVE RowsKept
  BY <1>0, <1>4 DEF AgeClaim, RowsKept, RowsConsistent, Consistent, IsTerminal, Row
<1>5. ASSUME NEW i \in Instances, NEW m \in Modes, Claim(i, m) PROVE RowsKept
  <2>1. PICK S \in (SUBSET Claimable(i, m)) \ {{}} :
          run' = [r \in Runs |->
                    IF r \in S
                    THEN [run[r] EXCEPT !.claimed = i, !.aged = FALSE,
                            !.state = IF m = "batch" THEN "batch_submitting" ELSE "streaming"]
                    ELSE run[r]]
    BY <1>5 DEF Claim
  <2>2. ASSUME NEW q \in S PROVE q \in Runs /\ run[q].state = "pending"
    BY <2>1 DEF Claimable
  <2>3. ASSUME NEW q \in S PROVE Consistent(run'[q]) /\ ~IsTerminal(q)
    <3>1. ~run[q].final /\ ~IsTerminal(q)
      BY <2>2, <2>3 DEF RowsConsistent, Consistent, Terminal, IsTerminal
    <3>2. /\ run'[q].final = run[q].final
          /\ run'[q].state \in {"batch_submitting", "streaming"}
      BY <1>0, <2>1, <2>2, <2>3 DEF Row
    <3> QED
      BY <3>1, <3>2 DEF Consistent, Terminal
  <2>4. ASSUME NEW q \in Runs, q \notin S PROVE run'[q] = run[q]
    BY <2>1, <2>4
  <2> QED
    BY <2>3, <2>4 DEF RowsKept, RowsConsistent, IsTerminal
<1>6. ASSUME NEW i \in Instances, NEW m \in Modes, AdvanceRun(i, m) PROVE RowsKept
  <2> DEFINE r == work[i][m].run  new == AdvancedRow(r, work[i][m].base + 1)
  <2>1. r \in Runs /\ new \in Row /\ Write(r, new)
    BY <1>6, WorkerTask, RowTypes, Names DEF AdvanceRun, At, AdvancedRow, Types
  <2>2. new.final = run[r].final
    BY <1>0, <2>1 DEF AdvancedRow, Row
  <2> QED
    BY <2>1, <2>2, WriteKept
<1>7. ASSUME NEW i \in Instances, NEW m \in Modes, BeginStream(i, m) PROVE RowsKept
  <2>1. work[i][m].run \in Runs
    BY <1>7, WorkerTask DEF BeginStream, At
  <2> QED
    BY <1>0, <1>7, <2>1 DEF BeginStream, RowsKept, RowsConsistent, Consistent, IsTerminal, Row
<1>8. ASSUME NEW i \in Instances, NEW m \in Modes, StreamSettle(i, m) PROVE RowsKept
  BY <1>8, WorkerTask, SettleKept DEF StreamSettle, At
<1>9. ASSUME NEW i \in Instances, NEW m \in Modes, FailRun(i, m) PROVE RowsKept
  BY <1>9, WorkerTask, FailKept DEF FailRun, At
<1>10. ASSUME NEW i \in Instances, MarkProcessing(i) PROVE RowsKept
  <2> DEFINE r == poll[i].run  new == [run[r] EXCEPT !.state = "batch_processing"]
  <2>1. r \in Runs /\ new \in Row /\ Write(r, new)
    BY <1>10, PollerTask, RowTypes, Names DEF MarkProcessing, Polls, Types
  <2>2. new.final = run[r].final
    BY <1>0, <2>1 DEF Row
  <2> QED
    BY <2>1, <2>2, WriteKept
<1>11. ASSUME NEW i \in Instances, PollSettle(i) PROVE RowsKept
  BY <1>11, PollerTask, SettleKept DEF PollSettle, Polls
<1>12. ASSUME NEW i \in Instances, PollFail(i) PROVE RowsKept
  BY <1>12, PollerTask, FailKept DEF PollFail, Polls
<1>13. ASSUME NEW i \in Instances, RescueRun(i) PROVE RowsKept
  <2>1. PICK s \in stuck[i] :
          Write(s.run, IF s.attempts >= MaxRescue THEN FailedRow(s.run) ELSE RescuedRow(s.run))
    BY <1>13 DEF RescueRun
  <2>2. s.run \in Runs
    BY DEF Types
  <2>3. RescuedRow(s.run) \in Row
    BY <2>2, RowTypes, Names DEF RescuedRow, Types
  <2>4. RescuedRow(s.run).final = run[s.run].final
    BY <1>0, <2>2 DEF RescuedRow, Row
  <2>5. CASE s.attempts >= MaxRescue
    BY <2>1, <2>2, <2>5, FailKept
  <2>6. CASE ~(s.attempts >= MaxRescue)
    BY <2>1, <2>2, <2>3, <2>4, <2>6, WriteKept
  <2> QED
    BY <2>5, <2>6
<1>14. ASSUME NEW i \in Instances, DeleteInstance(i) PROVE RowsKept
  <2>1. \A q \in Runs : run'[q] = FailedRow(q) \/ run'[q] = run[q]
    BY <1>14 DEF DeleteInstance
  <2>2. \A q \in Runs : FailedRow(q).final = TRUE /\ FailedRow(q).state = "failed"
    BY <1>0 DEF FailedRow, Row
  <2> QED
    BY <2>1, <2>2 DEF RowsKept, RowsConsistent, Consistent, IsTerminal, Terminal
<1> QED
  <2> USE <1>1
  <2>1. ASSUME NEW r \in Runs, CreateRun(r) \/ Noted(r) \/ AgeClaim(r)
        PROVE  RowsKept
    BY <1>1, <1>2, <1>3, <1>4, <2>1, NotedMoves DEF Continuing
  <2>2. ASSUME NEW r \in Runs, NEW n \in Iters, EndBatch(r, n) \/ CancelBatch(r, n) \/ FinishTools(r, n)
        PROVE  RowsKept
    BY <2>2 DEF EndBatch, CancelBatch, FinishTools
  <2>3. ASSUME NEW i \in Instances, NEW m \in Modes, Claim(i, m) \/ WorkerStep(i, m) \/ WorkerError(i, m)
        PROVE  RowsKept
    BY <1>5, <1>6, <1>7, <1>8, <1>9, <2>3
       DEF WorkerStep, WorkerError, Take, CreatePrompt, CreateIteration, SubmitBatch, RecordBatch,
           StreamReply, StreamRespond
  <2>4. ASSUME NEW i \in Instances, PollerStep(i) \/ PollError(i)
        PROVE  RowsKept
    BY <1>10, <1>11, <1>12, <2>4
       DEF PollerStep, PollError, ListIterations, GetBatch, ReadRun, MarkCanceling, MarkEnded,
           FetchResult, PollRespond
  <2>5. ASSUME NEW i \in Instances, ScanStuck(i) \/ RescueRun(i) \/ Crash(i) \/ DeleteInstance(i) \/ Restart(i)
        PROVE  RowsKept
    BY <1>13, <1>14, <2>5 DEF ScanStuck, Crash, Restart
  <2> QED
    BY <2>1, <2>2, <2>3, <2>4, <2>5 DEF Next, Noted

-----------------------------------------------------------------------------
(* One worker per iteration *)

\* An iteration that was not created was not sent to the API.
Unsent == \A r \in Runs, n \in Iters : status[r][n] = "absent" => api[r][n] = "none"

Exclusive == ExclusivePreparation /\ AskedOnce /\ IterationsContiguous /\ Unsent

Asking == {"submit", "begin", "stream"}
Unmoved == Preparing \ {"stream", "respond", "settle"}

\* How the control points between claiming a run and answering it are ordered.
LEMMA PCs ==
    /\ Asking \subseteq Preparing /\ Unmoved = {"submit", "record", "advance", "begin"}
    /\ \A pc \in {"idle", "prompt", "iterate", "fail"} : pc \notin Preparing /\ pc \notin Unmoved /\ pc \notin Asking
  BY DEF Asking, Unmoved, Preparing

CurKept == \A r \in Runs : run'[r].cur = run[r].cur
SameAbsent == \A r \in Runs, n \in Iters : status'[r][n] = "absent" <=> status[r][n] = "absent"
SameNone == \A r \in Runs, n \in Iters : api'[r][n] = "none" <=> api[r][n] = "none"

\* A worker that goes on with what it holds, comes no closer to the API, and takes
\* nothing new.
Onward(w, v) ==
    /\ v.pc # "idle" => w.pc # "idle" /\ v.run = w.run /\ v.base = w.base
    /\ v.queue \subseteq w.queue
    /\ v.pc \in Preparing => w.pc \in Preparing
    /\ v.pc \in Unmoved => w.pc \in Unmoved
    /\ v.pc \in Asking => w.pc \in Asking

WorkOnward == \A i \in Instances, m \in Modes : Onward(work[i][m], work'[i][m])

\* The steps of everybody who is not about to write the iterations or the column.
LEMMA OnwardKeeps ==
    ASSUME Types, Assigned, Exclusive, CurKept, SameAbsent, SameNone, WorkOnward
    PROVE  Exclusive'
<1>0. \A i \in Instances, m \in Modes :
        /\ work[i][m].pc # "idle" => /\ work[i][m].run \in Runs
                                     /\ work[i][m].base + 1 \in Iters
        /\ \A t \in work[i][m].queue : t.run \in Runs
  BY WorkerTask DEF Types, Worker, Task
<1>1. HeldBehind'
  BY <1>0 DEF Exclusive, ExclusivePreparation, HeldBehind, CurKept, WorkOnward, Onward
<1>2. CreatedBefore'
  BY <1>0, PCs DEF Exclusive, ExclusivePreparation, CreatedBefore, SameAbsent, WorkOnward, Onward
<1>3. NotMoved'
  <2>1. ASSUME NEW i \in Instances, NEW m \in Modes, work'[i][m].pc \in Unmoved
        PROVE  run'[work'[i][m].run].cur = work'[i][m].base
    <3>1. work[i][m].pc \in Unmoved /\ work'[i][m].pc # "idle"
      BY <2>1, PCs DEF WorkOnward, Onward
    <3>2. run[work[i][m].run].cur = work[i][m].base
      BY <3>1 DEF Exclusive, ExclusivePreparation, NotMoved, Unmoved
    <3> QED
      BY <1>0, <3>1, <3>2 DEF CurKept, WorkOnward, Onward
  <2> QED
    BY <2>1 DEF NotMoved, Unmoved
<1>4. Alone'
  <2>1. ASSUME NEW i \in Instances, NEW m \in Modes, work'[i][m].pc \in Preparing
        PROVE  /\ work[i][m].pc \in Preparing
               /\ work'[i][m].run = work[i][m].run /\ work'[i][m].base = work[i][m].base
    BY <2>1, PCs DEF WorkOnward, Onward
  <2> QED
    BY <2>1 DEF Exclusive, ExclusivePreparation, Alone
<1>5. AskedOnce'
  <2>1. ASSUME NEW i \in Instances, NEW m \in Modes, work'[i][m].pc \in Asking
        PROVE  api'[work'[i][m].run][work'[i][m].base + 1] = "none"
    <3>1. work[i][m].pc \in Asking /\ work'[i][m].pc # "idle"
      BY <2>1, PCs DEF WorkOnward, Onward
    <3>2. api[work[i][m].run][work[i][m].base + 1] = "none"
      BY <3>1 DEF Exclusive, AskedOnce, Asking
    <3> QED
      BY <1>0, <3>1, <3>2 DEF SameNone, WorkOnward, Onward
  <2> QED
    BY <2>1 DEF AskedOnce, Asking
<1>6. IterationsContiguous'
  BY DEF Exclusive, IterationsContiguous, CurKept, SameAbsent
<1>7. Unsent'
  BY DEF Exclusive, Unsent, SameAbsent, SameNone
<1> QED
  BY <1>1, <1>2, <1>3, <1>4, <1>5, <1>6, <1>7 DEF Exclusive, ExclusivePreparation

\* The steps of one worker that stays with its run leave the others alone.
LEMMA GotoOnward ==
    ASSUME Types, NEW i \in Instances, NEW m \in Modes, NEW pc \in WorkerPCs, Goto(i, m, pc),
           work[i][m].pc # "idle",
           pc \in Preparing => work[i][m].pc \in Preparing,
           pc \in Unmoved => work[i][m].pc \in Unmoved,
           pc \in Asking => work[i][m].pc \in Asking
    PROVE  WorkOnward
<1>1. work \in [Instances -> [Modes -> Worker]]
  BY DEF Types
<1>2. /\ work'[i][m].pc = pc /\ work'[i][m].run = work[i][m].run
      /\ work'[i][m].base = work[i][m].base /\ work'[i][m].queue = work[i][m].queue
      /\ \A j \in Instances, k \in Modes : j # i \/ k # m => work'[j][k] = work[j][k]
  BY <1>1, GotoTypes
<1>3. Onward(work[i][m], work'[i][m])
  BY <1>2 DEF Onward
<1>4. ASSUME NEW j \in Instances, NEW k \in Modes, j # i \/ k # m
      PROVE  Onward(work[j][k], work'[j][k])
  BY <1>2, <1>4 DEF Onward
<1> QED
  BY <1>3, <1>4 DEF WorkOnward

\* A worker that drops its run comes no closer to the API.
LEMMA Next1Onward ==
    ASSUME Types, NEW i \in Instances, NEW m \in Modes, Next1(i, m)
    PROVE  WorkOnward
<1>1. /\ work'[i][m].pc = "idle" /\ work'[i][m].queue = work[i][m].queue
      /\ \A j \in Instances, k \in Modes : j # i \/ k # m => work'[j][k] = work[j][k]
  BY Next1Types DEF Types
<1> QED
  BY <1>1, PCs DEF WorkOnward, Onward

\* Nor does one that does nothing.
LEMMA SameOnward == UNCHANGED work => WorkOnward
  BY DEF WorkOnward, Onward

\* The steps that fit OnwardKeeps: everything but seven steps of the workers.
LEMMA OnwardSteps ==
    ASSUME Types, Assigned, Exclusive, Next
    PROVE  \/ CurKept /\ SameAbsent /\ SameNone /\ WorkOnward
           \/ \E i \in Instances, m \in Modes :
                \/ Claim(i, m) \/ Take(i, m) \/ CreateIteration(i, m) \/ SubmitBatch(i, m)
                \/ AdvanceRun(i, m) \/ BeginStream(i, m) \/ StreamReply(i, m)
<1> DEFINE Ok == CurKept /\ SameAbsent /\ SameNone /\ WorkOnward
<1>0. run \in [Runs -> Row]
  BY DEF Types
<1>a. UNCHANGED run => CurKept
  BY DEF CurKept
<1>b. UNCHANGED status => SameAbsent
  BY DEF SameAbsent
<1>c. UNCHANGED api => SameNone
  BY DEF SameNone
<1>d. ASSUME NEW r \in Runs, NEW new \in Row, Write(r, new), new.cur = run[r].cur PROVE CurKept
  BY <1>0, <1>d DEF Write, CurKept
<1>e. ASSUME NEW r \in Runs, NEW n \in Iters, NEW v, v # "absent", status[r][n] # "absent",
             status' = [status EXCEPT ![r][n] = v]
      PROVE  SameAbsent
  BY <1>e DEF SameAbsent, Types
<1>f. ASSUME NEW r \in Runs, NEW n \in Iters, NEW v, v # "none", api[r][n] # "none",
             api' = [api EXCEPT ![r][n] = v]
      PROVE  SameNone
  BY <1>f DEF SameNone, Types
<1>g. ASSUME NEW r \in Runs, NEW n \in Iters, Settle(r, n) PROVE CurKept
  <2>1. SettledRow(r, n) \in Row /\ SettledRow(r, n).cur = run[r].cur
    <3>1. SettledRow(r, n) \in Row
      BY <1>0, RowTypes, Names DEF SettledRow
    <3>2. SettledRow(r, n).cur = run[r].cur
      BY <1>0 DEF SettledRow, Row
    <3> QED
      BY <3>1, <3>2
  <2> QED
    BY <1>d, <1>g, <2>1 DEF Settle
<1>h. ASSUME NEW r \in Runs, Write(r, FailedRow(r)) PROVE CurKept
  <2>1. FailedRow(r).cur = run[r].cur
    BY <1>0 DEF FailedRow, Row
  <2> QED
    BY <1>d, <1>h, <2>1, FailedTypes
<1> USE <1>a, <1>b, <1>c, SameOnward
<1>1. ASSUME NEW r \in Runs, CreateRun(r) PROVE Ok
  BY <1>0, <1>1 DEF CreateRun, CurKept, Row
<1>2. ASSUME NEW r \in Runs, NEW n \in Iters, Continue(r, n) PROVE CurKept
  BY <1>0, <1>2 DEF Continue, Continued, CurKept, Row
<1>3. ASSUME NEW r \in Runs, AgeClaim(r) PROVE Ok
  BY <1>0, <1>3 DEF AgeClaim, CurKept, Row
<1>4. ASSUME NEW r \in Runs, NEW n \in Iters, EndBatch(r, n) PROVE Ok
  <2>1. PICK v \in BatchReplies(n) : api' = [api EXCEPT ![r][n] = v]
    BY <1>4 DEF EndBatch
  <2>2. v # "none" /\ api[r][n] # "none"
    BY <1>4, <2>1 DEF EndBatch, BatchReplies
  <2> QED
    BY <1>4, <1>f, <2>1, <2>2 DEF EndBatch
<1>5. ASSUME NEW r \in Runs, NEW n \in Iters, CancelBatch(r, n) PROVE Ok
  BY <1>5, <1>f DEF CancelBatch
<1>6. ASSUME NEW i \in Instances, NEW m \in Modes, CreatePrompt(i, m) PROVE Ok
  BY <1>6, GotoOnward, PCs, Names DEF CreatePrompt, At
<1>7. ASSUME NEW i \in Instances, NEW m \in Modes, RecordBatch(i, m) PROVE Ok
  <2>1. WorkOnward
    BY <1>7, GotoOnward, Names DEF RecordBatch, At, Preparing, Unmoved, Asking
  <2>2. status[work[i][m].run][work[i][m].base + 1] # "absent"
    BY <1>7 DEF RecordBatch, At, Exclusive, ExclusivePreparation, CreatedBefore, Preparing
  <2> QED
    BY <1>7, <1>e, <2>1, <2>2, WorkerTask DEF RecordBatch, At
<1>8. ASSUME NEW i \in Instances, NEW m \in Modes, StreamRespond(i, m) PROVE Ok
  BY <1>8, GotoOnward, Names DEF StreamRespond, At, Preparing, Unmoved, Asking
<1>9. ASSUME NEW i \in Instances, NEW m \in Modes, StreamSettle(i, m) PROVE Ok
  <2>1. WorkOnward
    BY <1>9, GotoOnward, Next1Onward, PCs, Names DEF StreamSettle, At
  <2> QED
    BY <1>9, <1>g, <2>1, WorkerTask DEF StreamSettle, At
<1>10. ASSUME NEW i \in Instances, NEW m \in Modes, FailRun(i, m) PROVE Ok
  BY <1>10, <1>h, WorkerTask, Next1Onward DEF FailRun, At
<1>11. ASSUME NEW i \in Instances, NEW m \in Modes, WorkerError(i, m) PROVE Ok
  BY <1>11, GotoOnward, Next1Onward, PCs, Names DEF WorkerError
<1>12. ASSUME NEW i \in Instances, MarkProcessing(i) PROVE Ok
  <2> DEFINE r == poll[i].run  new == [run[r] EXCEPT !.state = "batch_processing"]
  <2>1. r \in Runs /\ new \in Row /\ Write(r, new)
    BY <1>0, <1>12, PollerTask, RowTypes, Names DEF MarkProcessing, Polls
  <2>2. new.cur = run[r].cur
    BY <1>0, <2>1 DEF Row
  <2>3. CurKept
    BY <1>d, <2>1, <2>2
  <2> QED
    BY <1>12, <2>3 DEF MarkProcessing
<1>13. ASSUME NEW i \in Instances, MarkCanceling(i) PROVE Ok
  <2>1. status[poll[i].run][poll[i].iter] # "absent"
    BY <1>13 DEF MarkCanceling, Polls, Assigned, PollersAssigned
  <2> QED
    BY <1>13, <1>e, <2>1, PollerTask DEF MarkCanceling, Polls
<1>14. ASSUME NEW i \in Instances, MarkEnded(i) PROVE Ok
  <2>1. status[poll[i].run][poll[i].iter] # "absent"
    BY <1>14 DEF MarkEnded, Polls, Assigned, PollersAssigned
  <2> QED
    BY <1>14, <1>e, <2>1, PollerTask DEF MarkEnded, Polls
<1>15. ASSUME NEW i \in Instances, PollSettle(i) PROVE Ok
  BY <1>15, <1>g, PollerTask DEF PollSettle, Polls
<1>16. ASSUME NEW i \in Instances, PollFail(i) PROVE Ok
  BY <1>16, <1>h, PollerTask DEF PollFail, Polls
<1>17. ASSUME NEW i \in Instances, RescueRun(i) PROVE Ok
  <2>1. PICK s \in stuck[i] :
          Write(s.run, IF s.attempts >= MaxRescue THEN FailedRow(s.run) ELSE RescuedRow(s.run))
    BY <1>17 DEF RescueRun
  <2>2. s.run \in Runs
    BY DEF Types
  <2>3. RescuedRow(s.run) \in Row
    BY <1>0, <2>2, RowTypes, Names DEF RescuedRow
  <2>4. RescuedRow(s.run).cur = run[s.run].cur
    BY <1>0, <2>2 DEF RescuedRow, Row
  <2>5. CurKept
    <3>1. CASE s.attempts >= MaxRescue
      BY <1>h, <2>1, <2>2, <3>1
    <3>2. CASE ~(s.attempts >= MaxRescue)
      BY <1>d, <2>1, <2>2, <2>3, <2>4, <3>2
    <3> QED
      BY <3>1, <3>2
  <2> QED
    BY <1>17, <2>5 DEF RescueRun
<1>18. ASSUME NEW i \in Instances, Crash(i) PROVE Ok
  <2>1. \A j \in Instances, k \in Modes :
          work'[j][k] = IF j = i THEN Rest ELSE work[j][k]
    BY <1>18 DEF Crash, Types
  <2>2. WorkOnward
    BY <2>1, PCs DEF WorkOnward, Onward, Rest
  <2> QED
    BY <1>18, <2>2 DEF Crash
<1>19. ASSUME NEW i \in Instances, DeleteInstance(i) PROVE Ok
  <2>1. \A q \in Runs : run'[q] = FailedRow(q) \/ run'[q] = run[q]
    BY <1>19 DEF DeleteInstance
  <2>2. \A q \in Runs : FailedRow(q).cur = run[q].cur
    BY <1>0 DEF FailedRow, Row
  <2> QED
    BY <1>19, <2>1, <2>2 DEF DeleteInstance, CurKept
<1> HIDE DEF Ok
<1>20. ASSUME NEW r \in Runs, CreateRun(r) \/ Noted(r) \/ AgeClaim(r)
       PROVE  Ok
  <2>1. CASE Noted(r)
    <3>1. UNCHANGED run => CurKept
      BY DEF CurKept
    <3> QED
      BY <1>2, <2>1, <3>1, NotedMoves DEF Ok, Continuing
  <2> QED
    BY <1>1, <1>3, <1>20, <2>1 DEF Ok
<1>21. ASSUME NEW r \in Runs, NEW n \in Iters, EndBatch(r, n) \/ CancelBatch(r, n) \/ FinishTools(r, n)
       PROVE  Ok
  BY <1>4, <1>5, <1>21 DEF Ok, FinishTools
<1>22. ASSUME NEW i \in Instances, PollerStep(i) \/ PollError(i)
       PROVE  Ok
  BY <1>12, <1>13, <1>14, <1>15, <1>16, <1>22
     DEF Ok, PollerStep, PollError, ListIterations, GetBatch, ReadRun, FetchResult, PollRespond
<1>23. ASSUME NEW i \in Instances, ScanStuck(i) \/ RescueRun(i) \/ Crash(i) \/ DeleteInstance(i) \/ Restart(i)
       PROVE  Ok
  BY <1>17, <1>18, <1>19, <1>23 DEF Ok, ScanStuck, Restart
<1> QED
  BY <1>6, <1>7, <1>8, <1>9, <1>10, <1>11, <1>20, <1>21, <1>22, <1>23 DEF Ok, Next, Noted, WorkerStep

\* The seven steps left: each takes, inserts, sends or writes an iteration.
LEMMA ExclusiveStep ==
    ASSUME Types, Assigned, Exclusive, Next
    PROVE  Exclusive'
<1>0. /\ run \in [Runs -> Row]
      /\ work \in [Instances -> [Modes -> Worker]]
      /\ api \in [Runs -> [Iters -> ApiValues]]
      /\ status \in [Runs -> [Iters -> Statuses]]
  BY DEF Types, ApiValues
<1>1. \A i \in Instances, m \in Modes :
        /\ work[i][m].pc # "idle" => /\ work[i][m].run \in Runs
                                     /\ work[i][m].base + 1 \in Iters /\ work[i][m].base \in Nat
        /\ \A t \in work[i][m].queue : t.run \in Runs
  BY WorkerTask DEF Types, Worker, Task
<1>2. \A r \in Runs : run[r].cur \in Nat
  BY <1>0, BoundsAssumption DEF Row
<1> USE DEF Exclusive, ExclusivePreparation
<1>3. ASSUME NEW i \in Instances, NEW m \in Modes, Claim(i, m) PROVE Exclusive'
  <2>1. PICK S \in (SUBSET Claimable(i, m)) \ {{}} :
          /\ run' = [r \in Runs |->
                     IF r \in S
                     THEN [run[r] EXCEPT !.claimed = i, !.aged = FALSE,
                             !.state = IF m = "batch" THEN "batch_submitting" ELSE "streaming"]
                     ELSE run[r]]
          /\ work' = [work EXCEPT ![i][m].queue = {[run |-> r, base |-> run[r].cur] : r \in S}]
    BY <1>3 DEF Claim
  <2>2. CurKept
    BY <1>0, <2>1 DEF CurKept, Row
  <2>3. /\ \A j \in Instances, k \in Modes :
             /\ work'[j][k].pc = work[j][k].pc /\ work'[j][k].run = work[j][k].run
             /\ work'[j][k].base = work[j][k].base
             /\ j # i \/ k # m => work'[j][k].queue = work[j][k].queue
        /\ work'[i][m].queue = {[run |-> r, base |-> run[r].cur] : r \in S}
    <3> DEFINE q == {[run |-> r, base |-> run[r].cur] : r \in S}
    <3>1. work' = [work EXCEPT ![i][m] = [work[i][m] EXCEPT !.queue = q]]
      BY <2>1
    <3> HIDE DEF q
    <3>2. /\ [work[i][m] EXCEPT !.queue = q].pc = work[i][m].pc
          /\ [work[i][m] EXCEPT !.queue = q].run = work[i][m].run
          /\ [work[i][m] EXCEPT !.queue = q].base = work[i][m].base
          /\ [work[i][m] EXCEPT !.queue = q].queue = q
      BY <1>0 DEF Worker
    <3>3. work'[i][m].queue = q
      BY <1>0, <3>1, <3>2
    <3>4. \A j \in Instances, k \in Modes :
             /\ work'[j][k].pc = work[j][k].pc /\ work'[j][k].run = work[j][k].run
             /\ work'[j][k].base = work[j][k].base
             /\ j # i \/ k # m => work'[j][k].queue = work[j][k].queue
      BY <1>0, <3>1, <3>2
    <3> QED
      BY <3>3, <3>4 DEF q
  <2>4. HeldBehind'
    <3>1. ASSUME NEW t \in work'[i][m].queue PROVE t.run \in Runs /\ t.base = run[t.run].cur
      <4>1. PICK r \in S : t = [run |-> r, base |-> run[r].cur]
        BY <2>3
      <4>2. r \in Runs
        BY <2>1 DEF Claimable
      <4> QED
        BY <4>1, <4>2
    <3>2. ASSUME NEW j \in Instances, NEW k \in Modes, NEW t \in work'[j][k].queue
          PROVE  t.base <= run'[t.run].cur
      BY <1>1, <1>2, <2>2, <2>3, <3>1 DEF HeldBehind, CurKept
    <3>3. ASSUME NEW j \in Instances, NEW k \in Modes, work'[j][k].pc # "idle"
          PROVE  work'[j][k].base <= run'[work'[j][k].run].cur
      BY <1>1, <2>2, <2>3, <3>3 DEF HeldBehind, CurKept
    <3> QED
      BY <3>2, <3>3 DEF HeldBehind
  <2>a. UNCHANGED <<status, api>>
    BY <1>3 DEF Claim
  <2>b. CreatedBefore'
    BY <2>3, <2>a DEF CreatedBefore
  <2>c. Alone'
    BY <2>3 DEF Alone
  <2>d. AskedOnce'
    BY <2>3, <2>a DEF AskedOnce
  <2>5. CreatedBefore' /\ Alone' /\ AskedOnce' /\ Unsent'
    BY <2>a, <2>b, <2>c, <2>d DEF Unsent
  <2>6. NotMoved'
    BY <1>1, <2>2, <2>3, PCs DEF NotMoved, CurKept, Unmoved, Preparing
  <2>7. IterationsContiguous'
    BY <1>3, <2>2 DEF Claim, IterationsContiguous, CurKept
  <2> QED
    BY <2>4, <2>5, <2>6, <2>7
<1>4. ASSUME NEW i \in Instances, NEW m \in Modes, Take(i, m) PROVE Exclusive'
  <2>1. PICK t \in work[i][m].queue :
          work' = [work EXCEPT ![i][m] =
                     [pc |-> IF t.base = 0 THEN "prompt" ELSE "iterate",
                      run |-> t.run, base |-> t.base, queue |-> work[i][m].queue \ {t}]]
    BY <1>4 DEF Take
  <2>2. /\ work'[i][m].pc \in {"prompt", "iterate"}
        /\ work'[i][m].run = t.run /\ work'[i][m].base = t.base
        /\ work'[i][m].queue \subseteq work[i][m].queue
        /\ \A j \in Instances, k \in Modes : j # i \/ k # m => work'[j][k] = work[j][k]
    BY <1>0, <2>1
  <2>3. HeldBehind'
    BY <1>4, <2>1, <2>2 DEF Take, HeldBehind
  <2>4. CreatedBefore'
    BY <1>4, <2>2, PCs DEF Take, CreatedBefore
  <2>5. NotMoved'
    BY <1>4, <2>2, PCs DEF Take, NotMoved, Unmoved
  <2>6. Alone'
    BY <2>2, PCs DEF Alone
  <2>7. AskedOnce'
    BY <1>4, <2>2, PCs DEF Take, AskedOnce, Asking
  <2> QED
    BY <1>4, <2>3, <2>4, <2>5, <2>6, <2>7 DEF Take, IterationsContiguous, Unsent
<1>5. ASSUME NEW i \in Instances, NEW m \in Modes, CreateIteration(i, m) PROVE Exclusive'
  <2> DEFINE r == work[i][m].run  n == work[i][m].base + 1
  <2>1. r \in Runs /\ n \in Iters /\ work[i][m].base \in Nat /\ work[i][m].pc = "iterate"
    BY <1>1, <1>5 DEF CreateIteration, At
  <2>2. CASE status[r][n] # "absent"
    <3>1. UNCHANGED <<run, status, api>> /\ Goto(i, m, "fail")
      BY <1>5, <2>2 DEF CreateIteration
    <3>2. WorkOnward
      BY <2>1, <3>1, GotoOnward, PCs, Names
    <3>3. CurKept /\ SameAbsent /\ SameNone
      BY <3>1 DEF CurKept, SameAbsent, SameNone
    <3> QED
      BY <3>2, <3>3, OnwardKeeps
  <2>3. CASE status[r][n] = "absent"
    <3>1. /\ UNCHANGED <<run, api>>
          /\ status' = [status EXCEPT ![r][n] = "created"]
          /\ Goto(i, m, "submit") \/ Goto(i, m, "begin")
      BY <1>5, <2>3 DEF CreateIteration
    <3>2. /\ work'[i][m].pc \in {"submit", "begin"}
          /\ work'[i][m].run = r /\ work'[i][m].base = work[i][m].base
          /\ work'[i][m].queue = work[i][m].queue
          /\ \A j \in Instances, k \in Modes : j # i \/ k # m => work'[j][k] = work[j][k]
      BY <1>0, <3>1, GotoTypes, Names
    <3>3. \A q \in Runs, k \in Iters :
            status'[q][k] # "absent" <=> status[q][k] # "absent" \/ (q = r /\ k = n)
      BY <1>0, <2>1, <3>1
    <3>4. run[r].cur = work[i][m].base
      <4>1. work[i][m].base <= run[r].cur
        BY <2>1 DEF HeldBehind
      <4>2. ~(n <= run[r].cur)
        BY <2>1, <2>3 DEF IterationsContiguous
      <4> QED
        BY <1>2, <2>1, <4>1, <4>2
    <3>5. ASSUME NEW j \in Instances, NEW k \in Modes, work[j][k].pc \in Preparing
          PROVE  ~(work[j][k].run = r /\ work[j][k].base = work[i][m].base)
      BY <2>3, <3>5 DEF CreatedBefore
    <3>6. HeldBehind'
      BY <2>1, <3>1, <3>2 DEF HeldBehind
    <3>7. CreatedBefore'
      BY <1>1, <2>1, <3>2, <3>3 DEF CreatedBefore, Preparing
    <3>8. NotMoved'
      BY <2>1, <3>1, <3>2, <3>4 DEF NotMoved
    <3>9. Alone'
      BY <2>1, <3>2, <3>5 DEF Alone
    <3>10. AskedOnce'
      BY <2>1, <2>3, <3>1, <3>2 DEF AskedOnce, Unsent
    <3>11. IterationsContiguous'
      BY <1>2, <2>1, <3>1, <3>3, <3>4 DEF IterationsContiguous
    <3>12. Unsent'
      BY <3>1, <3>3 DEF Unsent
    <3> QED
      BY <3>6, <3>7, <3>8, <3>9, <3>10, <3>11, <3>12
  <2> QED
    BY <2>2, <2>3
\* The API hears of an iteration from the one worker that prepares it.
<1>6. ASSUME NEW i \in Instances, NEW m \in Modes, NEW v \in ApiValues, NEW pc \in {"record", "respond"},
             work[i][m].pc \in {"submit", "stream"}, work[i][m].pc = "stream" => pc = "respond",
             api' = [api EXCEPT ![work[i][m].run][work[i][m].base + 1] = v],
             Goto(i, m, pc), UNCHANGED <<run, status>>
      PROVE  Exclusive'
  <2> DEFINE r == work[i][m].run  n == work[i][m].base + 1
  <2>1. r \in Runs /\ n \in Iters /\ work[i][m].base \in Nat /\ work[i][m].pc \in Preparing
    BY <1>1, <1>6 DEF Preparing
  <2>2. /\ work'[i][m].pc = pc /\ work'[i][m].run = r /\ work'[i][m].base = work[i][m].base
        /\ work'[i][m].queue = work[i][m].queue
        /\ \A j \in Instances, k \in Modes : j # i \/ k # m => work'[j][k] = work[j][k]
    BY <1>0, <1>6, GotoTypes, Names
  <2>3. \A q \in Runs, k \in Iters : q # r \/ k # n => api'[q][k] = api[q][k]
    BY <1>0, <1>6, <2>1
  <2>4. HeldBehind'
    BY <1>6, <2>1, <2>2, PCs DEF HeldBehind
  <2>5. CreatedBefore'
    BY <1>6, <2>1, <2>2 DEF CreatedBefore
  <2>6. NotMoved'
    BY <1>6, <2>1, <2>2 DEF NotMoved, Preparing
  <2>7. Alone'
    BY <2>1, <2>2 DEF Alone
  <2>8. AskedOnce'
    <3>1. ASSUME NEW j \in Instances, NEW k \in Modes, work'[j][k].pc \in Asking
          PROVE  api'[work'[j][k].run][work'[j][k].base + 1] = "none"
      <4>1. j # i \/ k # m
        BY <1>6, <2>2, <3>1 DEF Asking
      <4>2. work'[j][k] = work[j][k] /\ work[j][k].pc \in Preparing /\ work[j][k].pc # "idle"
        BY <2>2, <3>1, <4>1, PCs
      <4>3. ~(work[j][k].run = r /\ work[j][k].base = work[i][m].base)
        BY <2>1, <4>1, <4>2 DEF Alone
      <4>4. ~(work[j][k].run = r /\ work[j][k].base + 1 = n)
        BY <1>1, <2>1, <4>2, <4>3
      <4>5. api[work[j][k].run][work[j][k].base + 1] = "none"
        BY <3>1, <4>2 DEF AskedOnce, Asking
      <4> QED
        BY <1>1, <2>3, <4>2, <4>4, <4>5
    <3> QED
      BY <3>1 DEF AskedOnce, Asking
  <2>9. Unsent'
    BY <1>6, <2>1, <2>3 DEF Unsent, CreatedBefore
  <2> QED
    BY <1>6, <2>4, <2>5, <2>6, <2>7, <2>8, <2>9 DEF IterationsContiguous
<1>7. ASSUME NEW i \in Instances, NEW m \in Modes, SubmitBatch(i, m) PROVE Exclusive'
  BY <1>6, <1>7, Names DEF SubmitBatch, At
<1>8. ASSUME NEW i \in Instances, NEW m \in Modes, StreamReply(i, m) PROVE Exclusive'
  <2>1. PICK v \in {"text", "tools"} : api' = [api EXCEPT ![work[i][m].run][work[i][m].base + 1] = v]
    BY <1>8 DEF StreamReply
  <2> QED
    BY <1>6, <1>8, <2>1, Names DEF StreamReply, At
\* current_iteration moves by one, and only its iteration's worker moves it.
<1>9. ASSUME NEW i \in Instances, NEW m \in Modes, work[i][m].pc \in {"advance", "begin"},
             \A q \in Runs : run'[q].cur = IF q = work[i][m].run THEN work[i][m].base + 1 ELSE run[q].cur,
             WorkOnward, work'[i][m].pc \in {"idle", "stream"}, UNCHANGED <<status, api>>
      PROVE  Exclusive'
  <2> DEFINE r == work[i][m].run  n == work[i][m].base + 1
  <2>1. r \in Runs /\ n \in Iters /\ work[i][m].base \in Nat /\ work[i][m].pc \in Preparing
    BY <1>1, <1>9 DEF Preparing
  <2>2. run[r].cur = work[i][m].base /\ run'[r].cur = run[r].cur + 1
    BY <1>9, <2>1 DEF NotMoved, Preparing
  <2>3. \A q \in Runs : run[q].cur <= run'[q].cur /\ run'[q].cur \in Nat
    BY <1>2, <1>9, <2>1, <2>2
  <2>4. HeldBehind'
    <3>1. ASSUME NEW j \in Instances, NEW k \in Modes, work'[j][k].pc # "idle"
          PROVE  work'[j][k].base <= run'[work'[j][k].run].cur
      <4>1. work[j][k].pc # "idle" /\ work'[j][k].run = work[j][k].run /\ work'[j][k].base = work[j][k].base
        BY <1>9, <3>1 DEF WorkOnward, Onward
      <4>2. work[j][k].base <= run[work[j][k].run].cur
        BY <4>1 DEF HeldBehind
      <4> QED
        BY <1>1, <1>2, <2>3, <4>1, <4>2
    <3>2. ASSUME NEW j \in Instances, NEW k \in Modes, NEW t \in work'[j][k].queue
          PROVE  t.base <= run'[t.run].cur
      <4>1. t \in work[j][k].queue
        BY <1>9 DEF WorkOnward, Onward
      <4>2. t.base <= run[t.run].cur /\ t.run \in Runs /\ t.base \in Nat
        BY <1>0, <1>1, <4>1, BoundsAssumption DEF HeldBehind, Worker, Task
      <4> QED
        BY <1>2, <2>3, <4>2
    <3> QED
      BY <3>1, <3>2 DEF HeldBehind
  <2>5. ASSUME NEW j \in Instances, NEW k \in Modes, work'[j][k].pc \in Preparing
        PROVE  /\ work[j][k].pc \in Preparing /\ work[j][k].pc # "idle"
               /\ work'[j][k].run = work[j][k].run /\ work'[j][k].base = work[j][k].base
               /\ work'[j][k].pc \in Unmoved => work[j][k].pc \in Unmoved
               /\ work'[j][k].pc \in Asking => work[j][k].pc \in Asking
    BY <1>9, <2>5, PCs DEF WorkOnward, Onward
  <2>6. CreatedBefore'
    BY <1>9, <2>5 DEF CreatedBefore
  <2>7. NotMoved'
    <3>1. ASSUME NEW j \in Instances, NEW k \in Modes, work'[j][k].pc \in Unmoved
          PROVE  run'[work'[j][k].run].cur = work'[j][k].base
      <4>1. j # i \/ k # m
        BY <1>9, <3>1, PCs
      <4>2. /\ work[j][k].pc \in Unmoved /\ work[j][k].pc \in Preparing /\ work[j][k].pc # "idle"
            /\ work'[j][k].run = work[j][k].run /\ work'[j][k].base = work[j][k].base
        BY <2>5, <3>1, PCs DEF Unmoved
      <4>3. run[work[j][k].run].cur = work[j][k].base
        BY <4>2 DEF NotMoved, Unmoved
      <4>4. work[j][k].run # r
        BY <2>1, <2>2, <4>1, <4>2, <4>3 DEF Alone
      <4> QED
        BY <1>1, <1>9, <4>2, <4>3, <4>4
    <3> QED
      BY <3>1 DEF NotMoved, Unmoved
  <2>8. Alone'
    BY <2>5 DEF Alone
  <2>9. AskedOnce'
    <3>1. ASSUME NEW j \in Instances, NEW k \in Modes, work'[j][k].pc \in Asking
          PROVE  api'[work'[j][k].run][work'[j][k].base + 1] = "none"
      <4>1. work'[j][k].pc \in Preparing
        BY <3>1, PCs
      <4>2. api[work[j][k].run][work[j][k].base + 1] = "none"
        BY <2>5, <3>1, <4>1 DEF AskedOnce, Asking
      <4> QED
        BY <1>9, <2>5, <4>1, <4>2
    <3> QED
      BY <3>1 DEF AskedOnce, Asking
  <2>10. IterationsContiguous'
    <3>1. status[r][n] # "absent"
      BY <2>1 DEF CreatedBefore
    <3>2. ASSUME NEW q \in Runs, NEW k \in Iters
          PROVE  /\ k <= run'[q].cur => status'[q][k] # "absent"
                 /\ k > run'[q].cur + 1 => status'[q][k] = "absent"
      <4>1. k \in Nat
        BY BoundsAssumption DEF Iters
      <4>2. CASE q # r
        BY <1>9, <4>2 DEF IterationsContiguous
      <4>3. CASE q = r
        <5>1. k <= run'[q].cur => k <= run[r].cur \/ k = n
          BY <2>1, <2>2, <4>1, <4>3
        <5>2. k > run'[q].cur + 1 => k > run[r].cur + 1
          BY <2>1, <2>2, <4>1, <4>3
        <5> QED
          BY <1>9, <3>1, <4>3, <5>1, <5>2 DEF IterationsContiguous
      <4> QED
        BY <4>2, <4>3
    <3> QED
      BY <3>2 DEF IterationsContiguous
  <2>11. Unsent'
    BY <1>9 DEF Unsent
  <2> QED
    BY <2>4, <2>6, <2>7, <2>8, <2>9, <2>10, <2>11
<1>10. ASSUME NEW i \in Instances, NEW m \in Modes, AdvanceRun(i, m) PROVE Exclusive'
  <2> DEFINE r == work[i][m].run  n == work[i][m].base + 1
  <2>1. r \in Runs /\ n \in 0 .. MaxIter /\ work[i][m].pc = "advance"
    BY <1>10, WorkerTask DEF AdvanceRun, At
  <2>2. CASE Consistent(AdvancedRow(r, n))
    <3>1. run' = [run EXCEPT ![r] = AdvancedRow(r, n)] /\ Next1(i, m)
      BY <1>10, <2>2 DEF AdvanceRun, Write
    <3>2. AdvancedRow(r, n).cur = n
      BY <1>0, <2>1 DEF AdvancedRow, Row
    <3>3. \A q \in Runs : run'[q].cur = IF q = r THEN n ELSE run[q].cur
      BY <1>0, <2>1, <3>1, <3>2
    <3>4. WorkOnward /\ work'[i][m].pc = "idle"
      BY <1>0, <3>1, Next1Onward, Next1Types
    <3>5. UNCHANGED <<status, api>>
      BY <1>10 DEF AdvanceRun
    <3> QED
      BY <1>9, <2>1, <3>3, <3>4, <3>5
  <2>3. CASE ~Consistent(AdvancedRow(r, n))
    <3>1. UNCHANGED <<run, status, api>> /\ Goto(i, m, "fail")
      BY <1>10, <2>3 DEF AdvanceRun, Write
    <3>2. WorkOnward
      BY <2>1, <3>1, GotoOnward, PCs, Names
    <3>3. CurKept /\ SameAbsent /\ SameNone
      BY <3>1 DEF CurKept, SameAbsent, SameNone
    <3> QED
      BY <3>2, <3>3, OnwardKeeps
  <2> QED
    BY <2>2, <2>3
<1>11. ASSUME NEW i \in Instances, NEW m \in Modes, BeginStream(i, m) PROVE Exclusive'
  <2> DEFINE r == work[i][m].run  n == work[i][m].base + 1
  <2>1. r \in Runs /\ n \in 0 .. MaxIter /\ work[i][m].pc = "begin"
    BY <1>11, WorkerTask DEF BeginStream, At
  <2>2. \A q \in Runs : run'[q].cur = IF q = r THEN n ELSE run[q].cur
    BY <1>0, <1>11, <2>1 DEF BeginStream, Row
  <2>3. WorkOnward
    BY <1>11, <2>1, GotoOnward, Names DEF BeginStream, Preparing, Unmoved, Asking
  <2>4. work'[i][m].pc = "stream" /\ UNCHANGED <<status, api>>
    BY <1>0, <1>11, GotoTypes, Names DEF BeginStream
  <2> QED
    BY <1>9, <2>1, <2>2, <2>3, <2>4
<1> QED
  BY <1>3, <1>4, <1>5, <1>7, <1>8, <1>10, <1>11, OnwardSteps, OnwardKeeps


-----------------------------------------------------------------------------
(* What a process holds stays valid *)

Answers == {"tools", "text"}

AnswersKept == \A r \in Runs, n \in Iters : api[r][n] \in Replies => api'[r][n] = api[r][n]
CreatedKept == \A r \in Runs, n \in Iters : status[r][n] # "absent" => status'[r][n] # "absent"

\* An answer is not overwritten: who calls the API is the first to do so.
LEMMA AnswersStep ==
    ASSUME Types, Assigned, Exclusive, Next
    PROVE  AnswersKept
<1>1. ASSUME NEW r \in Runs, NEW n \in Iters, NEW v, api' = [api EXCEPT ![r][n] = v],
             api[r][n] \notin Replies
      PROVE  AnswersKept
  BY <1>1 DEF AnswersKept, Types
<1>2. UNCHANGED api => AnswersKept
  BY DEF AnswersKept
<1>3. ASSUME NEW i \in Instances, NEW m \in Modes, work[i][m].pc \in Asking
      PROVE  /\ work[i][m].run \in Runs /\ work[i][m].base + 1 \in Iters
             /\ api[work[i][m].run][work[i][m].base + 1] \notin Replies
  BY <1>3, WorkerTask, PCs DEF Exclusive, AskedOnce, Asking, Replies
<1>4. ASSUME NEW i \in Instances, NEW m \in Modes, SubmitBatch(i, m) PROVE AnswersKept
  BY <1>1, <1>3, <1>4 DEF SubmitBatch, At, Asking
<1>5. ASSUME NEW i \in Instances, NEW m \in Modes, StreamReply(i, m) PROVE AnswersKept
  <2>1. PICK v \in {"text", "tools"} : api' = [api EXCEPT ![work[i][m].run][work[i][m].base + 1] = v]
    BY <1>5 DEF StreamReply
  <2> QED
    BY <1>1, <1>3, <1>5, <2>1 DEF StreamReply, At, Asking
<1>6. ASSUME NEW r \in Runs, NEW n \in Iters, EndBatch(r, n) PROVE AnswersKept
  <2>1. PICK v \in BatchReplies(n) : api' = [api EXCEPT ![r][n] = v]
    BY <1>6 DEF EndBatch
  <2> QED
    BY <1>1, <1>6, <2>1 DEF EndBatch, Replies
<1>7. ASSUME NEW r \in Runs, NEW n \in Iters, CancelBatch(r, n) PROVE AnswersKept
  BY <1>1, <1>7 DEF CancelBatch, Replies
<1>8. ASSUME NEW r \in Runs, CreateRun(r) \/ Noted(r) \/ AgeClaim(r)
      PROVE  UNCHANGED api
  BY <1>8, NotedMoves DEF CreateRun, AgeClaim
<1>9. ASSUME NEW i \in Instances, NEW m \in Modes, Claim(i, m) \/ WorkerStep(i, m) \/ WorkerError(i, m)
      PROVE  UNCHANGED api \/ SubmitBatch(i, m) \/ StreamReply(i, m)
  BY <1>9 DEF Claim, WorkerStep, WorkerError, Take, CreatePrompt, CreateIteration, FailRun,
              RecordBatch, AdvanceRun, BeginStream, StreamRespond, StreamSettle
<1>10. ASSUME NEW i \in Instances, PollerStep(i) \/ PollError(i) PROVE UNCHANGED api
  BY <1>10 DEF PollerStep, PollError, ListIterations, GetBatch, ReadRun, MarkProcessing,
               MarkCanceling, MarkEnded, FetchResult, PollRespond, PollSettle, PollFail
<1>11. ASSUME NEW i \in Instances, ScanStuck(i) \/ RescueRun(i) \/ Crash(i) \/ DeleteInstance(i) \/ Restart(i)
       PROVE  UNCHANGED api
  BY <1>11 DEF ScanStuck, RescueRun, Crash, DeleteInstance, Restart
<1>12. ASSUME NEW r \in Runs, NEW n \in Iters, FinishTools(r, n) PROVE UNCHANGED api
  BY <1>12 DEF FinishTools
<1> QED
  BY <1>2, <1>4, <1>5, <1>6, <1>7, <1>8, <1>9, <1>10, <1>11, <1>12 DEF Next, Noted

\* The row of an iteration is not deleted.
LEMMA CreatedStep ==
    ASSUME Types, Assigned, Next
    PROVE  CreatedKept
<1>1. ASSUME NEW r \in Runs, NEW n \in Iters, NEW v, status' = [status EXCEPT ![r][n] = v],
             v # "absent"
      PROVE  CreatedKept
  BY <1>1 DEF CreatedKept, Types
<1>2. UNCHANGED status => CreatedKept
  BY DEF CreatedKept
<1>3. ASSUME NEW i \in Instances, NEW m \in Modes, CreateIteration(i, m) PROVE CreatedKept
  BY <1>1, <1>2, <1>3, WorkerTask DEF CreateIteration, At
<1>4. ASSUME NEW i \in Instances, NEW m \in Modes, RecordBatch(i, m) PROVE CreatedKept
  BY <1>1, <1>4, WorkerTask DEF RecordBatch, At
<1>5. ASSUME NEW i \in Instances, MarkCanceling(i) PROVE CreatedKept
  BY <1>1, <1>5, PollerTask DEF MarkCanceling, Polls
<1>6. ASSUME NEW i \in Instances, MarkEnded(i) PROVE CreatedKept
  BY <1>1, <1>6, PollerTask DEF MarkEnded, Polls
<1>7. ASSUME NEW r \in Runs, CreateRun(r) \/ Noted(r) \/ AgeClaim(r)
      PROVE  UNCHANGED status
  BY <1>7, NotedMoves DEF CreateRun, AgeClaim
<1>8. ASSUME NEW r \in Runs, NEW n \in Iters, EndBatch(r, n) \/ CancelBatch(r, n) \/ FinishTools(r, n)
      PROVE  UNCHANGED status
  BY <1>8 DEF EndBatch, CancelBatch, FinishTools
<1>9. ASSUME NEW i \in Instances, NEW m \in Modes, Claim(i, m) \/ WorkerStep(i, m) \/ WorkerError(i, m)
      PROVE  UNCHANGED status \/ CreateIteration(i, m) \/ RecordBatch(i, m)
  BY <1>9 DEF Claim, WorkerStep, WorkerError, Take, CreatePrompt, FailRun,
              SubmitBatch, AdvanceRun, BeginStream, StreamReply, StreamRespond, StreamSettle
<1>10. ASSUME NEW i \in Instances, PollerStep(i) \/ PollError(i)
       PROVE  UNCHANGED status \/ MarkCanceling(i) \/ MarkEnded(i)
  BY <1>10 DEF PollerStep, PollError, ListIterations, GetBatch, ReadRun, MarkProcessing,
               FetchResult, PollRespond, PollSettle, PollFail
<1>11. ASSUME NEW i \in Instances, ScanStuck(i) \/ RescueRun(i) \/ Crash(i) \/ DeleteInstance(i) \/ Restart(i)
       PROVE  UNCHANGED status
  BY <1>11 DEF ScanStuck, RescueRun, Crash, DeleteInstance, Restart
<1> QED
  BY <1>2, <1>3, <1>4, <1>5, <1>6, <1>7, <1>8, <1>9, <1>10, <1>11 DEF Next, Noted

\* WorkersAssigned for one worker, PollersAssigned for one poller.
WorkerFits(w, a) ==
    /\ w.pc # "idle" => w.run \in Runs /\ w.base < MaxIter
    /\ \A t \in w.queue : t.base < MaxIter
    /\ w.pc \in {"respond", "settle"} => a[w.run][w.base + 1] \in Answers

PollerFits(p, st, a) ==
    /\ p.pc # "idle" => p.run \in Runs /\ p.iter \in Iters /\ st[p.run][p.iter] # "absent"
    /\ \A x \in p.list : st[x[1]][x[2]] # "absent"
    /\ p.pc \in {"respond", "settle"} => a[p.run][p.iter] \in Answers

\* WorkersAssigned and PollersAssigned, one process at a time.
LEMMA Fits ==
    /\ WorkersAssigned <=> \A i \in Instances, m \in Modes : WorkerFits(work[i][m], api)
    /\ PollersAssigned <=> \A i \in Instances : PollerFits(poll[i], status, api)
    /\ WorkersAssigned' <=> \A i \in Instances, m \in Modes : WorkerFits(work'[i][m], api')
    /\ PollersAssigned' <=> \A i \in Instances : PollerFits(poll'[i], status', api')
  BY DEF WorkersAssigned, PollersAssigned, WorkerFits, PollerFits, Answers

\* Whoever does not act still fits.
LEMMA StillFits ==
    ASSUME Types, Assigned, AnswersKept, CreatedKept
    PROVE  /\ \A i \in Instances, m \in Modes : WorkerFits(work[i][m], api')
           /\ \A i \in Instances : PollerFits(poll[i], status', api')
<1>1. ASSUME NEW i \in Instances, NEW m \in Modes PROVE WorkerFits(work[i][m], api')
  <2>1. WorkerFits(work[i][m], api)
    BY Fits DEF Assigned
  <2>2. ASSUME work[i][m].pc \in {"respond", "settle"}
        PROVE  api'[work[i][m].run][work[i][m].base + 1] \in Answers
    BY <2>1, <2>2, WorkerTask DEF WorkerFits, AnswersKept, Answers, Replies
  <2> QED
    BY <2>1, <2>2 DEF WorkerFits
<1>2. ASSUME NEW i \in Instances PROVE PollerFits(poll[i], status', api')
  <2>1. PollerFits(poll[i], status, api)
    BY Fits DEF Assigned
  <2>2. \A x \in poll[i].list : x[1] \in Runs /\ x[2] \in Iters
    BY DEF Types, Poller
  <2>3. \A x \in poll[i].list : status'[x[1]][x[2]] # "absent"
    BY <2>1, <2>2 DEF PollerFits, CreatedKept
  <2>4. poll[i].pc # "idle" => status'[poll[i].run][poll[i].iter] # "absent"
    BY <2>1 DEF PollerFits, CreatedKept
  <2>5. poll[i].pc \in {"respond", "settle"} => api'[poll[i].run][poll[i].iter] \in Answers
    BY <2>1 DEF PollerFits, AnswersKept, Answers, Replies
  <2> QED
    BY <2>1, <2>3, <2>4, <2>5 DEF PollerFits
<1> QED
  BY <1>1, <1>2

\* A worker at work has a run, an iteration and, where it uses one, an answer, after every step.
LEMMA WorkersStep ==
    ASSUME Types, Assigned, Exclusive, Next, AnswersKept, CreatedKept
    PROVE  WorkersAssigned'
<1>0. work \in [Instances -> [Modes -> Worker]]
  BY DEF Types
<1>1. \A i \in Instances, m \in Modes : WorkerFits(work[i][m], api')
  BY StillFits
<1>2. ASSUME UNCHANGED work PROVE WorkersAssigned'
  BY <1>1, <1>2, Fits
<1>3. ASSUME NEW i \in Instances, NEW m \in Modes,
             \A j \in Instances, k \in Modes : j # i \/ k # m => work'[j][k] = work[j][k],
             WorkerFits(work'[i][m], api')
      PROVE  WorkersAssigned'
  BY <1>1, <1>3, Fits
<1>4. ASSUME NEW i \in Instances, NEW m \in Modes, NEW pc \in WorkerPCs, Goto(i, m, pc),
             work[i][m].pc # "idle",
             pc \in {"respond", "settle"} => api'[work[i][m].run][work[i][m].base + 1] \in Answers
      PROVE  WorkersAssigned'
  <2>1. /\ work'[i][m].pc = pc /\ work'[i][m].run = work[i][m].run
        /\ work'[i][m].base = work[i][m].base /\ work'[i][m].queue = work[i][m].queue
        /\ \A j \in Instances, k \in Modes : j # i \/ k # m => work'[j][k] = work[j][k]
    BY <1>0, <1>4, GotoTypes
  <2>2. WorkerFits(work[i][m], api')
    BY <1>1
  <2>3. WorkerFits(work'[i][m], api')
    BY <1>4, <2>1, <2>2 DEF WorkerFits
  <2> QED
    BY <1>3, <2>1, <2>3
<1>5. ASSUME NEW i \in Instances, NEW m \in Modes, Next1(i, m) PROVE WorkersAssigned'
  <2>1. /\ work'[i][m].pc = "idle" /\ work'[i][m].queue = work[i][m].queue
        /\ \A j \in Instances, k \in Modes : j # i \/ k # m => work'[j][k] = work[j][k]
    BY <1>0, <1>5, Next1Types
  <2>2. WorkerFits(work[i][m], api')
    BY <1>1
  <2>3. WorkerFits(work'[i][m], api')
    BY <2>1, <2>2 DEF WorkerFits
  <2> QED
    BY <1>3, <2>1, <2>3
<1>6. ASSUME NEW i \in Instances, NEW m \in Modes, Claim(i, m) PROVE WorkersAssigned'
  <2>1. PICK S \in (SUBSET Claimable(i, m)) \ {{}} :
          work' = [work EXCEPT ![i][m].queue = {[run |-> r, base |-> run[r].cur] : r \in S}]
    BY <1>6 DEF Claim
  <2> DEFINE q == {[run |-> r, base |-> run[r].cur] : r \in S}
  <2>2. \A t \in q : t.base < MaxIter
    <3>1. ASSUME NEW r \in S PROVE run[r].cur < MaxIter
      BY <2>1 DEF Claimable
    <3> QED
      BY <3>1
  <2>3. work' = [work EXCEPT ![i][m] = [work[i][m] EXCEPT !.queue = q]]
    BY <2>1
  <2> HIDE DEF q
  <2>4. work'[i][m] = [work[i][m] EXCEPT !.queue = q]
    BY <1>0, <2>3
  <2>5. /\ work'[i][m].pc = work[i][m].pc /\ work'[i][m].run = work[i][m].run
        /\ work'[i][m].base = work[i][m].base /\ work'[i][m].queue = q
    BY <1>0, <2>4 DEF Worker
  <2>6. \A j \in Instances, k \in Modes : j # i \/ k # m => work'[j][k] = work[j][k]
    BY <1>0, <2>3
  <2>7. WorkerFits(work[i][m], api')
    BY <1>1
  <2>8. WorkerFits(work'[i][m], api')
    BY <2>2, <2>5, <2>7 DEF WorkerFits
  <2> QED
    BY <1>3, <2>6, <2>8
<1>7. ASSUME NEW i \in Instances, NEW m \in Modes, Take(i, m) PROVE WorkersAssigned'
  <2>1. PICK t \in work[i][m].queue :
          work' = [work EXCEPT ![i][m] =
                     [pc |-> IF t.base = 0 THEN "prompt" ELSE "iterate",
                      run |-> t.run, base |-> t.base, queue |-> work[i][m].queue \ {t}]]
    BY <1>7 DEF Take
  <2>2. /\ work'[i][m].pc \in {"prompt", "iterate"}
        /\ work'[i][m].run = t.run /\ work'[i][m].base = t.base
        /\ work'[i][m].queue \subseteq work[i][m].queue
        /\ \A j \in Instances, k \in Modes : j # i \/ k # m => work'[j][k] = work[j][k]
    BY <1>0, <2>1
  <2>3. t.run \in Runs
    BY <1>0 DEF Worker, Task
  <2>4. WorkerFits(work[i][m], api')
    BY <1>1
  <2>5. WorkerFits(work'[i][m], api')
    BY <2>2, <2>3, <2>4 DEF WorkerFits
  <2> QED
    BY <1>3, <2>2, <2>5
<1>8. ASSUME NEW i \in Instances, NEW m \in Modes, StreamReply(i, m) PROVE WorkersAssigned'
  <2>1. PICK v \in Answers : api' = [api EXCEPT ![work[i][m].run][work[i][m].base + 1] = v]
    BY <1>8 DEF StreamReply, Answers
  <2>2. work[i][m].run \in Runs /\ work[i][m].base + 1 \in Iters
    BY <1>8, WorkerTask DEF StreamReply, At
  <2>3. api'[work[i][m].run][work[i][m].base + 1] \in Answers
    BY <2>1, <2>2 DEF Types
  <2> QED
    BY <1>4, <1>8, <2>3, Names DEF StreamReply, At
<1>9. ASSUME NEW i \in Instances, NEW m \in Modes, StreamRespond(i, m) PROVE WorkersAssigned'
  <2>1. api'[work[i][m].run][work[i][m].base + 1] \in Answers
    BY <1>1, <1>9 DEF WorkerFits, StreamRespond, At
  <2> QED
    BY <1>4, <1>9, <2>1, Names DEF StreamRespond, At
<1>10. ASSUME NEW i \in Instances, NEW m \in Modes,
              NEW pc \in WorkerPCs \ {"respond", "settle"}, Goto(i, m, pc), work[i][m].pc # "idle"
       PROVE  WorkersAssigned'
  BY <1>4, <1>10
<1>11. ASSUME NEW i \in Instances, NEW m \in Modes, WorkerStep(i, m) \/ WorkerError(i, m)
       PROVE  WorkersAssigned'
  <2>1. {"iterate", "submit", "record", "advance", "begin", "stream", "fail"}
          \subseteq WorkerPCs \ {"respond", "settle"}
    BY Names
  <2>2. CASE WorkerError(i, m)
    BY <1>5, <1>10, <2>1, <2>2 DEF WorkerError
  <2>3. CASE WorkerStep(i, m)
    <3>1. CASE CreatePrompt(i, m)
      BY <1>10, <2>1, <3>1 DEF CreatePrompt, At
    <3>2. CASE CreateIteration(i, m)
      <4>1. PICK pc \in {"fail", "submit", "begin"} : Goto(i, m, pc)
        BY <3>2 DEF CreateIteration
      <4> QED
        BY <1>10, <2>1, <3>2, <4>1 DEF CreateIteration, At
    <3>3. CASE FailRun(i, m)
      BY <1>5, <3>3 DEF FailRun
    <3>4. CASE SubmitBatch(i, m)
      BY <1>10, <2>1, <3>4 DEF SubmitBatch, At
    <3>5. CASE RecordBatch(i, m)
      BY <1>10, <2>1, <3>5 DEF RecordBatch, At
    <3>6. CASE AdvanceRun(i, m)
      BY <1>5, <1>10, <2>1, <3>6 DEF AdvanceRun, At
    <3>7. CASE BeginStream(i, m)
      BY <1>10, <2>1, <3>7 DEF BeginStream, At
    <3>8. CASE StreamSettle(i, m)
      BY <1>5, <1>10, <2>1, <3>8 DEF StreamSettle, At
    <3> QED
      BY <1>7, <1>8, <1>9, <2>3, <3>1, <3>2, <3>3, <3>4, <3>5, <3>6, <3>7, <3>8 DEF WorkerStep
  <2> QED
    BY <1>11, <2>2, <2>3
<1>12. ASSUME NEW i \in Instances, Crash(i) PROVE WorkersAssigned'
  <2>1. \A j \in Instances, k \in Modes : work'[j][k] = IF j = i THEN Rest ELSE work[j][k]
    BY <1>0, <1>12 DEF Crash
  <2>2. WorkerFits(Rest, api')
    BY DEF WorkerFits, Rest
  <2> QED
    BY <1>1, <2>1, <2>2, Fits
<1>13. ASSUME NEW r \in Runs, CreateRun(r) \/ Noted(r) \/ AgeClaim(r)
       PROVE  UNCHANGED work
  BY <1>13, NotedMoves DEF CreateRun, AgeClaim
<1>14. ASSUME NEW r \in Runs, NEW n \in Iters, EndBatch(r, n) \/ CancelBatch(r, n) \/ FinishTools(r, n)
       PROVE  UNCHANGED work
  BY <1>14 DEF EndBatch, CancelBatch, FinishTools
<1>15. ASSUME NEW i \in Instances, PollerStep(i) \/ PollError(i) PROVE UNCHANGED work
  BY <1>15 DEF PollerStep, PollError, ListIterations, GetBatch, ReadRun, MarkProcessing,
               MarkCanceling, MarkEnded, FetchResult, PollRespond, PollSettle, PollFail
<1>16. ASSUME NEW i \in Instances, ScanStuck(i) \/ RescueRun(i) \/ DeleteInstance(i) \/ Restart(i)
       PROVE  UNCHANGED work
  BY <1>16 DEF ScanStuck, RescueRun, DeleteInstance, Restart
<1> QED
  BY <1>2, <1>6, <1>11, <1>12, <1>13, <1>14, <1>15, <1>16 DEF Next, Noted

\* So has a poller, and its iteration's row exists.
LEMMA PollersStep ==
    ASSUME Types, Assigned, Exclusive, Next, AnswersKept, CreatedKept
    PROVE  PollersAssigned'
<1>0. poll \in [Instances -> Poller]
  BY DEF Types
<1>1. \A i \in Instances : PollerFits(poll[i], status', api')
  BY StillFits
<1>2. ASSUME UNCHANGED poll PROVE PollersAssigned'
  BY <1>1, <1>2, Fits
<1>3. ASSUME NEW i \in Instances,
             \A j \in Instances : j # i => poll'[j] = poll[j],
             PollerFits(poll'[i], status', api')
      PROVE  PollersAssigned'
  BY <1>1, <1>3, Fits
<1>4. ASSUME NEW i \in Instances, NEW pc \in PollerPCs, PollGoto(i, pc),
             poll[i].pc # "idle",
             pc \in {"respond", "settle"} => api'[poll[i].run][poll[i].iter] \in Answers
      PROVE  PollersAssigned'
  <2>1. /\ poll'[i] = [poll[i] EXCEPT !.pc = pc]
        /\ \A j \in Instances : j # i => poll'[j] = poll[j]
    BY <1>0, <1>4 DEF PollGoto
  <2>2. /\ poll'[i].pc = pc /\ poll'[i].run = poll[i].run
        /\ poll'[i].iter = poll[i].iter /\ poll'[i].list = poll[i].list
    BY <1>0, <2>1 DEF Poller
  <2>3. PollerFits(poll[i], status', api')
    BY <1>1
  <2>4. PollerFits(poll'[i], status', api')
    BY <1>4, <2>2, <2>3 DEF PollerFits
  <2> QED
    BY <1>3, <2>1, <2>4
<1>5. ASSUME NEW i \in Instances, PollNext(i) PROVE PollersAssigned'
  <2>1. /\ poll'[i] = [poll[i] EXCEPT !.pc = "idle", !.run = None, !.iter = 0]
        /\ \A j \in Instances : j # i => poll'[j] = poll[j]
    BY <1>0, <1>5 DEF PollNext
  <2>2. poll'[i].pc = "idle" /\ poll'[i].list = poll[i].list
    BY <1>0, <2>1 DEF Poller
  <2>3. PollerFits(poll[i], status', api')
    BY <1>1
  <2>4. PollerFits(poll'[i], status', api')
    BY <2>2, <2>3 DEF PollerFits
  <2> QED
    BY <1>3, <2>1, <2>4
<1>6. ASSUME NEW i \in Instances, ListIterations(i) PROVE PollersAssigned'
  <2>1. /\ poll'[i] = [poll[i] EXCEPT !.list = Pollable(i)]
        /\ \A j \in Instances : j # i => poll'[j] = poll[j]
        /\ status' = status /\ poll[i].pc = "idle"
    BY <1>0, <1>6 DEF ListIterations, Polls
  <2>2. poll'[i].pc = "idle" /\ poll'[i].list = Pollable(i)
    BY <1>0, <2>1 DEF Poller
  <2>3. \A x \in Pollable(i) : status'[x[1]][x[2]] # "absent"
    BY <2>1 DEF Pollable
  <2>4. PollerFits(poll'[i], status', api')
    BY <2>2, <2>3 DEF PollerFits
  <2> QED
    BY <1>3, <2>1, <2>4
<1>7. ASSUME NEW i \in Instances, GetBatch(i) PROVE PollersAssigned'
  <2>1. PICK p \in poll[i].list : poll' = [poll EXCEPT ![i] =
                   [pc |-> CASE api[p[1]][p[2]] = "running"   -> "seen"
                             [] api[p[1]][p[2]] = "canceling" -> "cancel"
                             [] OTHER                         -> "ended",
                    run |-> p[1], iter |-> p[2], list |-> poll[i].list \ {p}]]
    BY <1>7 DEF GetBatch
  <2>2. /\ poll'[i].pc \in {"seen", "cancel", "ended"}
        /\ poll'[i].run = p[1] /\ poll'[i].iter = p[2] /\ poll'[i].list \subseteq poll[i].list
        /\ \A j \in Instances : j # i => poll'[j] = poll[j]
    BY <1>0, <2>1
  <2>3. p[1] \in Runs /\ p[2] \in Iters
    BY <1>0 DEF Poller
  <2>4. PollerFits(poll[i], status', api')
    BY <1>1
  <2>5. PollerFits(poll'[i], status', api')
    BY <2>2, <2>3, <2>4 DEF PollerFits
  <2> QED
    BY <1>3, <2>2, <2>5
<1>8. ASSUME NEW i \in Instances, FetchResult(i) PROVE PollersAssigned'
  <2>1. api' = api /\ poll[i].pc = "fetch"
    BY <1>8 DEF FetchResult, Polls
  <2>2. CASE api[poll[i].run][poll[i].iter] \in {"tools", "text"}
    BY <1>4, <1>8, <2>1, <2>2, Names DEF FetchResult, Answers
  <2>3. CASE api[poll[i].run][poll[i].iter] \notin {"tools", "text"}
    BY <1>4, <1>5, <1>8, <2>1, <2>3, Names DEF FetchResult
  <2> QED
    BY <2>2, <2>3
<1>9. ASSUME NEW i \in Instances, PollRespond(i) PROVE PollersAssigned'
  <2>1. api'[poll[i].run][poll[i].iter] \in Answers
    BY <1>1, <1>9 DEF PollerFits, PollRespond, Polls
  <2> QED
    BY <1>4, <1>9, <2>1, Names DEF PollRespond, Polls
<1>10. ASSUME NEW i \in Instances, PollerStep(i) \/ PollError(i) PROVE PollersAssigned'
  <2>1. CASE PollError(i)
    BY <1>4, <1>5, <2>1, Names DEF PollError
  <2>2. CASE ReadRun(i)
    BY <1>4, <1>5, <2>2, Names DEF ReadRun, Polls
  <2>3. CASE MarkProcessing(i) \/ MarkCanceling(i) \/ PollSettle(i) \/ PollFail(i)
    BY <1>5, <2>3 DEF MarkProcessing, MarkCanceling, PollSettle, PollFail
  <2>4. CASE MarkEnded(i)
    BY <1>4, <2>4, Names DEF MarkEnded, Polls
  <2> QED
    BY <1>6, <1>7, <1>8, <1>9, <1>10, <2>1, <2>2, <2>3, <2>4 DEF PollerStep
<1>11. ASSUME NEW i \in Instances, Crash(i) PROVE PollersAssigned'
  <2>1. \A j \in Instances : poll'[j] = IF j = i THEN Quiet ELSE poll[j]
    BY <1>0, <1>11 DEF Crash
  <2>2. PollerFits(Quiet, status', api')
    BY DEF PollerFits, Quiet
  <2> QED
    BY <1>1, <2>1, <2>2, Fits
<1>12. ASSUME NEW r \in Runs, CreateRun(r) \/ Noted(r) \/ AgeClaim(r)
       PROVE  UNCHANGED poll
  BY <1>12, NotedMoves DEF CreateRun, AgeClaim
<1>13. ASSUME NEW r \in Runs, NEW n \in Iters, EndBatch(r, n) \/ CancelBatch(r, n) \/ FinishTools(r, n)
       PROVE  UNCHANGED poll
  BY <1>13 DEF EndBatch, CancelBatch, FinishTools
<1>14. ASSUME NEW i \in Instances, NEW m \in Modes, Claim(i, m) \/ WorkerStep(i, m) \/ WorkerError(i, m)
       PROVE  UNCHANGED poll
  BY <1>14 DEF Claim, WorkerStep, WorkerError, Take, CreatePrompt, CreateIteration, SubmitBatch,
               RecordBatch, AdvanceRun, BeginStream, StreamReply, StreamRespond, StreamSettle, FailRun
<1>15. ASSUME NEW i \in Instances, ScanStuck(i) \/ RescueRun(i) \/ DeleteInstance(i) \/ Restart(i)
       PROVE  UNCHANGED poll
  BY <1>15 DEF ScanStuck, RescueRun, DeleteInstance, Restart
<1> QED
  BY <1>2, <1>10, <1>11, <1>12, <1>13, <1>14, <1>15 DEF Next, Noted

-----------------------------------------------------------------------------
(* current_iteration *)

CurGrows == \A r \in Runs : run'[r].cur >= run[r].cur

\* current_iteration grows in every step: a worker that writes it is alone and one ahead.
LEMMA CurStep ==
    ASSUME Types, Assigned, Exclusive, Next
    PROVE  CurGrows
<1>0. run \in [Runs -> Row] /\ \A r \in Runs : run[r].cur \in Nat
  BY BoundsAssumption DEF Types, Row
<1>1. ASSUME CurKept PROVE CurGrows
  BY <1>0, <1>1 DEF CurKept, CurGrows
<1>2. ASSUME NEW i \in Instances, NEW m \in Modes, Claim(i, m) PROVE CurKept
  <2>1. PICK S \in (SUBSET Claimable(i, m)) \ {{}} :
          run' = [r \in Runs |->
                     IF r \in S
                     THEN [run[r] EXCEPT !.claimed = i, !.aged = FALSE,
                             !.state = IF m = "batch" THEN "batch_submitting" ELSE "streaming"]
                     ELSE run[r]]
    BY <1>2 DEF Claim
  <2> QED
    BY <1>0, <2>1 DEF CurKept, Row
<1>3. ASSUME NEW i \in Instances, NEW m \in Modes,
             Take(i, m) \/ CreateIteration(i, m) \/ SubmitBatch(i, m) \/ StreamReply(i, m)
      PROVE  CurKept
  BY <1>3 DEF Take, CreateIteration, SubmitBatch, StreamReply, CurKept
<1>4. ASSUME NEW i \in Instances, NEW m \in Modes, work[i][m].pc \in {"advance", "begin"}
      PROVE  /\ run[work[i][m].run].cur = work[i][m].base /\ work[i][m].base \in Nat
             /\ work[i][m].base + 1 \in 0 .. MaxIter /\ work[i][m].run \in Runs
  BY <1>4, WorkerTask DEF Exclusive, ExclusivePreparation, NotMoved, Preparing
<1>5. ASSUME NEW i \in Instances, NEW m \in Modes, AdvanceRun(i, m) PROVE CurGrows
  <2> DEFINE r == work[i][m].run  n == work[i][m].base + 1
  <2>1. r \in Runs /\ run[r].cur = work[i][m].base /\ work[i][m].base \in Nat
    BY <1>4, <1>5 DEF AdvanceRun, At
  <2>2. AdvancedRow(r, n).cur = n
    BY <1>0, <2>1 DEF AdvancedRow, Row
  <2>3. \A q \in Runs : run'[q] = run[q] \/ (q = r /\ run'[q] = AdvancedRow(r, n))
    BY <1>0, <1>5 DEF AdvanceRun, Write
  <2> QED
    BY <1>0, <2>1, <2>2, <2>3 DEF CurGrows
<1>6. ASSUME NEW i \in Instances, NEW m \in Modes, BeginStream(i, m) PROVE CurGrows
  <2> DEFINE r == work[i][m].run  n == work[i][m].base + 1
  <2>1. r \in Runs /\ run[r].cur = work[i][m].base /\ work[i][m].base \in Nat
    BY <1>4, <1>6 DEF BeginStream, At
  <2>2. \A q \in Runs : run'[q].cur = IF q = r THEN n ELSE run[q].cur
    BY <1>0, <1>6, <2>1 DEF BeginStream, Row
  <2> QED
    BY <1>0, <2>1, <2>2 DEF CurGrows
<1> QED
  BY <1>1, <1>2, <1>3, <1>5, <1>6, OnwardSteps

-----------------------------------------------------------------------------
(* The inductive invariant *)

IndInv == TypeOK /\ RowsConsistent /\ Exclusive

\* The inductive invariant holds of the empty database.
LEMMA IndInvInit == Init => IndInv
<1> SUFFICES ASSUME Init PROVE IndInv
  OBVIOUS
<1> USE DEF Init
<1>1. Types
  <2>1. [state |-> "absent", final |-> FALSE, claimed |-> None, aged |-> FALSE,
         cur |-> 0, rescues |-> 0] \in Row
    BY Names DEF Row
  <2>2. Rest \in Worker
    BY Names DEF Rest, Worker
  <2>3. Quiet \in Poller
    BY Names DEF Quiet, Poller
  <2>4. run \in [Runs -> Row] /\ work \in [Instances -> [Modes -> Worker]] /\ poll \in [Instances -> Poller]
    BY <2>1, <2>2, <2>3
  <2>5. status \in [Runs -> [Iters -> Statuses]] /\ api \in [Runs -> [Iters -> ApiValues]]
    BY Names
  <2>6. open \in [Runs -> SUBSET Iters] /\ conv \in [Runs -> Seq(Message)]
    OBVIOUS
  <2>7. note \subseteq Runs /\ stuck \in [Instances -> SUBSET [run : Runs, attempts : Nat]]
    OBVIOUS
  <2>8. up \in [Instances -> BOOLEAN] /\ row \in [Instances -> BOOLEAN]
    OBVIOUS
  <2>9. hand \in [Instances -> Hand]
    BY Names DEF Hand, Unused
  <2> QED
    BY <2>4, <2>5, <2>6, <2>7, <2>8, <2>9 DEF Types, ApiValues
<1>2. WorkersAssigned /\ PollersAssigned /\ HandsAssigned
  BY DEF WorkersAssigned, PollersAssigned, HandsAssigned, Rest, Quiet, Unused
<1>3. RowsConsistent
  BY DEF RowsConsistent, Consistent, Terminal
<1>4. HeldBehind /\ CreatedBefore /\ NotMoved /\ Alone
  BY PCs DEF HeldBehind, CreatedBefore, NotMoved, Alone, Rest, Unmoved
<1>5. AskedOnce /\ Unsent
  BY DEF AskedOnce, Unsent, Rest
<1>6. IterationsContiguous
  BY BoundsAssumption DEF IterationsContiguous, Iters
<1> QED
  BY <1>1, <1>2, <1>3, <1>4, <1>5, <1>6 DEF IndInv, TypeOK, Exclusive, ExclusivePreparation

\* The inductive invariant is kept by every step of the system.
LEMMA IndInvStep ==
    ASSUME IndInv, [Next]_vars
    PROVE  IndInv'
<1>1. CASE UNCHANGED vars
  <2>1. TypeOK'
    BY <1>1 DEF IndInv, vars, TypeOK, Types, WorkersAssigned, PollersAssigned, HandsAssigned
  <2>2. RowsConsistent'
    BY <1>1 DEF IndInv, vars, RowsConsistent, Consistent
  <2>3. Exclusive'
    BY <1>1 DEF IndInv, vars, Exclusive, ExclusivePreparation, HeldBehind, CreatedBefore, NotMoved,
                Alone, AskedOnce, IterationsContiguous, Unsent
  <2> QED
    BY <2>1, <2>2, <2>3 DEF IndInv
<1>2. CASE Next
  <2>1. Types /\ Assigned /\ RowsConsistent /\ Exclusive
    BY DEF IndInv, TypeOK, Assigned
  <2>2. Types'
    BY <1>2, <2>1, TypesStep
  <2>3. AnswersKept /\ CreatedKept
    BY <1>2, <2>1, AnswersStep, CreatedStep
  <2>4. WorkersAssigned' /\ PollersAssigned' /\ HandsAssigned'
    BY <1>2, <2>1, <2>3, WorkersStep, PollersStep, HandsStep
  <2>5. RowsConsistent'
    BY <1>2, <2>1, RowsStep DEF RowsKept, RowsConsistent, Consistent
  <2>6. Exclusive'
    BY <1>2, <2>1, ExclusiveStep
  <2> QED
    BY <2>2, <2>4, <2>5, <2>6 DEF IndInv, TypeOK
<1> QED
  BY <1>1, <1>2

\* The inductive invariant holds in every reachable state of every instance of the system:
\* types, the CHECK of every row, and the exclusion of workers by the UNIQUE constraint.
THEOREM IndInvHolds == Spec => []IndInv
  BY IndInvInit, IndInvStep, PTL DEF Spec

\* Type correctness: every table, process and API view keeps its type, and a process
\* at work has a run, an iteration and, where it uses one, the API's answer.
THEOREM TypeCorrect == Spec => []TypeOK
<1>1. IndInv => TypeOK
  BY DEF IndInv
<1> QED
  BY <1>1, IndInvHolds, PTL

\* No iteration is sent to the Claude API twice, whatever number of workers a rescued
\* or reclaimed run has: UNIQUE (run_id, iteration_number) is what keeps them apart.
THEOREM IterationsAskedOnce == Spec => []AskedOnce
<1>1. IndInv => AskedOnce
  BY DEF IndInv, Exclusive
<1> QED
  BY <1>1, IndInvHolds, PTL

\* The worker that inserted an iteration is alone with it until it is done, and until
\* it has written current_iteration nobody else moves that column.
THEOREM PreparationIsExclusive == Spec => []ExclusivePreparation
<1>1. IndInv => ExclusivePreparation
  BY DEF IndInv, Exclusive
<1> QED
  BY <1>1, IndInvHolds, PTL

\* Iterations are numbered without gaps and run at most one ahead of current_iteration.
THEOREM IterationsAreContiguous == Spec => []IterationsContiguous
<1>1. IndInv => IterationsContiguous
  BY DEF IndInv, Exclusive
<1> QED
  BY <1>1, IndInvHolds, PTL

\* A completed or failed run is never in flight again, though no UPDATE asks what the
\* state was: the CHECK on finalized_at rejects every write that would reopen it.
THEOREM TerminalStaysTerminal == Spec => TerminalNeverReopened
<1>1. IndInv /\ [Next]_vars => [\A r \in Runs : IsTerminal(r) => run'[r].state \in Terminal]_vars
  <2> SUFFICES ASSUME IndInv, Next, NEW r \in Runs, IsTerminal(r) PROVE run'[r].state \in Terminal
    OBVIOUS
  <2>1. RowsKept
    BY RowsStep DEF IndInv, TypeOK, Assigned
  <2> QED
    BY <2>1 DEF RowsKept, IsTerminal
<1> QED
  BY <1>1, IndInvHolds, PTL DEF Spec, TerminalNeverReopened

\* current_iteration never moves back, though workers write it from the row they claimed.
THEOREM CurrentIterationOnlyGrows == Spec => CurrentIterationNeverRegresses
<1>1. IndInv /\ [Next]_vars => [\A r \in Runs : run'[r].cur >= run[r].cur]_vars
  BY CurStep DEF IndInv, TypeOK, Assigned, CurGrows
<1> QED
  BY <1>1, IndInvHolds, PTL DEF Spec, CurrentIterationNeverRegresses

-----------------------------------------------------------------------------
(* The rescuer's budget.                                                   *)

\* Two instances are never leader in the same reign.
OneLeader == \A i, j \in MayLead : i = j

\* What the leader has listed is not yet over the budget, and it alone spends it.
Budgeted ==
    \A i \in Instances : \A s \in stuck[i] :
        /\ i \in MayLead
        /\ s.attempts = run[s.run].rescues /\ s.attempts < MaxRescue

BudgetInv == IndInv /\ RescueBudget /\ Budgeted

RescuesSame == \A r \in Runs : run'[r].rescues = run[r].rescues

\* A write that leaves rescue_attempts alone, applied or rejected.
LEMMA WriteSame ==
    ASSUME run \in [Runs -> Row], NEW r, NEW new, Write(r, new), new.rescues = run[r].rescues
    PROVE  RescuesSame
  BY DEF Write, RescuesSame

\* Only RescueRun writes rescue_attempts.
LEMMA RescueSteps ==
    ASSUME IndInv, Next
    PROVE  RescuesSame \/ \E i \in Instances : RescueRun(i)
<1>0. run \in [Runs -> Row] /\ Types /\ Assigned
  BY DEF IndInv, TypeOK, Types, Assigned
<1>1. UNCHANGED run => RescuesSame
  BY DEF RescuesSame
<1>2. ASSUME NEW r \in Runs, CreateRun(r) \/ AgeClaim(r) \/ \E n \in Iters : Continue(r, n)
      PROVE  RescuesSame
  <2>1. CASE CreateRun(r) \/ AgeClaim(r)
    BY <1>0, <2>1 DEF CreateRun, AgeClaim, Row, RescuesSame
  <2>2. ASSUME NEW n \in Iters, Continue(r, n) PROVE RescuesSame
    BY <1>0, <2>2 DEF Continue, Continued, Row, RescuesSame
  <2> QED
    BY <1>2, <2>1, <2>2
<1>3. ASSUME NEW i \in Instances, NEW m \in Modes, Claim(i, m) PROVE RescuesSame
  <2>1. PICK S \in (SUBSET Claimable(i, m)) \ {{}} :
          run' = [q \in Runs |->
                     IF q \in S
                     THEN [run[q] EXCEPT !.claimed = i, !.aged = FALSE,
                             !.state = IF m = "batch" THEN "batch_submitting" ELSE "streaming"]
                     ELSE run[q]]
    BY <1>3 DEF Claim
  <2> QED
    BY <1>0, <2>1 DEF Row, RescuesSame
<1>4. \A r \in Runs : \A n : SettledRow(r, n).rescues = run[r].rescues
  BY <1>0 DEF SettledRow, Row
<1>5. \A r \in Runs : FailedRow(r).rescues = run[r].rescues
  BY <1>0 DEF FailedRow, Row
<1>6. ASSUME NEW i \in Instances, NEW m \in Modes, AdvanceRun(i, m) PROVE RescuesSame
  <2>1. work[i][m].run \in Runs
    BY <1>0, <1>6, WorkerTask DEF AdvanceRun, At
  <2>2. AdvancedRow(work[i][m].run, work[i][m].base + 1).rescues = run[work[i][m].run].rescues
    BY <1>0, <2>1 DEF AdvancedRow, Row
  <2> QED
    BY <1>0, <1>6, <2>2, WriteSame DEF AdvanceRun
<1>7. ASSUME NEW i \in Instances, NEW m \in Modes, BeginStream(i, m) PROVE RescuesSame
  <2>1. work[i][m].run \in Runs
    BY <1>0, <1>7, WorkerTask DEF BeginStream, At
  <2> QED
    BY <1>0, <1>7, <2>1 DEF BeginStream, Row, RescuesSame
<1>8. ASSUME NEW i \in Instances, NEW m \in Modes, StreamSettle(i, m) \/ FailRun(i, m) PROVE RescuesSame
  <2>1. work[i][m].run \in Runs
    BY <1>0, <1>8, WorkerTask DEF StreamSettle, FailRun, At
  <2> QED
    BY <1>0, <1>4, <1>5, <1>8, <2>1, WriteSame DEF StreamSettle, Settle, FailRun
<1>9. ASSUME NEW i \in Instances, MarkProcessing(i) PROVE RescuesSame
  <2>1. poll[i].run \in Runs
    BY <1>0, <1>9, PollerTask DEF MarkProcessing, Polls
  <2>2. [run[poll[i].run] EXCEPT !.state = "batch_processing"].rescues = run[poll[i].run].rescues
    BY <1>0, <2>1 DEF Row
  <2> QED
    BY <1>0, <1>9, <2>2, WriteSame DEF MarkProcessing
<1>10. ASSUME NEW i \in Instances, PollSettle(i) \/ PollFail(i) PROVE RescuesSame
  <2>1. poll[i].run \in Runs
    BY <1>0, <1>10, PollerTask DEF PollSettle, PollFail, Polls
  <2> QED
    BY <1>0, <1>4, <1>5, <1>10, <2>1, WriteSame DEF PollSettle, Settle, PollFail
<1>11. ASSUME NEW i \in Instances, DeleteInstance(i) PROVE RescuesSame
  BY <1>5, <1>11 DEF DeleteInstance, RescuesSame
<1>12. ASSUME NEW i \in Instances, NEW m \in Modes, WorkerStep(i, m) \/ WorkerError(i, m) PROVE RescuesSame
  BY <1>1, <1>6, <1>7, <1>8, <1>12 DEF WorkerStep, WorkerError, Take, CreatePrompt, CreateIteration,
     SubmitBatch, RecordBatch, StreamReply, StreamRespond
<1>13. ASSUME NEW i \in Instances, PollerStep(i) \/ PollError(i) PROVE RescuesSame
  BY <1>1, <1>9, <1>10, <1>13 DEF PollerStep, PollError, ListIterations, GetBatch, ReadRun,
     MarkCanceling, MarkEnded, FetchResult, PollRespond
<1>14. ASSUME NEW r \in Runs, Noted(r) PROVE RescuesSame
  BY <1>0, <1>1, <1>2, <1>14, NotedMoves DEF Continuing
<1>15. ASSUME NEW r \in Runs, NEW n \in Iters, EndBatch(r, n) \/ CancelBatch(r, n) \/ FinishTools(r, n)
       PROVE  RescuesSame
  BY <1>1, <1>15 DEF EndBatch, CancelBatch, FinishTools
<1>16. ASSUME NEW i \in Instances, ScanStuck(i) \/ Crash(i) \/ Restart(i) PROVE RescuesSame
  BY <1>1, <1>16 DEF ScanStuck, Crash, Restart
<1> QED
  BY <1>2, <1>3, <1>11, <1>12, <1>13, <1>14, <1>15, <1>16 DEF Next, Noted

\* The rescuer's list is filled by a scan, emptied run by run, and lost in a crash.
LEMMA StuckSteps ==
    ASSUME Next
    PROVE  UNCHANGED stuck \/ \E i \in Instances : ScanStuck(i) \/ RescueRun(i) \/ Crash(i)
<1>1. ASSUME NEW r \in Runs, CreateRun(r) \/ Noted(r) \/ AgeClaim(r)
      PROVE  UNCHANGED stuck
  BY <1>1 DEF CreateRun, AgeClaim, Noted, DropNote, HandStep, HandleNote, CheckStuck, ReadListed,
              ContinueRun, HandError
<1>2. ASSUME NEW r \in Runs, NEW n \in Iters, EndBatch(r, n) \/ CancelBatch(r, n) \/ FinishTools(r, n)
      PROVE  UNCHANGED stuck
  BY <1>2 DEF EndBatch, CancelBatch, FinishTools
<1>3. ASSUME NEW i \in Instances, NEW m \in Modes, Claim(i, m) \/ WorkerStep(i, m) \/ WorkerError(i, m)
      PROVE  UNCHANGED stuck
  BY <1>3 DEF Claim, WorkerStep, WorkerError, Take, CreatePrompt, CreateIteration, SubmitBatch,
              RecordBatch, AdvanceRun, BeginStream, StreamReply, StreamRespond, StreamSettle, FailRun
<1>4. ASSUME NEW i \in Instances, PollerStep(i) \/ PollError(i)
      PROVE  UNCHANGED stuck
  BY <1>4 DEF PollerStep, PollError, ListIterations, GetBatch, ReadRun, MarkProcessing, MarkCanceling,
              MarkEnded, FetchResult, PollRespond, PollSettle, PollFail
<1>5. ASSUME NEW i \in Instances, DeleteInstance(i) \/ Restart(i)
      PROVE  UNCHANGED stuck
  BY <1>5 DEF DeleteInstance, Restart
<1> QED
  BY <1>1, <1>2, <1>3, <1>4, <1>5 DEF Next, Noted

\* A listed run is rescued once, within the budget; the other entries stay as they were.
LEMMA BudgetStep ==
    ASSUME BudgetInv, [Next]_vars, OneLeader
    PROVE  BudgetInv'
<1>0. /\ IndInv /\ RescueBudget /\ Budgeted /\ run \in [Runs -> Row]
      /\ stuck \in [Instances -> SUBSET [run : Runs, attempts : Nat]]
  BY DEF BudgetInv, IndInv, TypeOK, Types
<1>1. IndInv'
  BY <1>0, IndInvStep
<1>2. CASE UNCHANGED vars
  BY <1>0, <1>1, <1>2 DEF vars, BudgetInv, RescueBudget, Budgeted
<1>3. ASSUME NEW i \in Instances, RescueRun(i) PROVE RescueBudget' /\ Budgeted'
  <2>1. PICK s \in stuck[i] :
          /\ stuck' = [stuck EXCEPT ![i] = stuck[i] \ {s}]
          /\ Write(s.run, IF s.attempts >= MaxRescue THEN FailedRow(s.run) ELSE RescuedRow(s.run))
    BY <1>3 DEF RescueRun
  <2>2. /\ s.run \in Runs /\ s.attempts \in Nat /\ i \in MayLead
        /\ s.attempts = run[s.run].rescues /\ s.attempts < MaxRescue
    BY <1>0 DEF Budgeted
  <2>3. Write(s.run, RescuedRow(s.run)) /\ RescuedRow(s.run).rescues = run[s.run].rescues + 1
    BY <1>0, <2>1, <2>2, BoundsAssumption DEF RescuedRow, Row
  <2>4. /\ \A q \in Runs : q # s.run => run'[q] = run[q]
        /\ run'[s.run].rescues \in {s.attempts, s.attempts + 1}
    BY <1>0, <2>2, <2>3 DEF Write
  <2>5. RescueBudget'
    BY <1>0, <2>2, <2>4, BoundsAssumption DEF RescueBudget
  <2>6. ASSUME NEW j \in Instances, NEW t \in stuck'[j]
        PROVE  /\ j \in MayLead
               /\ t.attempts = run'[t.run].rescues /\ t.attempts < MaxRescue
    <3>1. t \in stuck[j]
      BY <1>0, <2>1, <2>6
    <3>2. /\ j \in MayLead /\ t \in [run : Runs, attempts : Nat]
          /\ t.attempts = run[t.run].rescues /\ t.attempts < MaxRescue
      BY <1>0, <3>1 DEF Budgeted
    <3>3. i = j
      BY <2>2, <3>2 DEF OneLeader
    <3>4. t # s
      BY <1>0, <2>1, <2>6, <3>3
    <3>5. s \in [run : Runs, attempts : Nat]
      BY <1>0
    <3>6. t.run # s.run
      <4>1. t = [run |-> t.run, attempts |-> t.attempts] /\ s = [run |-> s.run, attempts |-> s.attempts]
        BY <3>2, <3>5
      <4> QED
        BY <2>2, <3>2, <3>4, <4>1
    <3> QED
      BY <2>4, <3>2, <3>6
  <2> QED
    BY <2>5, <2>6 DEF Budgeted
<1>4. ASSUME Next, RescuesSame, ~\E i \in Instances : RescueRun(i) PROVE RescueBudget' /\ Budgeted'
  <2>1. RescueBudget'
    BY <1>0, <1>4 DEF RescueBudget, RescuesSame
  <2>2. ASSUME NEW j \in Instances, NEW t \in stuck'[j]
        PROVE  /\ j \in MayLead
               /\ t.attempts = run'[t.run].rescues /\ t.attempts < MaxRescue
    <3>1. CASE t \in stuck[j]
      BY <1>0, <1>4, <3>1 DEF Budgeted, RescuesSame
    <3>2. CASE t \notin stuck[j]
      <4>1. PICK i \in Instances : ScanStuck(i) \/ Crash(i)
        BY <1>4, <2>2, <3>2, StuckSteps
      <4>2. ~Crash(i)
        BY <1>0, <2>2, <3>2, <4>1 DEF Crash
      <4>3. i = j
        BY <1>0, <2>2, <3>2, <4>1, <4>2 DEF ScanStuck
      <4>4. j \in MayLead /\ stuck'[j] = {[run |-> r, attempts |-> run[r].rescues] : r \in StuckRuns}
        BY <1>0, <4>1, <4>2, <4>3 DEF ScanStuck
      <4>5. PICK r \in StuckRuns : t = [run |-> r, attempts |-> run[r].rescues]
        BY <2>2, <4>4
      <4>6. r \in Runs /\ run[r].rescues < MaxRescue
        BY DEF StuckRuns
      <4> QED
        BY <1>4, <4>4, <4>5, <4>6 DEF RescuesSame
    <3> QED
      BY <3>1, <3>2
  <2> QED
    BY <2>1, <2>2 DEF Budgeted
<1>5. CASE Next
  <2>1. RescueBudget' /\ Budgeted'
    BY <1>0, <1>3, <1>4, <1>5, RescueSteps
  <2> QED
    BY <1>1, <2>1 DEF BudgetInv
<1> QED
  BY <1>2, <1>5

\* No run has been rescued and nothing is listed at the start.
LEMMA BudgetInit == Init => BudgetInv
<1> SUFFICES ASSUME Init PROVE BudgetInv
  OBVIOUS
<1>1. IndInv
  BY IndInvInit
<1>2. (\A r \in Runs : run[r].rescues = 0) /\ (\A i \in Instances : stuck[i] = {})
  BY DEF Init
<1> QED
  BY <1>1, <1>2, BoundsAssumption DEF BudgetInv, RescueBudget, Budgeted

\* Under one leader no run is rescued more than MaxRescueAttempts times, whatever else
\* goes wrong: the attempts in the leader's list are still those of the row when it
\* writes, though it locks no row and the list may be old, for nobody else counts them up.
THEOREM RescuesAreBudgeted ==
    ASSUME OneLeader
    PROVE  Spec => []RescueBudget
<1>1. BudgetInv => RescueBudget
  BY DEF BudgetInv
<1>2. Spec => []BudgetInv
  BY BudgetInit, BudgetStep, PTL DEF Spec
<1> QED
  BY <1>1, <1>2, PTL
=============================================================================
