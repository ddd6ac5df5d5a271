------------------------ MODULE ToolExecution_proofs ------------------------
(***************************************************************************)
(* Proofs about ToolExecution: the rows and the goroutines fit together in  *)
(* every reachable state, and when completions are not handled late the     *)
(* tool workers implement ToolTurns.                                        *)
(***************************************************************************)
EXTENDS ToolExecution, TLAPS

-----------------------------------------------------------------------------
(* The inductive invariant *)

\* A row as the CHECK, the claims and the attempt count leave it.
Good(e) ==
    /\ Consistent(e)
    /\ e.owner = None <=> e.state \in {"absent", "pending"}
    /\ e.attempts <= MaxAttempts
    /\ e.state = "pending" => e.attempts < MaxAttempts

\* Rows are good, and turns that were not reached have none.
ExecInv ==
    \A n \in Turns, c \in Calls :
        Good(exec[n][c]) /\ (n > run.turn => exec[n][c] = Absent)

\* A goroutine belongs to the row's owner and was started by the row's last claim:
\* this alone makes it the only one.
JobInv ==
    \A i \in Instances : \A j \in job[i] : Row(j).owner = i /\ Row(j).attempts = j.attempt

\* All calls of the turn have ended.
Done(n) == HasEnded(n) = Asked(n)

\* A turn that is waited for has calls.
AskedSome == run.state = "waiting" => run.turn > 0 /\ Asked(run.turn) # {}

\* What an instance has heard or read of the run's tools is about the present turn.
Heard ==
    \A i \in Instances :
        /\ note[i] > 0 /\ run.state = "waiting" => Done(run.turn)
        /\ hand[i].pc # "idle" /\ run.state = "waiting" => Done(run.turn)
        /\ hand[i].pc \in {"fetch", "continue"} => hand[i].turn = run.turn
        /\ hand[i].pc = "continue" /\ run.state = "waiting" => hand[i].seen = Asked(run.turn)

\* What holds when completions are not handled late.
Prompt == AskedSome /\ Heard /\ AnswersComplete

\* The number of answers, also of a run that is over.
Answers == OneAnswerPerTurn /\ Len(told) <= run.turn

\* The inductive invariant.
IndInv == Types /\ ExecInv /\ JobInv /\ Answers /\ ("late" \notin Faults => Prompt)

-----------------------------------------------------------------------------
(* Rows *)

\* The rows that the statements write are rows.
LEMMA RowTypes ==
    ASSUME NEW e \in Execution
    PROVE  /\ Running(e) \in Execution /\ Completed(e) \in Execution
           /\ Failed(e) \in Execution /\ Retried(e) \in Execution
           /\ e.snoozes < MaxSnooze => Snoozed(e) \in Execution
           /\ \A i \in Instances :
                [e EXCEPT !.state = "running", !.owner = i, !.attempts = @ + 1] \in Execution
<1>1. Running(e) \in Execution /\ Completed(e) \in Execution /\ Failed(e) \in Execution
  BY DEF Running, Completed, Failed, Execution, Ended, Open
<1>2. Retried(e) \in Execution
  BY DEF Retried, Execution, Ended, Open
<1>3. ASSUME e.snoozes < MaxSnooze PROVE Snoozed(e) \in Execution
  <2> DEFINE x == Retried(e)
             b == IF x.attempts = 0 THEN 0 ELSE x.attempts - 1
  <2>1. x \in Execution /\ x.snoozes = e.snoozes
    BY <1>2 DEF Retried, Execution
  <2>2. x.snoozes + 1 \in 0 .. MaxSnooze
    BY <1>3, <2>1, BoundsAssumption DEF Execution
  <2>3. b \in Nat
    BY <2>1 DEF Execution
  <2>4. \A k \in 0 .. MaxSnooze, a \in Nat : [x EXCEPT !.snoozes = k, !.attempts = a] \in Execution
    BY <2>1 DEF Execution
  <2> QED
    BY <2>2, <2>3, <2>4 DEF Snoozed
<1>4. ASSUME NEW i \in Instances
      PROVE  [e EXCEPT !.state = "running", !.owner = i, !.attempts = @ + 1] \in Execution
  <2>1. e.attempts + 1 \in Nat
    BY DEF Execution
  <2>2. \A a \in Nat : [e EXCEPT !.state = "running", !.owner = i, !.attempts = a] \in Execution
    BY DEF Execution, Open
  <2> QED
    BY <2>1, <2>2
<1> QED
  BY <1>1, <1>2, <1>3, <1>4

\* A notification reaches some of the instances.
LEMMA NotifyTypes ==
    ASSUME note \in [Instances -> Nat], Notify
    PROVE  note' \in [Instances -> Nat]
<1>1. CASE Announced
  <2>1. PICK D \in SUBSET {i \in Instances : up[i]} :
          note' = [i \in Instances |-> note[i] + (IF i \in D THEN 1 ELSE 0)]
    BY <1>1 DEF Notify
  <2> QED
    BY <2>1
<1>2. CASE ~Announced
  BY <1>2 DEF Notify
<1> QED
  BY <1>1, <1>2

\* One row is replaced.
LEMMA PutTypes ==
    ASSUME exec \in [Turns -> [Calls -> Execution]], NEW n \in Turns, NEW c \in Calls,
           NEW new \in Execution
    PROVE  /\ Put(n, c, new) \in [Turns -> [Calls -> Execution]]
           /\ \A m \in Turns, d \in Calls :
                Put(n, c, new)[m][d] = IF m = n /\ d = c THEN new ELSE exec[m][d]
  BY DEF Put

-----------------------------------------------------------------------------
(* Types *)

\* The last statement of a goroutine keeps the types.
LEMMA ReturnTypes ==
    ASSUME Types, NEW i \in Instances, NEW j \in job[i], NEW new \in Execution, Return(i, j, new)
    PROVE  Types'
<1>1. j \in Job /\ j.turn \in Turns /\ j.call \in Calls
  BY DEF Types, Job
<1>2. exec' \in [Turns -> [Calls -> Execution]]
  BY <1>1, PutTypes DEF Types, Return
<1>3. note' \in [Instances -> Nat]
  BY NotifyTypes DEF Types, Return
<1> QED
  BY <1>2, <1>3 DEF Types, Return, Ends

\* Every step keeps the types.
LEMMA TypesStep == Types /\ [Next]_vars => Types'
<1> SUFFICES ASSUME Types, [Next]_vars PROVE Types'
  OBVIOUS
<1> USE BoundsAssumption
<1>1. CASE UNCHANGED vars
  BY <1>1 DEF Types, vars
<1>2. CASE Finish
  BY <1>2 DEF Types, Finish
<1>3. ASSUME NEW n \in Turns, NEW c \in Calls, ChildEnds(n, c) PROVE Types'
  <2>1. PICK new \in {Completed(exec[n][c]), Failed(exec[n][c])} :
          exec' = IF exec[n][c].state = "running" THEN Put(n, c, new) ELSE exec
    BY <1>3 DEF ChildEnds
  <2>0. exec[n][c] \in Execution
    BY DEF Types
  <2>2. new \in Execution
    BY <2>0, RowTypes
  <2>3. exec' \in [Turns -> [Calls -> Execution]]
    BY <2>1, <2>2, PutTypes DEF Types
  <2>4. note' \in [Instances -> Nat]
    BY <1>3, NotifyTypes DEF Types, ChildEnds
  <2> QED
    BY <1>3, <2>3, <2>4 DEF Types, ChildEnds
<1>4. ASSUME NEW i \in Instances, NEW S \in SUBSET Calls, Reply(i, S) PROVE Types'
  <2>1. run' = [state |-> "waiting", turn |-> run.turn + 1, owner |-> i]
    BY <1>4 DEF Reply
  <2>2. run.turn + 1 \in 0 .. MaxTurns
    BY <1>4 DEF Reply, Types
  <2>0. Absent \in Execution
    BY BoundsAssumption DEF Absent, Execution
  <2>5. run' \in [state : {"away", "waiting", "over"}, turn : 0 .. MaxTurns,
                  owner : Instances \cup {None}]
    BY <2>1, <2>2
  <2>3. [Absent EXCEPT !.state = "pending"] \in Execution
    BY <2>0 DEF Execution, Open
  <2>4. exec' \in [Turns -> [Calls -> Execution]]
    BY <1>4, <2>0, <2>3 DEF Reply, Types
  <2> QED
    BY <1>4, <2>4, <2>5 DEF Types, Reply
<1>5. ASSUME NEW i \in Instances, Claim(i) PROVE Types'
  <2>1. PICK S \in SUBSET Claimable(i) :
          /\ exec' = [n \in Turns |-> [c \in Calls |->
                        IF <<n, c>> \in S
                        THEN [exec[n][c] EXCEPT !.state = "running", !.owner = i, !.attempts = @ + 1]
                        ELSE exec[n][c]]]
          /\ job' = [job EXCEPT ![i] = @ \cup
                       {[turn |-> x[1], call |-> x[2], attempt |-> exec[x[1]][x[2]].attempts + 1] : x \in S}]
    BY <1>5 DEF Claim
  <2>2. \A x \in S : x[1] \in Turns /\ x[2] \in Calls
    BY DEF Claimable, Pending
  <2>3. exec' \in [Turns -> [Calls -> Execution]]
    BY <2>1, RowTypes DEF Types
  <2>4. \A x \in S : [turn |-> x[1], call |-> x[2], attempt |-> exec[x[1]][x[2]].attempts + 1] \in Job
    BY <2>2 DEF Types, Execution, Job
  <2> DEFINE New == {[turn |-> x[1], call |-> x[2], attempt |-> exec[x[1]][x[2]].attempts + 1] : x \in S}
  <2>6. New \in SUBSET Job
    BY <2>4
  <2>7. job' = [job EXCEPT ![i] = job[i] \cup New]
    BY <2>1
  <2> HIDE DEF New
  <2>5. job' \in [Instances -> SUBSET Job]
    BY <2>6, <2>7 DEF Types
  <2> QED
    BY <1>5, <2>3, <2>5 DEF Types, Claim
<1>6. ASSUME NEW i \in Instances, JobStep(i) PROVE Types'
  <2>1. PICK j \in job[i] : \/ Start(i, j) \/ ToolReturns(i, j) \/ Discard(i, j) \/ ToolErrs(i, j)
                            \/ Snooze(i, j) \/ CreateChild(i, j)
    BY <1>6 DEF JobStep
  <2>2. j \in Job /\ j.turn \in Turns /\ j.call \in Calls /\ Row(j) \in Execution
    BY DEF Types, Job, Row
  <2>3. CASE Start(i, j)
    <3>1. Put(j.turn, j.call, Running(Row(j))) \in [Turns -> [Calls -> Execution]]
      BY <2>2, RowTypes, PutTypes DEF Types
    <3>2. /\ exec' \in {exec, Put(j.turn, j.call, Running(Row(j)))}
          /\ job' \in {job, [job EXCEPT ![i] = @ \ {j}]}
      BY <2>3 DEF Start, Ends
    <3>3. exec' \in [Turns -> [Calls -> Execution]]
      BY <3>1, <3>2 DEF Types
    <3>4. job' \in [Instances -> SUBSET Job]
      <4>1. job[i] \ {j} \in SUBSET Job
        BY DEF Types
      <4> QED
        BY <3>2, <4>1 DEF Types
    <3> QED
      BY <2>3, <3>3, <3>4 DEF Start, Types
  <2>4. CASE ToolReturns(i, j)
    BY <2>2, <2>4, RowTypes, ReturnTypes DEF ToolReturns
  <2>5. CASE Discard(i, j)
    BY <2>2, <2>5, RowTypes, ReturnTypes DEF Discard
  <2>6. CASE ToolErrs(i, j)
    BY <2>2, <2>6, RowTypes, ReturnTypes DEF ToolErrs, ErrorRow
  <2>7. CASE Snooze(i, j)
    BY <2>2, <2>7, RowTypes, ReturnTypes DEF Snooze
  <2>8. CASE CreateChild(i, j)
    BY <2>2, <2>8 DEF CreateChild, Ends, Types
  <2> QED
    BY <2>1, <2>3, <2>4, <2>5, <2>6, <2>7, <2>8
<1>7. ASSUME NEW i \in Instances, HandStep(i) PROVE Types'
  <2>1. CASE HandleNote(i)
    BY <1>7, <2>1 DEF HandleNote, Enter, Types, Hand, Idle
  <2>2. CASE CheckStuck(i)
    BY <1>7, <2>2 DEF CheckStuck, Types, Hand
  <2>3. CASE ReadRun(i)
    BY <1>7, <2>3 DEF ReadRun, Enter, Types, Hand, Idle
  <2>4. CASE FetchResults(i)
    <3>1. HasEnded(hand[i].turn) \in SUBSET Calls
      BY DEF HasEnded, Asked
    <3>2. \A S \in SUBSET Calls : [hand[i] EXCEPT !.pc = "continue", !.seen = S] \in Hand
      BY DEF Types, Hand
    <3>3. hand' = [hand EXCEPT ![i] = [hand[i] EXCEPT !.pc = "continue",
                                                      !.seen = HasEnded(hand[i].turn)]]
      BY <2>4 DEF FetchResults, Types
    <3>4. hand' \in [Instances -> Hand]
      BY <3>1, <3>2, <3>3 DEF Types
    <3> QED
      BY <2>4, <3>4 DEF FetchResults, Types
  <2>5. CASE ContinueRun(i)
    <3>1. [turn |-> hand[i].turn, calls |-> hand[i].seen] \in [turn : 0 .. MaxTurns, calls : SUBSET Calls]
      BY DEF Types, Hand
    <3>2. told' \in Seq([turn : 0 .. MaxTurns, calls : SUBSET Calls])
      <4>1. told' \in {told, Append(told, [turn |-> hand[i].turn, calls |-> hand[i].seen])}
        BY <2>5 DEF ContinueRun
      <4> DEFINE M == [turn : 0 .. MaxTurns, calls : SUBSET Calls]
                 m == [turn |-> hand[i].turn, calls |-> hand[i].seen]
      <4>2. told \in Seq(M) /\ m \in M
        BY <3>1 DEF Types
      <4>3. told' \in {told, Append(told, m)}
        BY <4>1
      <4> HIDE DEF M, m
      <4>4. told' \in Seq(M)
        BY <4>2, <4>3
      <4> QED
        BY <4>4 DEF M
    <3>3. hand' \in [Instances -> Hand]
      BY <2>5 DEF ContinueRun, Types, Hand, Idle
    <3>4. run' \in [state : {"away", "waiting", "over"}, turn : 0 .. MaxTurns,
                    owner : Instances \cup {None}]
      BY <2>5 DEF ContinueRun, Types
    <3> QED
      BY <2>5, <3>2, <3>3, <3>4 DEF ContinueRun, Types
  <2> QED
    BY <1>7, <2>1, <2>2, <2>3, <2>4, <2>5 DEF HandStep
<1>8. ASSUME NEW i \in Instances, NEW j \in job[i], JobError(i, j) PROVE Types'
  BY <1>8 DEF JobError, Ends, Types
<1>9. ASSUME NEW i \in Instances, HandError(i) PROVE Types'
  BY <1>9 DEF HandError, Types, Hand, Idle
<1>10. ASSUME NEW i \in Instances, Crash(i) PROVE Types'
  BY <1>10 DEF Crash, Types, Hand, Idle
<1>11. ASSUME NEW i \in Instances, DeleteInstance(i) PROVE Types'
  <2>1. exec' \in [Turns -> [Calls -> Execution]]
    BY <1>11, RowTypes DEF DeleteInstance, Types
  <2>2. note' \in [Instances -> Nat]
    BY <1>11, NotifyTypes DEF Types, DeleteInstance
  <2> QED
    BY <1>11, <2>1, <2>2 DEF DeleteInstance, Types
<1>12. ASSUME NEW i \in Instances, Restart(i) PROVE Types'
  BY <1>12 DEF Restart, Types
<1> QED
  BY <1>1, <1>2, <1>3, <1>4, <1>5, <1>6, <1>7, <1>8, <1>9, <1>10, <1>11, <1>12 DEF Next

-----------------------------------------------------------------------------
(* What a step does to the rows and to the goroutines *)

\* A row that exists stays, and one that has ended stays so.
Onward(e, f) ==
    /\ f.state = "absent" <=> e.state = "absent"
    /\ e.state \in Ended => f.state \in Ended

RowsKept == \A n \in Turns, c \in Calls : Onward(exec[n][c], exec'[n][c])

\* A claimed row stays claimed by the same claim.
Held(e, f) == e.owner # None /\ Good(f) /\ f.owner = e.owner /\ f.attempts = e.attempts

\* A claimed row is given up: it is pending again.
Released(e, f) == e.state = "running" /\ Good(f) /\ f.state = "pending"

\* What the worker's statements make of a row that is claimed.
LEMMA ClaimedRow ==
    ASSUME NEW e \in Execution, Good(e), e.owner # None
    PROVE  /\ e.state \in {"running", "completed", "failed"}
           /\ Held(e, Completed(e)) /\ Onward(e, Completed(e))
           /\ Held(e, Failed(e)) /\ Onward(e, Failed(e))
           /\ Consistent(Running(e)) => Held(e, Running(e)) /\ Onward(e, Running(e))
           /\ Consistent(Retried(e)) /\ e.attempts < MaxAttempts =>
                Released(e, Retried(e)) /\ Onward(e, Retried(e))
           /\ Consistent(Snoozed(e)) => Released(e, Snoozed(e)) /\ Onward(e, Snoozed(e))
<1>1. e.state \in {"running", "completed", "failed"}
  BY DEF Good, Execution, Ended, Open
<1>2. Held(e, Completed(e)) /\ Onward(e, Completed(e))
  BY <1>1 DEF Held, Onward, Good, Consistent, Completed, Execution, Ended
<1>3. Held(e, Failed(e)) /\ Onward(e, Failed(e))
  BY <1>1 DEF Held, Onward, Good, Consistent, Failed, Execution, Ended
<1>4. Consistent(Running(e)) => Held(e, Running(e)) /\ Onward(e, Running(e))
  BY <1>1 DEF Held, Onward, Good, Consistent, Running, Execution, Ended
<1>5. /\ Retried(e).state = "pending" /\ Retried(e).owner = None
      /\ Retried(e).finished = e.finished /\ Retried(e).attempts = e.attempts
  BY DEF Retried, Execution
<1>6. Consistent(Retried(e)) /\ e.attempts < MaxAttempts =>
        Released(e, Retried(e)) /\ Onward(e, Retried(e))
  BY <1>1, <1>5 DEF Released, Onward, Good, Consistent, Execution, Ended
<1>7. Retried(e) \in Execution
  BY RowTypes
<1>8. /\ Snoozed(e).state = "pending" /\ Snoozed(e).owner = None
      /\ Snoozed(e).finished = e.finished
      /\ Snoozed(e).attempts = IF e.attempts = 0 THEN 0 ELSE e.attempts - 1
  BY <1>5, <1>7 DEF Snoozed, Execution
<1>9. Snoozed(e).attempts < MaxAttempts /\ Snoozed(e).attempts <= MaxAttempts
  BY <1>8, BoundsAssumption DEF Good, Execution
<1>10. Consistent(Snoozed(e)) => Released(e, Snoozed(e)) /\ Onward(e, Snoozed(e))
  BY <1>1, <1>8, <1>9 DEF Released, Onward, Good, Consistent, Execution, Ended
<1> QED
  BY <1>1, <1>2, <1>3, <1>4, <1>6, <1>10

\* Goroutines run for rows that are claimed by their instance.
LEMMA JobRow ==
    ASSUME Types, ExecInv, JobInv, NEW i \in Instances, NEW j \in job[i]
    PROVE  /\ j \in Job /\ j.turn \in Turns /\ j.call \in Calls
           /\ Row(j) \in Execution /\ Good(Row(j))
           /\ Row(j).owner = i /\ i # None /\ Row(j).attempts = j.attempt
  BY InstancesAssumption DEF Types, ExecInv, JobInv, Job, Row

\* A step under which claims are kept and no goroutine starts keeps the invariant.
LEMMA HeldStep ==
    ASSUME Types, ExecInv, JobInv, run'.turn = run.turn,
           \A n \in Turns, c \in Calls :
             exec'[n][c] = exec[n][c] \/ Held(exec[n][c], exec'[n][c]),
           \A i \in Instances : job'[i] \subseteq job[i]
    PROVE  ExecInv' /\ JobInv'
<1>1. ASSUME NEW n \in Turns, NEW c \in Calls
      PROVE  Good(exec'[n][c]) /\ (n > run.turn => exec'[n][c] = Absent)
  <2>1. n > run.turn => exec[n][c].owner = None
    BY DEF ExecInv, Absent
  <2> QED
    BY <2>1 DEF ExecInv, Held
<1>2. ASSUME NEW i \in Instances, NEW j \in job'[i]
      PROVE  exec'[j.turn][j.call].owner = i /\ exec'[j.turn][j.call].attempts = j.attempt
  <2>1. j \in job[i]
    BY <1>2
  <2> QED
    BY <2>1, JobRow DEF Held, Row
<1> QED
  BY <1>1, <1>2 DEF ExecInv, JobInv, Row, Good, Consistent

\* The last statement of a goroutine, accepted or refused.
LEMMA ReturnStep ==
    ASSUME Types, ExecInv, JobInv, NEW i \in Instances, NEW j \in job[i],
           NEW new, Return(i, j, new),
           Consistent(new) =>
             (Held(Row(j), new) \/ Released(Row(j), new)) /\ Onward(Row(j), new)
    PROVE  ExecInv' /\ JobInv' /\ RowsKept
<1>1. /\ j \in Job /\ j.turn \in Turns /\ j.call \in Calls
      /\ Row(j).owner = i /\ i # None /\ Row(j).attempts = j.attempt
  BY JobRow
<1>2. run' = run /\ job' = [job EXCEPT ![i] = @ \ {j}]
  BY DEF Return, Ends
<1>3. \A k \in Instances : job'[k] \subseteq job[k]
  BY <1>2 DEF Types
<1>4. CASE ~Consistent(new)
  <2>1. exec' = exec
    BY <1>4 DEF Return
  <2> QED
    BY <1>2, <1>3, <2>1, HeldStep DEF RowsKept, Onward
<1>5. CASE Consistent(new)
  <2>1. exec' = Put(j.turn, j.call, new)
    BY <1>5 DEF Return
  <2>2. \A n \in Turns, c \in Calls :
          exec'[n][c] = IF n = j.turn /\ c = j.call THEN new ELSE exec[n][c]
    BY <2>1, <1>1 DEF Put, Types
  <2>3. RowsKept
    BY <2>2, <1>5 DEF RowsKept, Onward, Row
  <2>4. CASE Held(Row(j), new)
    <3>1. \A n \in Turns, c \in Calls :
            exec'[n][c] = exec[n][c] \/ Held(exec[n][c], exec'[n][c])
      BY <2>2, <2>4 DEF Row
    <3> QED
      BY <1>2, <1>3, <2>3, <3>1, HeldStep
  <2>5. CASE Released(Row(j), new)
    <3>1. ASSUME NEW n \in Turns, NEW c \in Calls
          PROVE  Good(exec'[n][c]) /\ (n > run'.turn => exec'[n][c] = Absent)
      <4>1. Row(j).state # "absent"
        BY <2>5 DEF Released
      <4>2. ~(j.turn > run.turn)
        BY <4>1, <1>1 DEF ExecInv, Absent, Row
      <4> QED
        BY <1>2, <2>2, <2>5, <4>2 DEF ExecInv, Released
    <3>2. ASSUME NEW k \in Instances, NEW l \in job'[k]
          PROVE  exec'[l.turn][l.call].owner = k /\ exec'[l.turn][l.call].attempts = l.attempt
      <4>1. l \in job[k] /\ (k = i => l # j)
        BY <1>2, <3>2 DEF Types
      <4>2. /\ l \in Job /\ l.turn \in Turns /\ l.call \in Calls
            /\ Row(l).owner = k /\ Row(l).attempts = l.attempt
        BY <4>1, JobRow
      <4>3. CASE l.turn = j.turn /\ l.call = j.call
        <5>1. Row(l) = Row(j)
          BY <4>3 DEF Row
        <5>2. l = j /\ k = i
          BY <1>1, <4>2, <4>3, <5>1 DEF Job
        <5> QED
          BY <4>1, <5>2
      <4>4. CASE ~(l.turn = j.turn /\ l.call = j.call)
        BY <2>2, <4>2, <4>4 DEF Row
      <4> QED
        BY <4>3, <4>4
    <3> QED
      BY <2>3, <3>1, <3>2 DEF ExecInv, JobInv, Row, Good, Consistent
  <2> QED
    BY <1>5, <2>4, <2>5
<1> QED
  BY <1>4, <1>5

\* A step that takes nothing back: it neither asks for tools nor answers.
Quiet ==
    /\ told' = told
    /\ run'.turn = run.turn /\ run'.state \in {run.state, "over"}
    /\ RowsKept

\* Every goroutine's step keeps the rows and the goroutines together.
LEMMA JobStepRows ==
    ASSUME Types, ExecInv, JobInv, NEW i \in Instances, JobStep(i)
    PROVE  ExecInv' /\ JobInv' /\ Quiet
<1>1. PICK j \in job[i] : \/ Start(i, j) \/ ToolReturns(i, j) \/ Discard(i, j) \/ ToolErrs(i, j)
                          \/ Snooze(i, j) \/ CreateChild(i, j)
  BY DEF JobStep
<1>2. /\ j \in Job /\ j.turn \in Turns /\ j.call \in Calls
      /\ Row(j) \in Execution /\ Good(Row(j))
      /\ Row(j).owner = i /\ i # None /\ Row(j).attempts = j.attempt
  BY JobRow
<1>3. run' = run /\ told' = told
  BY <1>1 DEF Start, ToolReturns, Discard, ToolErrs, Snooze, CreateChild, Return
<1>4. CASE Start(i, j)
  <2>1. job' \in {job, [job EXCEPT ![i] = @ \ {j}]}
    BY <1>4 DEF Start, Ends
  <2>2. \A k \in Instances : job'[k] \subseteq job[k]
    BY <2>1 DEF Types
  <2>3. exec' = exec \/ (Consistent(Running(Row(j))) /\ exec' = Put(j.turn, j.call, Running(Row(j))))
    BY <1>4 DEF Start
  <2>4. \A n \in Turns, c \in Calls :
          \/ exec'[n][c] = exec[n][c]
          \/ Held(exec[n][c], exec'[n][c]) /\ Onward(exec[n][c], exec'[n][c])
    <3>1. CASE exec' = exec
      BY <3>1
    <3>2. CASE Consistent(Running(Row(j))) /\ exec' = Put(j.turn, j.call, Running(Row(j)))
      <4>1. \A n \in Turns, c \in Calls :
              exec'[n][c] = IF n = j.turn /\ c = j.call THEN Running(Row(j)) ELSE exec[n][c]
        BY <3>2, <1>2 DEF Put, Types
      <4>2. Held(Row(j), Running(Row(j))) /\ Onward(Row(j), Running(Row(j)))
        BY <3>2, <1>2, ClaimedRow
      <4> QED
        BY <4>1, <4>2 DEF Row
    <3> QED
      BY <2>3, <3>1, <3>2
  <2>5. RowsKept
    BY <2>4 DEF RowsKept, Onward
  <2> QED
    BY <1>3, <2>2, <2>4, <2>5, HeldStep DEF Quiet
<1>5. CASE ToolReturns(i, j)
  <2>1. Held(Row(j), Completed(Row(j))) /\ Onward(Row(j), Completed(Row(j)))
    BY <1>2, ClaimedRow
  <2> QED
    BY <1>3, <1>5, <2>1, ReturnStep DEF ToolReturns, Quiet
<1>6. CASE Discard(i, j)
  <2>1. Held(Row(j), Failed(Row(j))) /\ Onward(Row(j), Failed(Row(j)))
    BY <1>2, ClaimedRow
  <2> QED
    BY <1>3, <1>6, <2>1, ReturnStep DEF Discard, Quiet
<1>7. CASE ToolErrs(i, j)
  <2>1. j.attempt >= MaxAttempts \/ Row(j).attempts < MaxAttempts
    BY <1>2, BoundsAssumption DEF Job
  <2>2. Consistent(ErrorRow(j)) =>
          (Held(Row(j), ErrorRow(j)) \/ Released(Row(j), ErrorRow(j))) /\ Onward(Row(j), ErrorRow(j))
    BY <1>2, <2>1, ClaimedRow DEF ErrorRow
  <2> QED
    BY <1>3, <1>7, <2>2, ReturnStep DEF ToolErrs, Quiet
<1>8. CASE Snooze(i, j)
  <2>1. Consistent(Snoozed(Row(j))) =>
          Released(Row(j), Snoozed(Row(j))) /\ Onward(Row(j), Snoozed(Row(j)))
    BY <1>2, ClaimedRow
  <2> QED
    BY <1>3, <1>8, <2>1, ReturnStep DEF Snooze, Quiet
<1>9. CASE CreateChild(i, j)
  <2>1. \A k \in Instances : job'[k] \subseteq job[k]
    BY <1>9 DEF CreateChild, Ends, Types
  <2>2. exec' = exec
    BY <1>9 DEF CreateChild
  <2> QED
    BY <1>3, <2>1, <2>2, HeldStep DEF Quiet, RowsKept, Onward
<1> QED
  BY <1>1, <1>4, <1>5, <1>6, <1>7, <1>8, <1>9

\* A claim starts one goroutine for each row it takes.
LEMMA ClaimRows ==
    ASSUME Types, ExecInv, JobInv, NEW i \in Instances, Claim(i)
    PROVE  ExecInv' /\ JobInv' /\ Quiet
<1>1. PICK S \in SUBSET Claimable(i) :
        /\ exec' = [n \in Turns |-> [c \in Calls |->
                      IF <<n, c>> \in S
                      THEN [exec[n][c] EXCEPT !.state = "running", !.owner = i, !.attempts = @ + 1]
                      ELSE exec[n][c]]]
        /\ job' = [job EXCEPT ![i] = @ \cup
                     {[turn |-> x[1], call |-> x[2], attempt |-> exec[x[1]][x[2]].attempts + 1] : x \in S}]
  BY DEF Claim
<1>2. run' = run /\ told' = told
  BY DEF Claim
<1>3. ASSUME NEW n \in Turns, NEW c \in Calls, <<n, c>> \in S
      PROVE  /\ exec[n][c].state = "pending" /\ exec[n][c].owner = None
             /\ exec'[n][c].state = "running" /\ exec'[n][c].owner = i
             /\ exec'[n][c].attempts = exec[n][c].attempts + 1
             /\ Good(exec'[n][c])
  <2>1. exec[n][c].state = "pending" /\ exec[n][c].owner = None
    BY <1>3 DEF Claimable
  <2>2. Good(exec[n][c]) /\ exec[n][c] \in Execution
    BY DEF ExecInv, Types
  <2> DEFINE a == exec[n][c].attempts + 1
  <2>3. exec'[n][c] = [exec[n][c] EXCEPT !.state = "running", !.owner = i, !.attempts = a]
    BY <1>1, <1>3
  <2>4. a \in Nat /\ a <= MaxAttempts
    BY <2>1, <2>2, BoundsAssumption DEF Good, Execution
  <2>5. /\ exec'[n][c].state = "running" /\ exec'[n][c].owner = i
        /\ exec'[n][c].attempts = a /\ exec'[n][c].finished = exec[n][c].finished
    BY <2>2, <2>3 DEF Execution
  <2>6. Good(exec'[n][c])
    BY <2>1, <2>2, <2>4, <2>5, InstancesAssumption DEF Good, Consistent, Ended
  <2> QED
    BY <2>1, <2>5, <2>6
<1>4. \A n \in Turns, c \in Calls : <<n, c>> \notin S => exec'[n][c] = exec[n][c]
  BY <1>1
<1>5. ASSUME NEW n \in Turns, NEW c \in Calls
      PROVE  Good(exec'[n][c]) /\ (n > run'.turn => exec'[n][c] = Absent)
  <2>1. Good(exec[n][c]) /\ (n > run.turn => exec[n][c] = Absent)
    BY DEF ExecInv
  <2>2. CASE <<n, c>> \in S
    <3>1. exec[n][c] # Absent
      BY <1>3, <2>2 DEF Absent
    <3> QED
      BY <1>2, <1>3, <2>1, <2>2, <3>1
  <2> QED
    BY <1>2, <1>4, <2>1, <2>2
<1>6. ASSUME NEW k \in Instances, NEW l \in job'[k]
      PROVE  exec'[l.turn][l.call].owner = k /\ exec'[l.turn][l.call].attempts = l.attempt
  <2>1. CASE l \in job[k]
    <3>1. l.turn \in Turns /\ l.call \in Calls /\ Row(l).owner = k /\ k # None /\ Row(l).attempts = l.attempt
      BY <2>1, JobRow
    <3>2. <<l.turn, l.call>> \notin S
      BY <1>3, <3>1 DEF Row
    <3> QED
      BY <1>4, <3>1, <3>2 DEF Row
  <2>2. CASE l \notin job[k]
    <3>1. k = i /\ l \in {[turn |-> x[1], call |-> x[2], attempt |-> exec[x[1]][x[2]].attempts + 1] : x \in S}
      BY <1>1, <1>6, <2>2 DEF Types
    <3>2. PICK x \in S : l = [turn |-> x[1], call |-> x[2], attempt |-> exec[x[1]][x[2]].attempts + 1]
      BY <3>1
    <3>3. x[1] \in Turns /\ x[2] \in Calls /\ <<x[1], x[2]>> \in S
      BY DEF Claimable, Pending
    <3> QED
      BY <1>3, <3>1, <3>2, <3>3
  <2> QED
    BY <2>1, <2>2
<1>7. RowsKept
  BY <1>3, <1>4 DEF RowsKept, Onward, Ended
<1>8. ExecInv'
  BY <1>5 DEF ExecInv, Good, Consistent
<1>9. JobInv'
  BY <1>6 DEF JobInv, Row
<1> QED
  BY <1>2, <1>7, <1>8, <1>9 DEF Quiet

\* A step that leaves rows and goroutines alone.
LEMMA StillStep ==
    ASSUME Types, ExecInv, JobInv, exec' = exec, run'.turn = run.turn,
           \A i \in Instances : job'[i] \subseteq job[i]
    PROVE  ExecInv' /\ JobInv' /\ RowsKept
<1>1. ExecInv' /\ JobInv'
  BY HeldStep
<1> QED
  BY <1>1 DEF RowsKept, Onward

\* A child run that ends closes the execution it was created for, if that still runs.
LEMMA ChildEndsRows ==
    ASSUME Types, ExecInv, JobInv, NEW n \in Turns, NEW c \in Calls, ChildEnds(n, c)
    PROVE  ExecInv' /\ JobInv' /\ Quiet
<1>1. PICK new \in {Completed(exec[n][c]), Failed(exec[n][c])} :
        exec' = IF exec[n][c].state = "running" THEN Put(n, c, new) ELSE exec
  BY DEF ChildEnds
<1>2. run' = run /\ told' = told /\ job' = job
  BY DEF ChildEnds
<1>3. CASE exec[n][c].state = "running"
  <2>1. exec[n][c] \in Execution /\ Good(exec[n][c]) /\ exec[n][c].owner # None
    BY <1>3 DEF Types, ExecInv, Good
  <2>2. Held(exec[n][c], new) /\ Onward(exec[n][c], new)
    BY <2>1, ClaimedRow
  <2>3. \A m \in Turns, d \in Calls :
          exec'[m][d] = IF m = n /\ d = c THEN new ELSE exec[m][d]
    BY <1>1, <1>3 DEF Put, Types
  <2>4. \A m \in Turns, d \in Calls :
          exec'[m][d] = exec[m][d] \/ Held(exec[m][d], exec'[m][d])
    BY <2>2, <2>3
  <2>5. RowsKept
    BY <2>2, <2>3 DEF RowsKept, Onward
  <2> QED
    BY <1>2, <2>4, <2>5, HeldStep DEF Quiet
<1>4. CASE exec[n][c].state # "running"
  BY <1>1, <1>2, <1>4, StillStep DEF Quiet
<1> QED
  BY <1>3, <1>4

\* The trigger fails what the deleted instance was running.
LEMMA DeleteRows ==
    ASSUME Types, ExecInv, JobInv, NEW i \in Instances, DeleteInstance(i)
    PROVE  ExecInv' /\ JobInv' /\ Quiet
<1>1. run' = (IF run.owner = i THEN [run EXCEPT !.state = "over"] ELSE run) /\ told' = told /\ job' = job
  BY DEF DeleteInstance
<1>2. run'.turn = run.turn /\ run'.state \in {run.state, "over"}
  BY <1>1 DEF Types
<1>3. ASSUME NEW n \in Turns, NEW c \in Calls
      PROVE  \/ exec'[n][c] = exec[n][c]
             \/ Held(exec[n][c], exec'[n][c]) /\ Onward(exec[n][c], exec'[n][c])
  <2>1. exec'[n][c] = IF exec[n][c].owner = i /\ exec[n][c].state = "running"
                      THEN Failed(exec[n][c]) ELSE exec[n][c]
    BY DEF DeleteInstance
  <2>2. exec[n][c] \in Execution /\ Good(exec[n][c])
    BY DEF Types, ExecInv
  <2>3. CASE exec[n][c].owner = i
    <3>1. exec[n][c].owner # None
      BY <2>3, InstancesAssumption
    <3> QED
      BY <2>1, <2>2, <3>1, ClaimedRow
  <2> QED
    BY <2>1, <2>3
<1>4. RowsKept
  BY <1>3 DEF RowsKept, Onward
<1>5. ExecInv' /\ JobInv'
  BY <1>1, <1>2, <1>3, HeldStep
<1> QED
  BY <1>1, <1>2, <1>4, <1>5 DEF Quiet

\* A reply writes the rows of a turn that had none.
LEMMA ReplyRows ==
    ASSUME Types, ExecInv, JobInv, NEW i \in Instances, NEW S \in SUBSET Calls, Reply(i, S)
    PROVE  /\ ExecInv' /\ JobInv'
           /\ run.turn + 1 \in Turns
           /\ run' = [state |-> "waiting", turn |-> run.turn + 1, owner |-> i]
           /\ \A n \in Turns, c \in Calls : n # run.turn + 1 => exec'[n][c] = exec[n][c]
           /\ \A c \in Calls : /\ exec[run.turn + 1][c] = Absent
                               /\ exec'[run.turn + 1][c] =
                                    IF c \in S THEN [Absent EXCEPT !.state = "pending"] ELSE Absent
<1> DEFINE new == [Absent EXCEPT !.state = "pending"]
<1>1. run.turn \in Nat /\ run.turn + 1 \in Turns
  BY BoundsAssumption DEF Types, Turns, Reply
<1>2. run' = [state |-> "waiting", turn |-> run.turn + 1, owner |-> i]
  BY DEF Reply
<1>3. \A n \in Turns, c \in Calls : n # run.turn + 1 => exec'[n][c] = exec[n][c]
  BY DEF Reply, Types
<1>4. \A c \in Calls : exec'[run.turn + 1][c] = IF c \in S THEN new ELSE Absent
  BY <1>1 DEF Reply, Types
<1>5. \A c \in Calls : exec[run.turn + 1][c] = Absent
  BY <1>1 DEF ExecInv
<1>6. Good(new) /\ Good(Absent)
  BY BoundsAssumption DEF Good, Consistent, Absent, Ended
<1>7. ExecInv'
  <2>1. ASSUME NEW n \in Turns, NEW c \in Calls
        PROVE  Good(exec'[n][c]) /\ (n > run.turn + 1 => exec'[n][c] = Absent)
    <3>1. CASE n = run.turn + 1
      BY <1>1, <1>4, <1>6, <3>1
    <3>2. CASE n # run.turn + 1
      <4>1. n > run.turn + 1 => n > run.turn
        BY <1>1 DEF Turns
      <4> QED
        BY <1>3, <3>2, <4>1 DEF ExecInv
    <3> QED
      BY <3>1, <3>2
  <2> QED
    BY <1>2, <2>1 DEF ExecInv, Good, Consistent
<1>8. JobInv'
  <2>1. ASSUME NEW k \in Instances, NEW j \in job[k]
        PROVE  exec'[j.turn][j.call].owner = k /\ exec'[j.turn][j.call].attempts = j.attempt
    <3>1. j.turn \in Turns /\ j.call \in Calls /\ Row(j).owner = k /\ k # None /\ Row(j).attempts = j.attempt
      BY JobRow
    <3>2. j.turn # run.turn + 1
      BY <1>5, <3>1 DEF Row, Absent
    <3> QED
      BY <1>3, <3>1, <3>2 DEF Row
  <2>2. job' = job
    BY DEF Reply
  <2> QED
    BY <2>1, <2>2 DEF JobInv, Row
<1> QED
  BY <1>1, <1>2, <1>3, <1>4, <1>5, <1>7, <1>8

\* A step that does not ask for tools keeps rows and goroutines together, and either
\* takes nothing back or answers the turn.
LEMMA OtherSteps ==
    ASSUME Types, ExecInv, JobInv, Next,
           \A i \in Instances, S \in SUBSET Calls : ~Reply(i, S)
    PROVE  /\ ExecInv' /\ JobInv' /\ RowsKept /\ run'.turn = run.turn
           /\ Quiet \/ (\E i \in Instances : ContinueRun(i))
<1>1. CASE Finish
  <2>1. /\ exec' = exec /\ told' = told /\ job' = job
        /\ run'.turn = run.turn /\ run'.state = "over"
    BY <1>1 DEF Finish, Types
  <2> QED
    BY <2>1, StillStep DEF Quiet
<1>2. ASSUME NEW n \in Turns, NEW c \in Calls, ChildEnds(n, c)
      PROVE  ExecInv' /\ JobInv' /\ Quiet
  BY <1>2, ChildEndsRows
<1>3. ASSUME NEW i \in Instances, Claim(i) PROVE ExecInv' /\ JobInv' /\ Quiet
  BY <1>3, ClaimRows
<1>4. ASSUME NEW i \in Instances, JobStep(i) PROVE ExecInv' /\ JobInv' /\ Quiet
  BY <1>4, JobStepRows
<1>5. ASSUME NEW i \in Instances, HandStep(i), ~ContinueRun(i) PROVE ExecInv' /\ JobInv' /\ Quiet
  <2>1. exec' = exec /\ told' = told /\ job' = job /\ run' = run
    BY <1>5 DEF HandStep, HandleNote, CheckStuck, ReadRun, FetchResults
  <2> QED
    BY <2>1, StillStep DEF Quiet
<1>6. ASSUME NEW i \in Instances, ContinueRun(i)
      PROVE  ExecInv' /\ JobInv' /\ RowsKept /\ run'.turn = run.turn
  <2>1. exec' = exec /\ job' = job /\ run'.turn = run.turn
    BY <1>6 DEF ContinueRun, Types
  <2> QED
    BY <2>1, StillStep
<1>7. ASSUME NEW i \in Instances, NEW j \in job[i], JobError(i, j)
      PROVE  ExecInv' /\ JobInv' /\ Quiet
  <2>1. /\ exec' = exec /\ told' = told /\ run' = run
        /\ \A k \in Instances : job'[k] \subseteq job[k]
    BY <1>7 DEF JobError, Ends, Types
  <2> QED
    BY <2>1, StillStep DEF Quiet
<1>8. ASSUME NEW i \in Instances, HandError(i) PROVE ExecInv' /\ JobInv' /\ Quiet
  <2>1. exec' = exec /\ told' = told /\ job' = job /\ run' = run
    BY <1>8 DEF HandError
  <2> QED
    BY <2>1, StillStep DEF Quiet
<1>9. ASSUME NEW i \in Instances, Crash(i) PROVE ExecInv' /\ JobInv' /\ Quiet
  <2>1. /\ exec' = exec /\ told' = told /\ run' = run
        /\ \A k \in Instances : job'[k] \subseteq job[k]
    BY <1>9 DEF Crash, Types
  <2> QED
    BY <2>1, StillStep DEF Quiet
<1>10. ASSUME NEW i \in Instances, DeleteInstance(i) PROVE ExecInv' /\ JobInv' /\ Quiet
  BY <1>10, DeleteRows
<1>11. ASSUME NEW i \in Instances, Restart(i) PROVE ExecInv' /\ JobInv' /\ Quiet
  <2>1. exec' = exec /\ told' = told /\ job' = job /\ run' = run
    BY <1>11 DEF Restart
  <2> QED
    BY <2>1, StillStep DEF Quiet
<1> QED
  BY <1>1, <1>2, <1>3, <1>4, <1>5, <1>6, <1>7, <1>8, <1>9, <1>10, <1>11 DEF Next, Quiet

-----------------------------------------------------------------------------
(* Answers *)

\* Asking and answering alternate.
LEMMA AnswersStep ==
    ASSUME Types, ExecInv, JobInv, Answers, [Next]_vars
    PROVE  Answers'
<1> USE DEF Answers, OneAnswerPerTurn
<1>0. run.turn \in Nat /\ Len(told) \in Nat /\ run.state \in {"away", "waiting", "over"}
  BY BoundsAssumption DEF Types
<1>1. CASE UNCHANGED vars
  BY <1>1 DEF vars
<1>2. ASSUME NEW i \in Instances, NEW S \in SUBSET Calls, Reply(i, S)
      PROVE  Answers'
  <2>1. /\ run' = [state |-> "waiting", turn |-> run.turn + 1, owner |-> i]
        /\ run.state = "away" /\ told' = told
    BY <1>2 DEF Reply
  <2> QED
    BY <1>0, <2>1
<1>3. CASE Quiet
  BY <1>0, <1>3 DEF Quiet
<1>4. ASSUME NEW i \in Instances, ContinueRun(i)
      PROVE  Answers'
  <2>1. CASE run.state = "waiting"
    <3>1. /\ told' = Append(told, [turn |-> hand[i].turn, calls |-> hand[i].seen])
          /\ run'.state = "away" /\ run'.turn = run.turn
      BY <1>4, <2>1 DEF ContinueRun, Types
    <3>2. Len(told') = Len(told) + 1
      BY <3>1 DEF Types
    <3> QED
      BY <1>0, <2>1, <3>1, <3>2
  <2>2. CASE run.state # "waiting"
    BY <1>4, <2>2 DEF ContinueRun
  <2> QED
    BY <2>1, <2>2
<1> QED
  BY <1>1, <1>2, <1>3, <1>4, OtherSteps

-----------------------------------------------------------------------------
(* Completions that are handled in time *)

\* Kept rows keep what was asked and what has ended.
LEMMA KeptTurns ==
    ASSUME Types, RowsKept, run'.turn = run.turn
    PROVE  /\ \A n \in 0 .. MaxTurns :
                {c \in Calls : n > 0 /\ exec'[n][c].state # "absent"} = Asked(n)
           /\ Asked(run.turn)' = Asked(run.turn)
           /\ HasEnded(run.turn) \subseteq HasEnded(run.turn)'
           /\ Done(run.turn) => Done(run.turn)'
<1>1. ASSUME NEW n \in 0 .. MaxTurns
      PROVE  /\ {c \in Calls : n > 0 /\ exec'[n][c].state # "absent"} = Asked(n)
             /\ HasEnded(n) \subseteq
                  {c \in Calls : n > 0 /\ exec'[n][c].state # "absent" /\ exec'[n][c].state \in Ended}
  <2>1. n > 0 => n \in Turns
    BY <1>1, BoundsAssumption DEF Turns
  <2> QED
    BY <2>1 DEF RowsKept, Onward, Asked, HasEnded
<1>2. run.turn \in 0 .. MaxTurns
  BY DEF Types
<1>4. Asked(run.turn)' = Asked(run.turn) /\ HasEnded(run.turn) \subseteq HasEnded(run.turn)'
  BY <1>1, <1>2 DEF Asked, HasEnded
<1>5. HasEnded(run.turn)' \subseteq Asked(run.turn)'
  BY DEF HasEnded
<1> QED
  BY <1>1, <1>4, <1>5 DEF Done

\* Nothing pending: all calls of every turn have ended.
LEMMA NothingPending ==
    ASSUME Types', Pending(exec') = {}
    PROVE  Done(run.turn)'
<1>1. ASSUME NEW c \in Calls, run'.turn > 0, exec'[run'.turn][c].state # "absent"
      PROVE  exec'[run'.turn][c].state \in Ended
  <2>1. run'.turn \in Turns /\ exec'[run'.turn][c] \in Execution
    BY <1>1, BoundsAssumption DEF Types, Turns
  <2> DEFINE x == <<run'.turn, c>>
  <2>2. x \in Turns \X Calls /\ x[1] = run'.turn /\ x[2] = c
    BY <2>1
  <2>3. exec'[x[1]][x[2]].state \notin Open
    BY <2>2 DEF Pending
  <2>4. exec'[run'.turn][c].state \notin Open
    BY <2>2, <2>3
  <2> QED
    BY <1>1, <2>1, <2>4 DEF Execution
<1> QED
  BY <1>1 DEF Done, HasEnded, Asked

\* How a step may change an instance's handler.
HandFits(k) ==
    \/ hand'[k] \in {hand[k], Idle}
    \/ hand'[k].pc \in {"read", "fetch"} /\ hand'[k].turn \in {hand[k].turn, run.turn}
       /\ (hand'[k].pc = "fetch" => hand'[k].turn = run.turn)
       /\ Done(run.turn)
    \/ hand[k].pc = "fetch" /\ hand'[k].pc = "continue" /\ hand'[k].turn = hand[k].turn
       /\ hand'[k].seen = HasEnded(hand[k].turn)

\* Notifications of kept rows and fitting handlers stay about the present turn.
LEMMA HeardKept ==
    ASSUME Types, Types', Heard, RowsKept, run'.turn = run.turn,
           run'.state = "waiting" => run.state = "waiting",
           \A k \in Instances : note'[k] > 0 => note[k] > 0 \/ Pending(exec') = {},
           \A k \in Instances : HandFits(k)
    PROVE  Heard'
<1>1. /\ Asked(run.turn)' = Asked(run.turn)
      /\ Done(run.turn) => Done(run.turn)'
  BY KeptTurns
<1>2. Pending(exec') = {} => Done(run.turn)'
  BY NothingPending
<1> SUFFICES ASSUME NEW k \in Instances
             PROVE  /\ note'[k] > 0 /\ run'.state = "waiting" => Done(run.turn)'
                    /\ hand'[k].pc # "idle" /\ run'.state = "waiting" => Done(run.turn)'
                    /\ hand'[k].pc \in {"fetch", "continue"} => hand'[k].turn = run'.turn
                    /\ hand'[k].pc = "continue" /\ run'.state = "waiting" =>
                         hand'[k].seen = Asked(run.turn)'
  BY DEF Heard
<1>3. /\ note[k] > 0 /\ run.state = "waiting" => Done(run.turn)
      /\ hand[k].pc # "idle" /\ run.state = "waiting" => Done(run.turn)
      /\ hand[k].pc \in {"fetch", "continue"} => hand[k].turn = run.turn
      /\ hand[k].pc = "continue" /\ run.state = "waiting" => hand[k].seen = Asked(run.turn)
  BY DEF Heard
<1>4. note'[k] > 0 /\ run'.state = "waiting" => Done(run.turn)'
  BY <1>1, <1>2, <1>3
<1>5. CASE hand'[k] = hand[k]
  BY <1>1, <1>3, <1>4, <1>5
<1>6. CASE hand'[k] = Idle
  BY <1>4, <1>6 DEF Idle
<1>7. CASE /\ hand'[k].pc \in {"read", "fetch"} /\ Done(run.turn)
           /\ hand'[k].pc = "fetch" => hand'[k].turn = run.turn
  BY <1>1, <1>4, <1>7
<1>8. CASE /\ hand[k].pc = "fetch" /\ hand'[k].pc = "continue" /\ hand'[k].turn = hand[k].turn
           /\ hand'[k].seen = HasEnded(hand[k].turn)
  BY <1>1, <1>3, <1>4, <1>8 DEF Done
<1> QED
  BY <1>5, <1>6, <1>7, <1>8 DEF HandFits

\* Who hears of a completion hears it when nothing is pending any more.
LEMMA NotifyFits ==
    ASSUME Types, Notify, NEW k \in Instances, note'[k] > 0
    PROVE  note[k] > 0 \/ Pending(exec') = {}
<1>1. CASE Announced
  BY <1>1 DEF Announced
<1>2. CASE ~Announced
  BY <1>2 DEF Notify
<1> QED
  BY <1>1, <1>2

\* The handler moves from notification to results to the run.
LEMMA HandStepFits ==
    ASSUME Types, Heard, NEW i \in Instances, HandStep(i)
    PROVE  /\ \A k \in Instances : HandFits(k)
           /\ \A k \in Instances : note'[k] > 0 => note[k] > 0
<1>1. CASE HandleNote(i)
  <2>1. run.state = "waiting" => Done(run.turn)
    BY <1>1 DEF HandleNote, Heard
  <2>2. hand' = [hand EXCEPT ![i] = IF run.state = "waiting"
                   THEN [pc |-> "fetch", turn |-> run.turn, seen |-> {}] ELSE Idle]
    BY <1>1 DEF HandleNote, Enter
  <2>3. note' = [note EXCEPT ![i] = @ - 1]
    BY <1>1 DEF HandleNote
  <2> QED
    BY <2>1, <2>2, <2>3 DEF HandFits, Types
<1>2. CASE CheckStuck(i)
  <2>1. Done(run.turn) /\ note' = note /\ hand' = [hand EXCEPT ![i].pc = "read"]
    BY <1>2 DEF CheckStuck, Done
  <2> QED
    BY <2>1 DEF HandFits, Types, Hand
<1>3. CASE ReadRun(i)
  <2>1. run.state = "waiting" => Done(run.turn)
    BY <1>3 DEF ReadRun, Heard
  <2>2. hand' = [hand EXCEPT ![i] = IF run.state = "waiting"
                   THEN [pc |-> "fetch", turn |-> run.turn, seen |-> {}] ELSE Idle]
    BY <1>3 DEF ReadRun, Enter
  <2>3. note' = note
    BY <1>3 DEF ReadRun
  <2> QED
    BY <2>1, <2>2, <2>3 DEF HandFits, Types
<1>4. CASE FetchResults(i)
  <2>1. /\ hand[i].pc = "fetch" /\ note' = note
        /\ hand' = [hand EXCEPT ![i] = [hand[i] EXCEPT !.pc = "continue",
                                                       !.seen = HasEnded(hand[i].turn)]]
    BY <1>4 DEF FetchResults, Types
  <2>2. hand[i] \in Hand
    BY DEF Types
  <2>3. /\ hand'[i].pc = "continue" /\ hand'[i].turn = hand[i].turn
        /\ hand'[i].seen = HasEnded(hand[i].turn)
    BY <2>1, <2>2 DEF Types, Hand
  <2> QED
    BY <2>1, <2>3 DEF HandFits, Types
<1>5. CASE ContinueRun(i)
  <2>1. note' = note /\ hand' = [hand EXCEPT ![i] = Idle]
    BY <1>5 DEF ContinueRun
  <2> QED
    BY <2>1 DEF HandFits, Types
<1> QED
  BY <1>1, <1>2, <1>3, <1>4, <1>5 DEF HandStep

\* The steps that do not ask for tools leave notifications and handlers fitting.
LEMMA OtherFits ==
    ASSUME Types, Heard, Next,
           \A i \in Instances, S \in SUBSET Calls : ~Reply(i, S)
    PROVE  /\ \A k \in Instances : HandFits(k)
           /\ \A k \in Instances : note'[k] > 0 => note[k] > 0 \/ Pending(exec') = {}
<1> DEFINE Fits == /\ \A k \in Instances : HandFits(k)
                   /\ \A k \in Instances : note'[k] > 0 => note[k] > 0 \/ Pending(exec') = {}
<1>1. ASSUME hand' = hand, note' = note PROVE Fits
  BY <1>1 DEF HandFits
<1>2. ASSUME hand' = hand, Notify PROVE Fits
  BY <1>2, NotifyFits DEF HandFits
<1>3. CASE Finish
  BY <1>1, <1>3 DEF Finish
<1>4. ASSUME NEW n \in Turns, NEW c \in Calls, ChildEnds(n, c) PROVE Fits
  BY <1>2, <1>4 DEF ChildEnds
<1>5. ASSUME NEW i \in Instances, Claim(i) PROVE Fits
  BY <1>1, <1>5 DEF Claim
<1>6. ASSUME NEW i \in Instances, JobStep(i) PROVE Fits
  BY <1>1, <1>2, <1>6
    DEF JobStep, Start, ToolReturns, Discard, ToolErrs, Snooze, CreateChild, Return
<1>7. ASSUME NEW i \in Instances, HandStep(i) PROVE Fits
  BY <1>7, HandStepFits
<1>8. ASSUME NEW i \in Instances, NEW j \in job[i], JobError(i, j) PROVE Fits
  BY <1>1, <1>8 DEF JobError
<1>9. ASSUME NEW i \in Instances, HandError(i) PROVE Fits
  BY <1>9 DEF HandError, HandFits, Types
<1>10. ASSUME NEW i \in Instances, Crash(i) PROVE Fits
  BY <1>10 DEF Crash, HandFits, Types
<1>11. ASSUME NEW i \in Instances, DeleteInstance(i) PROVE Fits
  BY <1>2, <1>11 DEF DeleteInstance
<1>12. ASSUME NEW i \in Instances, Restart(i) PROVE Fits
  BY <1>1, <1>12 DEF Restart
<1> QED
  BY <1>3, <1>4, <1>5, <1>6, <1>7, <1>8, <1>9, <1>10, <1>11, <1>12 DEF Next

\* A turn is asked for when nothing of the turns before is under way.
LEMMA PromptReply ==
    ASSUME Types, ExecInv, JobInv, Answers, Prompt, "late" \notin Faults,
           NEW i \in Instances, NEW S \in SUBSET Calls, Reply(i, S)
    PROVE  Prompt'
<1>1. /\ run.turn + 1 \in Turns
      /\ run' = [state |-> "waiting", turn |-> run.turn + 1, owner |-> i]
      /\ \A n \in Turns, c \in Calls : n # run.turn + 1 => exec'[n][c] = exec[n][c]
      /\ \A c \in Calls : exec'[run.turn + 1][c] =
                            IF c \in S THEN [Absent EXCEPT !.state = "pending"] ELSE Absent
  BY ReplyRows
<1>2. run.state = "away" /\ S # {} /\ Settled /\ note' = note /\ hand' = hand /\ told' = told
  BY DEF Reply
<1>3. run'.turn = run.turn + 1 /\ run.turn \in Nat /\ run'.turn > 0
  BY <1>1, BoundsAssumption DEF Types
<1>4. AskedSome'
  <2>1. PICK c \in S : TRUE
    BY <1>2
  <2>2. exec'[run'.turn][c].state = "pending"
    BY <1>1, <1>3, <2>1 DEF Absent
  <2> QED
    BY <1>3, <2>1, <2>2 DEF AskedSome, Asked
<1>5. Heard'
  BY <1>2 DEF Heard, Settled
<1>6. AnswersComplete'
  <2>1. Len(told) = run.turn
    BY <1>2 DEF Answers, OneAnswerPerTurn
  <2>2. ASSUME NEW k \in 1 .. Len(told)
        PROVE  told[k] = [turn |-> k, calls |-> {c \in Calls : k > 0 /\ exec'[k][c].state # "absent"}]
    <3>1. told[k] = [turn |-> k, calls |-> Asked(k)]
      BY DEF Prompt, AnswersComplete
    <3>2. k \in Turns /\ k # run.turn + 1
      BY <1>1, <1>3, <2>1, BoundsAssumption DEF Turns
    <3>3. \A c \in Calls : exec'[k][c] = exec[k][c]
      BY <1>1, <3>2
    <3> QED
      BY <3>1, <3>3 DEF Asked
  <2> QED
    BY <1>2, <2>2 DEF AnswersComplete, Asked
<1> QED
  BY <1>4, <1>5, <1>6 DEF Prompt

\* Between a turn's completion and its answer nothing is asked, so what a handler has
\* read is still the present turn, complete, when it is stored.
LEMMA PromptStep ==
    ASSUME Types, Types', ExecInv, JobInv, Answers, Prompt, "late" \notin Faults, [Next]_vars
    PROVE  Prompt'
<1>0. AskedSome /\ Heard /\ AnswersComplete
  BY DEF Prompt
<1>1. CASE UNCHANGED vars
  BY <1>1 DEF vars, Prompt, AskedSome, Heard, AnswersComplete, Done, Asked, HasEnded
<1>2. ASSUME NEW i \in Instances, NEW S \in SUBSET Calls, Reply(i, S) PROVE Prompt'
  BY <1>2, PromptReply
<1>3. CASE Next /\ \A i \in Instances, S \in SUBSET Calls : ~Reply(i, S)
  <2>1. /\ RowsKept /\ run'.turn = run.turn
        /\ Quiet \/ (\E i \in Instances : ContinueRun(i))
    BY <1>3, OtherSteps
  <2>2. run'.state = "waiting" => run.state = "waiting"
    <3>1. ASSUME NEW i \in Instances, ContinueRun(i) PROVE run'.state \in {run.state, "away"}
      BY <3>1 DEF ContinueRun, Types
    <3> QED
      BY <2>1, <3>1 DEF Quiet
  <2> DEFINE A(n) == {c \in Calls : n > 0 /\ exec'[n][c].state # "absent"}
  <2>3. /\ \A n \in 0 .. MaxTurns : A(n) = Asked(n)
        /\ Asked(run.turn)' = Asked(run.turn)
    BY <2>1, KeptTurns
  <2>4. AskedSome'
    BY <1>0, <2>1, <2>2, <2>3 DEF AskedSome
  <2>5. Heard'
    BY <1>0, <1>3, <2>1, <2>2, OtherFits, HeardKept
  <2>6. /\ Len(told) \in Nat /\ run.turn \in 0 .. MaxTurns /\ MaxTurns \in Nat
        /\ Len(told) <= run.turn
    BY BoundsAssumption DEF Types, Answers
  <2> HIDE DEF A
  <2>7. \A k \in 1 .. Len(told) : told[k] = [turn |-> k, calls |-> A(k)]
    <3>1. \A k \in 1 .. Len(told) : k \in 0 .. MaxTurns
      BY <2>6
    <3> QED
      BY <1>0, <2>3, <3>1 DEF AnswersComplete
  <2>8. ASSUME NEW i \in Instances, ContinueRun(i), told' # told
        PROVE  \A k \in 1 .. Len(told') : told'[k] = [turn |-> k, calls |-> A(k)]
    <3> DEFINE m == [turn |-> Len(told) + 1, calls |-> A(Len(told) + 1)]
    <3>1. /\ told' = Append(told, [turn |-> hand[i].turn, calls |-> hand[i].seen])
          /\ run.state = "waiting" /\ hand[i].pc = "continue"
      BY <2>8 DEF ContinueRun
    <3>2. hand[i].turn = run.turn /\ hand[i].seen = A(run.turn)
      BY <1>0, <2>3, <2>6, <3>1 DEF Heard
    <3>3. run.turn = Len(told) + 1
      BY <2>6, <3>1 DEF Answers, OneAnswerPerTurn
    <3>4. told' = Append(told, m)
      BY <3>1, <3>2, <3>3
    <3> HIDE DEF m
    <3>5. /\ Len(told') = Len(told) + 1 /\ told'[Len(told) + 1] = m
          /\ \A k \in 1 .. Len(told) : told'[k] = told[k]
      BY <3>4 DEF Types
    <3>6. \A k \in 1 .. Len(told') : k \in 1 .. Len(told) \/ k = Len(told) + 1
      BY <2>6, <3>5
    <3> QED
      BY <2>7, <3>5, <3>6 DEF m
  <2>9. told' = told \/ (\E i \in Instances : ContinueRun(i))
    BY <2>1 DEF Quiet
  <2>10. \A k \in 1 .. Len(told') : told'[k] = [turn |-> k, calls |-> A(k)]
    BY <2>7, <2>8, <2>9
  <2>11. AnswersComplete'
    BY <2>10 DEF AnswersComplete, Asked, A
  <2> QED
    BY <2>4, <2>5, <2>11 DEF Prompt
<1> QED
  BY <1>1, <1>2, <1>3

-----------------------------------------------------------------------------
(* The invariant and what follows from it *)

\* The invariant holds at the start.
LEMMA IndInvInit == Init => IndInv
<1> SUFFICES ASSUME Init PROVE IndInv
  OBVIOUS
<1> USE DEF Init
<1>1. Absent \in Execution /\ Good(Absent)
  BY BoundsAssumption DEF Absent, Execution, Good, Consistent, Ended
<1>2. Types
  <2>1. told \in Seq([turn : 0 .. MaxTurns, calls : SUBSET Calls])
    OBVIOUS
  <2>2. Idle \in Hand
    BY BoundsAssumption DEF Idle, Hand
  <2>3. run \in [state : {"away", "waiting", "over"}, turn : 0 .. MaxTurns,
                 owner : Instances \cup {None}]
    BY BoundsAssumption
  <2> QED
    BY <1>1, <2>1, <2>2, <2>3 DEF Types
<1>3. ExecInv
  BY <1>1 DEF ExecInv
<1>4. JobInv
  BY DEF JobInv
<1>5. Answers
  BY DEF Answers, OneAnswerPerTurn
<1>6. Prompt
  <2>1. \A i \in Instances : note[i] = 0 /\ hand[i].pc = "idle"
    BY DEF Idle
  <2>2. Heard /\ AskedSome
    BY <2>1 DEF Heard, AskedSome
  <2>3. AnswersComplete
    BY DEF AnswersComplete
  <2> QED
    BY <2>2, <2>3 DEF Prompt
<1> QED
  BY <1>2, <1>3, <1>4, <1>5, <1>6 DEF IndInv

\* Every step keeps it.
LEMMA IndInvStep == IndInv /\ [Next]_vars => IndInv'
<1> SUFFICES ASSUME IndInv, [Next]_vars PROVE IndInv'
  OBVIOUS
<1>1. Types /\ ExecInv /\ JobInv /\ Answers /\ ("late" \notin Faults => Prompt)
  BY DEF IndInv
<1>2. Types'
  BY <1>1, TypesStep
<1>3. ExecInv' /\ JobInv'
  <2>1. CASE UNCHANGED vars
    BY <1>1, <2>1, StillStep DEF vars
  <2>2. ASSUME NEW i \in Instances, NEW S \in SUBSET Calls, Reply(i, S) PROVE ExecInv' /\ JobInv'
    BY <1>1, <2>2, ReplyRows
  <2>3. CASE Next /\ \A i \in Instances, S \in SUBSET Calls : ~Reply(i, S)
    BY <1>1, <2>3, OtherSteps
  <2> QED
    BY <2>1, <2>2, <2>3
<1>4. Answers'
  BY <1>1, AnswersStep
<1>5. "late" \notin Faults => Prompt'
  BY <1>1, <1>2, PromptStep
<1> QED
  BY <1>2, <1>3, <1>4, <1>5 DEF IndInv

\* The inductive invariant holds in every reachable state: good rows, goroutines that
\* belong to the last claim of their row, alternating turns and answers.
THEOREM IndInvHolds == Spec => []IndInv
  BY IndInvInit, IndInvStep, PTL DEF Spec

\* Type correctness: every table and every process keeps its type, and every row the
\* CHECK on completed_at.
THEOREM TypeCorrect == Spec => []TypeOK
<1>1. IndInv => TypeOK
  <2> SUFFICES ASSUME IndInv PROVE TypeOK
    OBVIOUS
  <2>1. RowsOK
    BY DEF IndInv, ExecInv, Good, RowsOK
  <2> QED
    BY <2>1 DEF IndInv, Types, TypeOK
<1> QED
  BY <1>1, IndInvHolds, PTL

\* The user's tool never runs twice at the same time for one call: whatever is retried,
\* snoozed, deleted or restarted, the claim of the row keeps goroutines apart.
THEOREM OneGoroutineEach == Spec => []OneGoroutine
<1>1. IndInv => OneGoroutine
  <2> SUFFICES ASSUME IndInv, NEW i \in Instances, NEW k \in Instances,
                      NEW j \in job[i], NEW l \in job[k]
               PROVE  /\ Row(j).state # "pending"
                      /\ j.turn = l.turn /\ j.call = l.call => i = k /\ j = l
    BY DEF OneGoroutine
  <2>1. Types /\ ExecInv /\ JobInv
    BY DEF IndInv
  <2>2. /\ j \in Job /\ Good(Row(j)) /\ Row(j).owner = i /\ i # None /\ Row(j).attempts = j.attempt
        /\ l \in Job /\ Row(l).owner = k /\ Row(l).attempts = l.attempt
    BY <2>1, JobRow
  <2>3. Row(j).state # "pending"
    BY <2>2 DEF Good
  <2>4. ASSUME j.turn = l.turn, j.call = l.call PROVE i = k /\ j = l
    <3>1. Row(j) = Row(l)
      BY <2>4 DEF Row
    <3> QED
      BY <2>2, <2>4, <3>1 DEF Job
  <2> QED
    BY <2>3, <2>4
<1> QED
  BY <1>1, IndInvHolds, PTL

\* No tool is attempted more often than max_attempts says, snoozes notwithstanding, and a
\* goroutine decides by a count that is still the row's.
THEOREM AttemptsStayBounded == Spec => []AttemptsBounded
<1>1. IndInv => AttemptsBounded
  BY DEF IndInv, ExecInv, JobInv, Good, AttemptsBounded
<1> QED
  BY <1>1, IndInvHolds, PTL

\* Every turn is answered once, by whichever instance is first: the procedure that stores
\* the results asks whether the run still waits.
THEOREM TurnsAnsweredOnce == Spec => []OneAnswerPerTurn
<1>1. IndInv => OneAnswerPerTurn
  BY DEF IndInv, Answers
<1> QED
  BY <1>1, IndInvHolds, PTL

\* An execution that has ended is not opened again, by an instance that outlives its row
\* in agentpg_instances or by anyone else.
THEOREM FinishedIsFinal == Spec => FinishedStaysFinished
<1>1. IndInv /\ [Next]_vars =>
        [\A n \in Turns, c \in Calls :
           exec[n][c].state \in Ended => exec'[n][c].state \in Ended]_vars
  <2> SUFFICES ASSUME IndInv, Next, NEW n \in Turns, NEW c \in Calls, exec[n][c].state \in Ended
               PROVE  exec'[n][c].state \in Ended
    OBVIOUS
  <2>1. Types /\ ExecInv /\ JobInv
    BY DEF IndInv
  <2>2. ASSUME NEW i \in Instances, NEW S \in SUBSET Calls, Reply(i, S)
        PROVE  exec'[n][c].state \in Ended
    <3>1. /\ n # run.turn + 1 => exec'[n][c] = exec[n][c]
          /\ n = run.turn + 1 => exec[n][c] = Absent
      BY <2>1, <2>2, ReplyRows
    <3> QED
      BY <3>1 DEF Absent, Ended
  <2>3. CASE \A i \in Instances, S \in SUBSET Calls : ~Reply(i, S)
    BY <2>1, <2>3, OtherSteps DEF RowsKept, Onward
  <2> QED
    BY <2>2, <2>3
<1> QED
  BY <1>1, IndInvHolds, PTL DEF Spec, FinishedStaysFinished

\* The messages told to the model are the complete results of the turns, in order, unless
\* a completion is handled after the model has replied to the next turn ("late"): the
\* procedure that stores the results does not ask which iteration they are from.
THEOREM AnswersAreComplete ==
    ASSUME "late" \notin Faults
    PROVE  Spec => []AnswersComplete
<1>1. IndInv => AnswersComplete
  BY DEF IndInv, Prompt
<1> QED
  BY <1>1, IndInvHolds, PTL

-----------------------------------------------------------------------------
(* The tool workers implement ToolTurns *)

\* Initial states map to initial states.
LEMMA PromiseInit == Init => Promise!Init
  BY DEF Init, Promise!Init, Asked, HasEnded

\* Replies are Ask, accepted answers are Answer, and every other step is End, Stop or
\* a stutter: it depends only on what it does to the rows of the turn.
LEMMA PromiseStep ==
    ASSUME IndInv, "late" \notin Faults, [Next]_vars
    PROVE  [Promise!Next]_(Promise!vars)
<1>0. Types /\ ExecInv /\ JobInv /\ Answers /\ Prompt /\ AskedSome /\ Heard
  BY DEF IndInv, Prompt
<1>1. CASE UNCHANGED vars
  BY <1>1 DEF vars, Promise!vars, Asked, HasEnded
<1>2. ASSUME NEW i \in Instances, NEW S \in SUBSET Calls, Reply(i, S)
      PROVE  Promise!Ask
  <2>1. /\ run.turn + 1 \in Turns
        /\ run' = [state |-> "waiting", turn |-> run.turn + 1, owner |-> i]
        /\ \A c \in Calls : exec'[run.turn + 1][c] =
                              IF c \in S THEN [Absent EXCEPT !.state = "pending"] ELSE Absent
    BY <1>0, <1>2, ReplyRows
  <2>2. run.state = "away" /\ run.turn < MaxTurns /\ S # {} /\ told' = told
    BY <1>2 DEF Reply
  <2>3. run'.turn = run.turn + 1 /\ run'.turn > 0 /\ run'.state = "waiting"
    BY <2>1, BoundsAssumption DEF Turns
  <2>4. \A c \in Calls : exec'[run'.turn][c].state = IF c \in S THEN "pending" ELSE "absent"
    BY <2>1, <2>3 DEF Absent
  <2>5. Asked(run.turn)' = S
    BY <2>3, <2>4 DEF Asked
  <2>6. HasEnded(run.turn)' = {}
    BY <2>3, <2>4 DEF HasEnded, Asked, Ended
  <2> QED
    BY <2>2, <2>3, <2>5, <2>6 DEF Promise!Ask
<1>3. CASE Next /\ \A i \in Instances, S \in SUBSET Calls : ~Reply(i, S)
  <2>1. /\ RowsKept /\ run'.turn = run.turn
        /\ Quiet \/ (\E i \in Instances : ContinueRun(i))
    BY <1>0, <1>3, OtherSteps
  <2> DEFINE more == HasEnded(run.turn)' \ HasEnded(run.turn)
  <2>2. /\ Asked(run.turn)' = Asked(run.turn)
        /\ HasEnded(run.turn) \subseteq HasEnded(run.turn)'
    BY <1>0, <2>1, KeptTurns
  <2>3. HasEnded(run.turn)' \subseteq Asked(run.turn)' /\ Asked(run.turn) \subseteq Calls
    BY DEF HasEnded, Asked
  <2>4. CASE Quiet
    <3>1. told' = told /\ run'.state \in {run.state, "over"}
      BY <2>4 DEF Quiet
    <3>2. CASE more # {}
      <4>1. /\ more \in SUBSET (Asked(run.turn) \ HasEnded(run.turn))
            /\ HasEnded(run.turn)' = HasEnded(run.turn) \cup more
        BY <2>2, <2>3
      <4>2. Promise!End
        BY <2>1, <2>2, <3>1, <3>2, <4>1 DEF Promise!End
      <4> QED
        BY <4>2 DEF Promise!Next
    <3>3. CASE more = {}
      <4>1. HasEnded(run.turn)' = HasEnded(run.turn)
        BY <2>2, <3>3
      <4> QED
        BY <2>1, <2>2, <3>1, <4>1 DEF Promise!Next, Promise!Stop, Promise!vars
    <3> QED
      BY <3>2, <3>3
  <2>5. ASSUME NEW i \in Instances, ContinueRun(i), run.state = "waiting" PROVE Promise!Answer
    <3>1. /\ hand[i].pc = "continue" /\ exec' = exec
          /\ told' = Append(told, [turn |-> hand[i].turn, calls |-> hand[i].seen])
          /\ run'.state = "away"
      BY <1>0, <2>5 DEF ContinueRun, Types
    <3>2. hand[i].turn = run.turn /\ hand[i].seen = Asked(run.turn)
          /\ HasEnded(run.turn) = Asked(run.turn)
      BY <1>0, <2>5, <3>1 DEF Heard, Done
    <3>3. HasEnded(run.turn)' = HasEnded(run.turn)
      BY <2>2, <2>3, <3>2
    <3> QED
      BY <2>1, <2>2, <2>5, <3>1, <3>2, <3>3 DEF Promise!Answer
  <2>6. ASSUME NEW i \in Instances, ContinueRun(i), run.state # "waiting"
        PROVE  UNCHANGED Promise!vars
    <3>1. run' = run /\ exec' = exec /\ told' = told
      BY <2>6 DEF ContinueRun
    <3> QED
      BY <3>1 DEF Promise!vars, Asked, HasEnded
  <2> QED
    BY <2>1, <2>4, <2>5, <2>6 DEF Promise!Next
<1> QED
  BY <1>1, <1>2, <1>3 DEF Promise!Next

\* Unless completions are handled late, the rows, claims, goroutines, notifications and
\* handlers of all instances implement the turns and answers of ToolTurns.
THEOREM ToolTurnsImplemented ==
    ASSUME "late" \notin Faults
    PROVE  Spec => Promise!Spec
<1>1. Init => Promise!Init
  BY PromiseInit
<1>2. IndInv /\ [Next]_vars => [Promise!Next]_(Promise!vars)
  BY PromiseStep
<1> QED
  BY <1>1, <1>2, IndInvHolds, PTL DEF Spec, Promise!Spec
=============================================================================
