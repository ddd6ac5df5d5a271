------------------------ MODULE RunOwnership_proofs ------------------------
(***************************************************************************)
(* Proofs about RunLifecycle where no run is rescued and some faults are   *)
(* excluded: who works on a run, what he finds in its conversation, that   *)
(* its end is final, and that somebody will still move it.  RunLifecycle   *)
(* shows each of these properties broken where a fault is added, so the    *)
(* hypotheses say what the system relies on.                               *)
(***************************************************************************)
EXTENDS RunLifecycle_proofs, FiniteSetTheorems

\* No rescuer leads, or none has an attempt left.
Unrescued == MayLead = {} \/ MaxRescue = 0

NoneStuck == \A i \in Instances : stuck[i] = {}

-----------------------------------------------------------------------------
(* Who works on a run.                                                     *)

Held(i, m, r) == work[i][m].run = r \/ \E t \in work[i][m].queue : t.run = r

Free(r) == \A i \in Instances, m \in Modes : ~Held(i, m, r)

\* The poller has read the end of the batch.
Handling == {"fetch", "respond", "settle", "fail"}

\* The iteration is with the API, or with the poller that found it ended.
Engaged(r, n) ==
    \/ status[r][n] = "in_progress"
    \/ \E i \in Instances : poll[i].pc \in Handling /\ poll[i].run = r /\ poll[i].iter = n

Batching == {"batch_submitting", "batch_pending", "batch_processing"}
ClaimedState(m) == IF m = "batch" THEN "batch_submitting" ELSE "streaming"

\* The control points of the two modes.
Suits(pc, m) ==
    /\ pc \in {"submit", "record", "advance"} => m = "batch"
    /\ pc \in {"begin", "stream", "respond", "settle"} => m = "streaming"

\* A worker does what its mode asks for, and holds a run once.
Hands ==
    \A i \in Instances, m \in Modes :
        /\ work[i][m].pc = "idle" => work[i][m].run = None
        /\ Suits(work[i][m].pc, m)
        /\ \A t \in work[i][m].queue : t.run # work[i][m].run
        /\ \A t, u \in work[i][m].queue : t.run = u.run => t = u

\* The row names who holds the run, and it has the state of its claim.
Claims ==
    \A i \in Instances, m \in Modes, r \in Runs : Held(i, m, r) =>
        /\ run[r].claimed = i /\ RunMode[r] = m
        /\ IsTerminal(r) \/ run[r].state = ClaimedState(m)

\* The API answers batch runs that somebody has claimed, ...
Submitted ==
    \A r \in Runs, n \in Iters : Engaged(r, n) =>
        /\ RunMode[r] = "batch" /\ run[r].claimed # None
        /\ IsTerminal(r) \/ run[r].state \in Batching

\* ... one iteration of each at a time, ...
OneEngaged == \A r \in Runs, n, k \in Iters : Engaged(r, n) /\ Engaged(r, k) => n = k

\* ... and a worker that still holds the run only has to write that.
Waiting ==
    \A i \in Instances, m \in Modes, r \in Runs, n \in Iters : Held(i, m, r) /\ Engaged(r, n) =>
        /\ work[i][m].run = r /\ work[i][m].base + 1 = n
        /\ work[i][m].pc = "advance" \/ (work[i][m].pc = "fail" /\ IsTerminal(r))

\* Until it has, the batch does not end.
Unanswered ==
    \A i \in Instances, m \in Modes : work[i][m].pc \in {"record", "advance"} =>
        api[work[i][m].run][work[i][m].base + 1] \in {"running", "canceling", "lost"}

\* A poller has what is in progress under its instance's claim, once, and decides on
\* it when no worker holds the run.
PollerOwns(i) ==
    /\ \A p \in poll[i].list : status[p[1]][p[2]] = "in_progress" /\ run[p[1]].claimed = i
    /\ poll[i].pc # "idle" =>
          /\ <<poll[i].run, poll[i].iter>> \notin poll[i].list
          /\ run[poll[i].run].claimed = i
          /\ status[poll[i].run][poll[i].iter] =
                IF poll[i].pc \in Handling THEN "ended" ELSE "in_progress"
          /\ poll[i].pc \in {"mark", "respond", "settle", "fail"} =>
                IsTerminal(poll[i].run) \/ Free(poll[i].run)
Polling == \A i \in Instances : PollerOwns(i)

Own == Hands /\ Claims /\ Submitted /\ OneEngaged /\ Waiting /\ Unanswered /\ Polling

OwnInv == IndInv /\ NoneStuck /\ Own

-----------------------------------------------------------------------------
(* What follows from the invariant. *)

\* What notifications do, where the invariant holds.
LEMMA NoteSteps ==
    ASSUME OwnInv, NEW r \in Runs, Noted(r)
    PROVE  /\ UNCHANGED <<status, api, open, work, poll, stuck, up, row>>
           /\ UNCHANGED <<run, conv>> \/ Continuing(r)
  BY NotedMoves DEF OwnInv, IndInv, TypeOK, Assigned

\* A run has one holder.
LEMMA HeldOnce ==
    ASSUME Claims, NEW i \in Instances, NEW j \in Instances, NEW m \in Modes, NEW k \in Modes,
           NEW r \in Runs, Held(i, m, r), Held(j, k, r)
    PROVE  i = j /\ m = k
  BY DEF Claims

\* What a worker at work and the entries of its queue are.
LEMMA Holding ==
    ASSUME Types, Assigned, NEW i \in Instances, NEW m \in Modes
    PROVE  /\ work[i][m].pc # "idle" => work[i][m].run \in Runs /\ Held(i, m, work[i][m].run)
           /\ \A t \in work[i][m].queue : t.run \in Runs /\ Held(i, m, t.run)
  BY WorkerTask DEF Held, Types, Worker, Task

\* A poller at work has an engaged iteration.
LEMMA PollerEngaged ==
    ASSUME Types, Assigned, Polling, NEW i \in Instances, poll[i].pc # "idle"
    PROVE  /\ poll[i].run \in Runs /\ poll[i].iter \in Iters
           /\ Engaged(poll[i].run, poll[i].iter)
           /\ run[poll[i].run].claimed = i
<1>1. poll[i].run \in Runs /\ poll[i].iter \in Iters
  BY PollerTask
<1>2. PollerOwns(i)
  BY DEF Polling
<1> QED
  BY <1>1, <1>2 DEF PollerOwns, Engaged

\* So has each entry of its list.
LEMMA ListEngaged ==
    ASSUME Types, Polling, NEW i \in Instances, NEW p \in poll[i].list
    PROVE  /\ p[1] \in Runs /\ p[2] \in Iters /\ p = <<p[1], p[2]>>
           /\ Engaged(p[1], p[2]) /\ run[p[1]].claimed = i
<1>1. p \in Runs \X Iters
  BY DEF Types, Poller
<1>2. PollerOwns(i)
  BY DEF Polling
<1> QED
  BY <1>1, <1>2 DEF PollerOwns, Engaged

\* An engaged iteration has one poller.
LEMMA PolledOnce ==
    ASSUME Types, Assigned, Polling, NEW i \in Instances, NEW j \in Instances,
           poll[i].pc # "idle", poll[j].pc # "idle", poll[i].run = poll[j].run
    PROVE  i = j
  BY PollerEngaged

-----------------------------------------------------------------------------
(* Steps that take no run and engage no iteration.                         *)

HeldFewer == \A i \in Instances, m \in Modes, r \in Runs : Held(i, m, r)' => Held(i, m, r)
EngagedFewer == \A r \in Runs, n \in Iters : Engaged(r, n)' => Engaged(r, n)

SameClaim(r) == run'[r].claimed = run[r].claimed

\* The row goes on or ends, unless nobody holds the run then.
RowFits(r) ==
    \/ SameClaim(r) /\ (run'[r].state = run[r].state \/ run'[r].state \in Terminal)
    \/ /\ Free(r)'
       /\ \/ SameClaim(r) /\ run'[r].state \in Batching
          \/ \A n \in Iters : ~Engaged(r, n)'
RowsFit == \A r \in Runs : RowFits(r)

\* A worker that has to write a submitted batch stays there, or gives the run up.
WorkFits ==
    \A i \in Instances, m \in Modes, r \in Runs :
        work[i][m].run = r /\ work[i][m].pc \in {"advance", "fail"} /\ Held(i, m, r)' =>
            /\ work'[i][m].run = r /\ work'[i][m].base = work[i][m].base
            /\ \/ work'[i][m].pc = work[i][m].pc
               \/ work'[i][m].pc = "fail" /\ run'[r].state \in Terminal

\* Such a step keeps the claims and the engagements.
LEMMA FewerKeeps ==
    ASSUME OwnInv, RowsKept, HeldFewer, EngagedFewer, RowsFit, WorkFits
    PROVE  Claims' /\ Submitted' /\ OneEngaged' /\ Waiting'
<1> USE DEF OwnInv, Own
<1>1. Claims'
  <2>1. ASSUME NEW i \in Instances, NEW m \in Modes, NEW r \in Runs, Held(i, m, r)'
        PROVE  /\ run'[r].claimed = i /\ RunMode[r] = m
               /\ run'[r].state \in Terminal \/ run'[r].state = ClaimedState(m)
    <3>1. Held(i, m, r) /\ ~Free(r)' /\ RowFits(r)
      BY <2>1 DEF HeldFewer, RowsFit, Free
    <3>2. /\ run[r].claimed = i /\ RunMode[r] = m
          /\ IsTerminal(r) \/ run[r].state = ClaimedState(m)
      BY <3>1 DEF Claims
    <3> QED
      BY <3>1, <3>2 DEF RowFits, SameClaim, RowsKept, IsTerminal
  <2> QED
    BY <2>1 DEF Claims, ClaimedState, IsTerminal
<1>2. Submitted'
  <2>1. ASSUME NEW r \in Runs, NEW n \in Iters, Engaged(r, n)'
        PROVE  /\ RunMode[r] = "batch" /\ run'[r].claimed # None
               /\ run'[r].state \in Terminal \/ run'[r].state \in Batching
    <3>1. Engaged(r, n) /\ RowFits(r)
      BY <2>1 DEF EngagedFewer, RowsFit
    <3>2. /\ RunMode[r] = "batch" /\ run[r].claimed # None
          /\ IsTerminal(r) \/ run[r].state \in Batching
      BY <3>1 DEF Submitted
    <3> QED
      BY <2>1, <3>1, <3>2 DEF RowFits, SameClaim, RowsKept, IsTerminal
  <2> QED
    BY <2>1 DEF Submitted, IsTerminal
<1>3. OneEngaged'
  BY DEF OneEngaged, EngagedFewer
<1>4. Waiting'
  <2>1. ASSUME NEW i \in Instances, NEW m \in Modes, NEW r \in Runs, NEW n \in Iters,
               Held(i, m, r)', Engaged(r, n)'
        PROVE  /\ work'[i][m].run = r /\ work'[i][m].base + 1 = n
               /\ work'[i][m].pc = "advance" \/ (work'[i][m].pc = "fail" /\ run'[r].state \in Terminal)
    <3>1. /\ work[i][m].run = r /\ work[i][m].base + 1 = n
          /\ work[i][m].pc = "advance" \/ (work[i][m].pc = "fail" /\ IsTerminal(r))
      BY <2>1 DEF HeldFewer, EngagedFewer, Waiting
    <3> QED
      BY <2>1, <3>1 DEF WorkFits, RowsKept, IsTerminal
  <2> QED
    BY <2>1 DEF Waiting, IsTerminal
<1> QED
  BY <1>1, <1>2, <1>3, <1>4

\* What pollers rely on while others act.
PollersUndisturbed ==
    /\ \A r \in Runs, n \in Iters : Engaged(r, n) =>
          /\ SameClaim(r)
          /\ \A i \in Instances, m \in Modes : Held(i, m, r)' => Held(i, m, r)

\* A poller that does not act keeps what it has.
LEMMA PollerKept ==
    ASSUME OwnInv, RowsKept, PollersUndisturbed, NEW i \in Instances, poll'[i] = poll[i],
           \A r \in Runs, n \in Iters : run[r].claimed = i /\ status[r][n] \in {"in_progress", "ended"}
               => status'[r][n] = status[r][n]
    PROVE  PollerOwns(i)'
<1> USE DEF OwnInv, Own
<1>0. Types /\ Assigned
  BY DEF IndInv, TypeOK, Assigned
<1>1. PollerOwns(i)
  BY DEF Polling
<1>2. ASSUME NEW p \in poll[i].list PROVE status'[p[1]][p[2]] = "in_progress" /\ run'[p[1]].claimed = i
  <2>1. p[1] \in Runs /\ p[2] \in Iters /\ Engaged(p[1], p[2])
    BY <1>0, ListEngaged
  <2>2. status[p[1]][p[2]] = "in_progress" /\ run[p[1]].claimed = i
    BY <1>1 DEF PollerOwns
  <2> QED
    BY <2>1, <2>2 DEF PollersUndisturbed, SameClaim
<1>3. ASSUME poll[i].pc # "idle"
      PROVE  /\ <<poll[i].run, poll[i].iter>> \notin poll[i].list
             /\ run'[poll[i].run].claimed = i
             /\ status'[poll[i].run][poll[i].iter] =
                   IF poll[i].pc \in Handling THEN "ended" ELSE "in_progress"
             /\ poll[i].pc \in {"mark", "respond", "settle", "fail"} =>
                   run'[poll[i].run].state \in Terminal \/ Free(poll[i].run)'
  <2>1. /\ poll[i].run \in Runs /\ poll[i].iter \in Iters /\ Engaged(poll[i].run, poll[i].iter)
        /\ run[poll[i].run].claimed = i
    BY <1>0, <1>3, PollerEngaged
  <2>2. run'[poll[i].run].claimed = i
    BY <2>1 DEF PollersUndisturbed, SameClaim
  <2>3. status[poll[i].run][poll[i].iter] = IF poll[i].pc \in Handling THEN "ended" ELSE "in_progress"
    BY <1>1, <1>3 DEF PollerOwns
  <2>4. status'[poll[i].run][poll[i].iter] = status[poll[i].run][poll[i].iter]
    BY <2>1, <2>3
  <2>5. Free(poll[i].run) => Free(poll[i].run)'
    BY <2>1 DEF Free, PollersUndisturbed
  <2>6. IsTerminal(poll[i].run) => run'[poll[i].run].state \in Terminal
    BY <2>1 DEF RowsKept
  <2> QED
    BY <1>1, <1>3, <2>2, <2>3, <2>4, <2>5, <2>6 DEF PollerOwns
<1> QED
  BY <1>2, <1>3 DEF PollerOwns, IsTerminal

\* A row that is not claimed is not held, and no iteration of it is engaged.
LEMMA Idle ==
    ASSUME OwnInv, NEW r \in Runs, run[r].state \in {"absent", "pending", "pending_tools"}
    PROVE  ~IsTerminal(r) /\ Free(r) /\ \A n \in Iters : ~Engaged(r, n)
<1>1. ~IsTerminal(r)
  BY DEF IsTerminal, Terminal
<1>2. Free(r)
  BY <1>1 DEF OwnInv, Own, Claims, ClaimedState, Free
<1>3. \A n \in Iters : ~Engaged(r, n)
  BY <1>1 DEF OwnInv, Own, Submitted, Batching
<1> QED
  BY <1>1, <1>2, <1>3

\* Workers that do nothing.
LEMMA SameWork ==
    ASSUME OwnInv, UNCHANGED work
    PROVE  Hands' /\ HeldFewer /\ WorkFits
<1>1. Hands'
  BY DEF OwnInv, Own, Hands, Suits
<1>2. HeldFewer
  BY DEF HeldFewer, Held
<1>3. WorkFits
  BY DEF WorkFits
<1> QED
  BY <1>1, <1>2, <1>3

\* A worker that goes on holds what it held.
LEMMA GotoHeld ==
    ASSUME OwnInv, NEW i \in Instances, NEW m \in Modes, NEW pc \in WorkerPCs, Goto(i, m, pc),
           pc # "idle", Suits(pc, m)
    PROVE  Hands' /\ HeldFewer
<1>1. /\ work'[i][m].pc = pc /\ work'[i][m].run = work[i][m].run
      /\ work'[i][m].base = work[i][m].base /\ work'[i][m].queue = work[i][m].queue
      /\ \A j \in Instances, k \in Modes : j # i \/ k # m => work'[j][k] = work[j][k]
  BY GotoTypes DEF OwnInv, IndInv, TypeOK, Types
<1>2. HeldFewer
  BY <1>1 DEF HeldFewer, Held
<1>3. Hands'
  <2>1. ASSUME NEW j \in Instances, NEW k \in Modes
        PROVE  /\ work'[j][k].pc = "idle" => work'[j][k].run = None
               /\ Suits(work'[j][k].pc, k)
               /\ \A t \in work'[j][k].queue : t.run # work'[j][k].run
               /\ \A t, u \in work'[j][k].queue : t.run = u.run => t = u
    <3>1. CASE j = i /\ k = m
      BY <1>1, <3>1 DEF OwnInv, Own, Hands
    <3>2. CASE j # i \/ k # m
      BY <1>1, <3>2 DEF OwnInv, Own, Hands
    <3> QED
      BY <3>1, <3>2
  <2> QED
    BY <2>1 DEF Hands, Suits
<1> QED
  BY <1>2, <1>3

\* The steps of a worker that has no batch to write, or fails to write it.
LEMMA GotoFits ==
    ASSUME OwnInv, NEW i \in Instances, NEW m \in Modes, NEW pc \in WorkerPCs, Goto(i, m, pc),
           \/ work[i][m].pc \notin {"advance", "fail"}
           \/ pc = "fail" /\ run'[work[i][m].run].state \in Terminal
    PROVE  WorkFits
<1>1. /\ work'[i][m].pc = pc /\ work'[i][m].run = work[i][m].run
      /\ work'[i][m].base = work[i][m].base
      /\ \A j \in Instances, k \in Modes : j # i \/ k # m => work'[j][k] = work[j][k]
  BY GotoTypes DEF OwnInv, IndInv, TypeOK, Types
<1> QED
  BY <1>1 DEF WorkFits

\* A worker that is done with its run no longer holds it, and nobody else does.
LEMMA Next1Held ==
    ASSUME OwnInv, NEW i \in Instances, NEW m \in Modes, Next1(i, m), work[i][m].pc # "idle",
           NEW r, r = work[i][m].run
    PROVE  Hands' /\ HeldFewer /\ WorkFits /\ r \in Runs /\ Free(r)'
<1>0. Types /\ Assigned
  BY DEF OwnInv, IndInv, TypeOK, Assigned
<1>1. /\ work'[i][m].pc = "idle" /\ work'[i][m].run = None /\ work'[i][m].queue = work[i][m].queue
      /\ \A j \in Instances, k \in Modes : j # i \/ k # m => work'[j][k] = work[j][k]
  BY <1>0, Next1Types DEF Types
<1>2. r \in Runs /\ Held(i, m, r) /\ \A t \in work[i][m].queue : t.run # r /\ t.run \in Runs
  BY <1>0, Holding DEF OwnInv, Own, Hands
<1>3. HeldFewer
  BY <1>1, NoneAssumption DEF HeldFewer, Held
<1>4. Free(r)'
  <2>1. ASSUME NEW j \in Instances, NEW k \in Modes, Held(j, k, r)' PROVE FALSE
    <3>1. j = i /\ k = m
      BY <1>2, <1>3, <2>1, HeldOnce DEF HeldFewer, OwnInv, Own
    <3> QED
      BY <1>1, <1>2, <2>1, <3>1, NoneAssumption DEF Held
  <2> QED
    BY <2>1 DEF Free
<1>5. Hands'
  <2>1. ASSUME NEW j \in Instances, NEW k \in Modes
        PROVE  /\ work'[j][k].pc = "idle" => work'[j][k].run = None
               /\ Suits(work'[j][k].pc, k)
               /\ \A t \in work'[j][k].queue : t.run # work'[j][k].run
               /\ \A t, u \in work'[j][k].queue : t.run = u.run => t = u
    <3>1. CASE j = i /\ k = m
      <4>1. Suits("idle", m) /\ \A t \in work[i][m].queue : t.run # None
        BY <1>2, NoneAssumption DEF Suits
      <4> QED
        BY <1>1, <3>1, <4>1 DEF OwnInv, Own, Hands
    <3>2. CASE j # i \/ k # m
      BY <1>1, <3>2 DEF OwnInv, Own, Hands
    <3> QED
      BY <3>1, <3>2
  <2> QED
    BY <2>1 DEF Hands, Suits
<1>6. WorkFits
  <2>1. ASSUME NEW j \in Instances, NEW k \in Modes, NEW q \in Runs, work[j][k].run = q,
               Held(j, k, q)'
        PROVE  work'[j][k] = work[j][k]
    BY <1>1, <1>4, <2>1 DEF Free
  <2> QED
    BY <2>1 DEF WorkFits
<1> QED
  BY <1>2, <1>3, <1>4, <1>5, <1>6

\* No iteration gets into the API or out of it.
StatusKept ==
    \A r \in Runs, n \in Iters :
        /\ status'[r][n] = "in_progress" => status[r][n] = "in_progress"
        /\ status[r][n] \in {"in_progress", "ended"} => status'[r][n] = status[r][n]

\* The steps that leave the pollers and what they poll alone.
LEMMA TableKeeps ==
    ASSUME OwnInv, RowsKept, UNCHANGED poll, StatusKept,
           Hands', HeldFewer, WorkFits, RowsFit, Unanswered',
           \A r \in Runs, n \in Iters : Engaged(r, n) => SameClaim(r)
    PROVE  Own'
<1>1. EngagedFewer
  BY DEF EngagedFewer, Engaged, StatusKept
<1>2. PollersUndisturbed
  BY DEF PollersUndisturbed, HeldFewer
<1>3. Polling'
  <2>1. ASSUME NEW i \in Instances PROVE PollerOwns(i)'
    BY <1>2, PollerKept DEF StatusKept
  <2> QED
    BY <2>1 DEF Polling
<1> QED
  BY <1>1, <1>3, FewerKeeps DEF Own

\* Where a worker waits for the API nobody else writes the answer.
LEMMA UnansweredKept ==
    ASSUME OwnInv, UNCHANGED api,
           \A i \in Instances, m \in Modes : work'[i][m].pc \in {"record", "advance"} =>
               /\ work[i][m].pc \in {"record", "advance"}
               /\ work'[i][m].run = work[i][m].run /\ work'[i][m].base = work[i][m].base
    PROVE  Unanswered'
  BY DEF OwnInv, Own, Unanswered

\* The rows as they are.
LEMMA SameRows ==
    ASSUME UNCHANGED run
    PROVE  RowsFit /\ \A r \in Runs : SameClaim(r)
  BY DEF RowsFit, RowFits, SameClaim

\* The rows where one that nobody holds and the API does not have is rewritten.
LEMMA IdleRow ==
    ASSUME OwnInv, HeldFewer, UNCHANGED <<status, poll>>, NEW r \in Runs,
           run[r].state \in {"absent", "pending", "pending_tools"},
           \A q \in Runs : q # r => run'[q] = run[q]
    PROVE  RowsFit /\ \A q \in Runs, n \in Iters : Engaged(q, n) => SameClaim(q)
<1>1. Free(r) /\ \A n \in Iters : ~Engaged(r, n)
  BY Idle
<1>2. Free(r)' /\ \A n \in Iters : ~Engaged(r, n)'
  BY <1>1 DEF HeldFewer, Free, Engaged
<1> QED
  BY <1>1, <1>2 DEF RowsFit, RowFits, SameClaim

\* A step of a worker that goes on and writes a message at most.
LEMMA GotoKeeps ==
    ASSUME OwnInv, RowsKept, NEW i \in Instances, NEW m \in Modes, NEW pc \in WorkerPCs,
           Goto(i, m, pc), work[i][m].pc \notin {"advance", "fail"},
           pc \notin {"idle", "record", "advance"}, Suits(pc, m),
           UNCHANGED <<run, api, poll>>, StatusKept
    PROVE  Own'
<1>1. /\ work'[i][m].pc = pc
      /\ \A j \in Instances, k \in Modes : j # i \/ k # m => work'[j][k] = work[j][k]
  BY GotoTypes DEF OwnInv, IndInv, TypeOK, Types
<1>2. Unanswered'
  BY <1>1, UnansweredKept
<1>3. Hands' /\ HeldFewer /\ WorkFits
  BY GotoHeld, GotoFits
<1> QED
  BY <1>2, <1>3, SameRows, TableKeeps

\* A step of a worker that gives up its run and leaves the row ended, waiting for the
\* API's answer or, if the API has no batch of it, as it likes.
LEMMA Next1Keeps ==
    ASSUME OwnInv, RowsKept, NEW i \in Instances, NEW m \in Modes, Next1(i, m),
           work[i][m].pc # "idle", NEW r, r = work[i][m].run,
           SameClaim(r),
           \/ run'[r].state \in Terminal \cup Batching
           \/ \A n \in Iters : ~Engaged(r, n),
           \A q \in Runs : q # r => run'[q] = run[q],
           UNCHANGED <<status, api, poll>>
    PROVE  Own'
<1>1. Hands' /\ HeldFewer /\ WorkFits /\ r \in Runs /\ Free(r)'
  BY Next1Held
<1>2. Unanswered'
  <2>1. /\ work'[i][m].pc = "idle"
        /\ \A j \in Instances, k \in Modes : j # i \/ k # m => work'[j][k] = work[j][k]
    BY Next1Types DEF OwnInv, IndInv, TypeOK, Types
  <2> QED
    BY <2>1, UnansweredKept
<1>3. \A n \in Iters : Engaged(r, n)' <=> Engaged(r, n)
  BY DEF Engaged
<1>4. RowsFit /\ \A q \in Runs : SameClaim(q)
  BY <1>1, <1>3 DEF RowsFit, RowFits, SameClaim
<1> QED
  BY <1>1, <1>2, <1>4, TableKeeps DEF StatusKept

-----------------------------------------------------------------------------
(* The tables *)

LEMMA OwnTables ==
    ASSUME OwnInv, RowsKept, NEW r \in Runs,
           \/ CreateRun(r) \/ Noted(r) \/ AgeClaim(r)
           \/ \E n \in Iters : FinishTools(r, n)
    PROVE  Own'
<1>0. run \in [Runs -> Row]
  BY DEF OwnInv, IndInv, TypeOK, Types
<1>1. UNCHANGED <<status, api, work, poll>>
  BY NoteSteps DEF CreateRun, AgeClaim, FinishTools
<1>2. Hands' /\ HeldFewer /\ WorkFits /\ Unanswered'
  BY <1>1, SameWork, UnansweredKept
<1>3. RowsFit /\ \A q \in Runs, n \in Iters : Engaged(q, n) => SameClaim(q)
  <2>1. CASE CreateRun(r) \/ Continuing(r)
    <3>1. /\ run[r].state \in {"absent", "pending_tools"}
          /\ \A q \in Runs : q # r => run'[q] = run[q]
      BY <1>0, <2>1 DEF CreateRun, Continuing, Continue
    <3> QED
      BY <1>1, <1>2, <3>1, IdleRow
  <2>2. CASE AgeClaim(r)
    <3>1. \A q \in Runs : run'[q].claimed = run[q].claimed /\ run'[q].state = run[q].state
      BY <1>0, <2>2 DEF AgeClaim, Row
    <3> QED
      BY <3>1 DEF RowsFit, RowFits, SameClaim
  <2>3. CASE UNCHANGED run
    BY <2>3, SameRows
  <2> QED
    BY <2>1, <2>2, <2>3, NoteSteps DEF FinishTools
<1> QED
  BY <1>1, <1>2, <1>3, TableKeeps DEF StatusKept

\* The API ends a batch only when its submitter has written what he has to.
LEMMA OwnApi ==
    ASSUME OwnInv, RowsKept, "fast_batch" \notin Faults, NEW r \in Runs, NEW n \in Iters,
           EndBatch(r, n) \/ CancelBatch(r, n)
    PROVE  Own'
<1>0. Types /\ Assigned
  BY DEF OwnInv, IndInv, TypeOK, Assigned
<1>1. UNCHANGED <<run, status, work, poll>>
  BY DEF EndBatch, CancelBatch
<1>2. Unanswered'
  <2>1. ASSUME NEW i \in Instances, NEW m \in Modes, work[i][m].pc \in {"record", "advance"}
        PROVE  api'[work[i][m].run][work[i][m].base + 1] \in {"running", "canceling", "lost"}
    <3> DEFINE q == work[i][m].run  k == work[i][m].base + 1
    <3>1. m = "batch" /\ q \in Runs /\ k \in Iters /\ api[q][k] \in {"running", "canceling", "lost"}
      BY <1>0, <2>1, WorkerTask DEF OwnInv, Own, Hands, Suits, Unanswered
    <3>2. CASE EndBatch(r, n)
      <4>1. ~(q = r /\ k = n)
        BY <2>1, <3>1, <3>2 DEF EndBatch, Submitting
      <4> QED
        BY <1>0, <3>1, <3>2, <4>1 DEF EndBatch, Types
    <3>3. CASE CancelBatch(r, n)
      <4>1. api \in [Runs -> [Iters -> ApiValues]]
        BY <1>0 DEF Types, ApiValues
      <4>2. \/ api' = [api EXCEPT ![r][n] = "canceling"]
            \/ api' = [api EXCEPT ![r][n] = "lost"]
        BY <3>3 DEF CancelBatch
      <4>3. api'[q][k] \in {api[q][k], "canceling", "lost"}
        BY <3>1, <4>1, <4>2
      <4> QED
        BY <3>1, <4>3
    <3> QED
      BY <3>2, <3>3
  <2> QED
    BY <1>1, <2>1 DEF Unanswered
<1> QED
  BY <1>1, <1>2, SameWork, SameRows, TableKeeps DEF StatusKept

-----------------------------------------------------------------------------
(* The workers *)

\* A claim takes runs that nobody holds and the API does not have.
LEMMA OwnClaim ==
    ASSUME OwnInv, RowsKept, NEW i \in Instances, NEW m \in Modes, Claim(i, m)
    PROVE  Own'
<1>0. Types /\ Assigned /\ run \in [Runs -> Row] /\ work \in [Instances -> [Modes -> Worker]]
  BY DEF OwnInv, IndInv, TypeOK, Types, Assigned
<1>1. PICK S \in (SUBSET Claimable(i, m)) \ {{}} :
        /\ run' = [r \in Runs |->
                   IF r \in S
                   THEN [run[r] EXCEPT !.claimed = i, !.aged = FALSE,
                           !.state = IF m = "batch" THEN "batch_submitting" ELSE "streaming"]
                   ELSE run[r]]
        /\ work' = [work EXCEPT ![i][m].queue = {[run |-> r, base |-> run[r].cur] : r \in S}]
  BY DEF Claim
<1> DEFINE Q == {[run |-> r, base |-> run[r].cur] : r \in S}
<1>2. /\ work'[i][m].pc = "idle" /\ work'[i][m].run = None /\ work'[i][m].queue = Q
      /\ work[i][m].pc = "idle" /\ work[i][m].run = None /\ work[i][m].queue = {}
      /\ \A j \in Instances, k \in Modes : j # i \/ k # m => work'[j][k] = work[j][k]
  <2>1. work[i][m].pc = "idle" /\ work[i][m].run = None /\ work[i][m].queue = {}
    BY DEF Claim, At, OwnInv, Own, Hands
  <2>2. work' = [work EXCEPT ![i][m] = [work[i][m] EXCEPT !.queue = Q]]
    BY <1>1
  <2> HIDE DEF Q
  <2>3. work[i][m] \in Worker
    BY <1>0
  <2>4. work'[i][m] = [work[i][m] EXCEPT !.queue = Q]
    BY <1>0, <2>2
  <2>5. \A j \in Instances, k \in Modes : j # i \/ k # m => work'[j][k] = work[j][k]
    BY <1>0, <2>2
  <2> QED
    BY <2>1, <2>3, <2>4, <2>5 DEF Worker
<1>3. \A r \in S : /\ r \in Runs /\ RunMode[r] = m /\ ~IsTerminal(r) /\ Free(r)
                   /\ \A n \in Iters : ~Engaged(r, n)
  <2>1. \A r \in S : r \in Runs /\ RunMode[r] = m /\ run[r].state = "pending"
    BY <1>1 DEF Claimable
  <2> QED
    BY <2>1, Idle
<1>4. UNCHANGED <<status, api, poll>>
  BY DEF Claim
<1>5. \A r \in Runs : IF r \in S THEN run'[r].claimed = i /\ run'[r].state = ClaimedState(m)
                                  ELSE run'[r] = run[r]
  BY <1>0, <1>1 DEF Row, ClaimedState
<1>6. \A t \in Q : t.run \in S
  OBVIOUS
<1>7. \A t, u \in Q : t.run = u.run => t = u
  OBVIOUS
<1> HIDE DEF Q
<1>8. ASSUME NEW j \in Instances, NEW k \in Modes, NEW r \in Runs, Held(j, k, r)'
      PROVE  Held(j, k, r) \/ (j = i /\ k = m /\ r \in S)
  <2>1. CASE j = i /\ k = m
    <3>1. \E t \in Q : t.run = r
      BY <1>2, <1>8, <2>1, NoneAssumption DEF Held
    <3> QED
      BY <1>6, <2>1, <3>1
  <2>2. CASE j # i \/ k # m
    BY <1>2, <1>8, <2>2 DEF Held
  <2> QED
    BY <2>1, <2>2
<1>9. \A r \in Runs, n \in Iters : Engaged(r, n)' <=> Engaged(r, n)
  BY <1>4 DEF Engaged
<1>10. Hands'
  <2>1. ASSUME NEW j \in Instances, NEW k \in Modes
        PROVE  /\ work'[j][k].pc = "idle" => work'[j][k].run = None
               /\ Suits(work'[j][k].pc, k)
               /\ \A t \in work'[j][k].queue : t.run # work'[j][k].run
               /\ \A t, u \in work'[j][k].queue : t.run = u.run => t = u
    <3>1. CASE j = i /\ k = m
      <4>1. Suits("idle", m) /\ \A t \in Q : t.run # None
        BY <1>3, <1>6, NoneAssumption DEF Suits
      <4> QED
        BY <1>2, <1>7, <3>1, <4>1
    <3>2. CASE j # i \/ k # m
      BY <1>2, <3>2 DEF OwnInv, Own, Hands
    <3> QED
      BY <3>1, <3>2
  <2> QED
    BY <2>1 DEF Hands, Suits
<1>11. Claims'
  <2>1. ASSUME NEW j \in Instances, NEW k \in Modes, NEW r \in Runs, Held(j, k, r)'
        PROVE  /\ run'[r].claimed = j /\ RunMode[r] = k
               /\ run'[r].state \in Terminal \/ run'[r].state = ClaimedState(k)
    <3>1. CASE r \in S
      <4>1. ~Held(j, k, r)
        BY <1>3, <3>1 DEF Free
      <4> QED
        BY <1>3, <1>5, <1>8, <2>1, <3>1, <4>1
    <3>2. CASE r \notin S
      <4>1. Held(j, k, r) /\ run'[r] = run[r]
        BY <1>5, <1>8, <2>1, <3>2
      <4> QED
        BY <4>1 DEF OwnInv, Own, Claims, IsTerminal
    <3> QED
      BY <3>1, <3>2
  <2> QED
    BY <2>1 DEF Claims, IsTerminal, ClaimedState
<1>12. \A r \in Runs, n \in Iters : Engaged(r, n) => run'[r] = run[r]
  BY <1>3, <1>5
<1>13. Submitted'
  BY <1>9, <1>12 DEF OwnInv, Own, Submitted, IsTerminal
<1>14. OneEngaged'
  BY <1>9 DEF OwnInv, Own, OneEngaged
<1>15. \A j \in Instances, k \in Modes, r \in Runs, n \in Iters :
         Engaged(r, n) /\ Held(j, k, r)' => Held(j, k, r)
  BY <1>3, <1>8
<1>16. Waiting'
  <2>1. ASSUME NEW j \in Instances, NEW k \in Modes, NEW r \in Runs, NEW n \in Iters,
               Held(j, k, r)', Engaged(r, n)'
        PROVE  /\ work'[j][k].run = r /\ work'[j][k].base + 1 = n
               /\ \/ work'[j][k].pc = "advance"
                  \/ work'[j][k].pc = "fail" /\ run'[r].state \in Terminal
    <3>1. Held(j, k, r) /\ Engaged(r, n) /\ run'[r] = run[r]
      BY <1>9, <1>12, <1>15, <2>1
    <3>2. /\ work[j][k].run = r /\ work[j][k].base + 1 = n
          /\ work[j][k].pc = "advance" \/ (work[j][k].pc = "fail" /\ IsTerminal(r))
      BY <3>1 DEF OwnInv, Own, Waiting
    <3>3. j # i \/ k # m
      BY <1>2, <3>2
    <3> QED
      BY <1>2, <3>1, <3>2, <3>3 DEF IsTerminal
  <2> QED
    BY <2>1 DEF Waiting, IsTerminal
<1>17. Unanswered'
  BY <1>2, <1>4 DEF OwnInv, Own, Unanswered
<1>18. PollersUndisturbed
  BY <1>12, <1>15 DEF PollersUndisturbed, SameClaim
<1>19. Polling'
  <2>1. ASSUME NEW j \in Instances PROVE PollerOwns(j)'
    BY <1>4, <1>18, PollerKept
  <2> QED
    BY <2>1 DEF Polling
<1> QED
  BY <1>10, <1>11, <1>13, <1>14, <1>16, <1>17, <1>19 DEF Own

\* A worker takes the next run of those it holds.
LEMMA OwnTake ==
    ASSUME OwnInv, RowsKept, NEW i \in Instances, NEW m \in Modes, Take(i, m)
    PROVE  Own'
<1>0. Types /\ Assigned /\ work \in [Instances -> [Modes -> Worker]]
  BY DEF OwnInv, IndInv, TypeOK, Types, Assigned
<1>1. PICK t \in work[i][m].queue :
        work' = [work EXCEPT ![i][m] =
                   [pc |-> IF t.base = 0 THEN "prompt" ELSE "iterate",
                    run |-> t.run, base |-> t.base, queue |-> work[i][m].queue \ {t}]]
  BY DEF Take
<1>2. /\ work'[i][m].pc \in {"prompt", "iterate"} /\ work'[i][m].run = t.run
      /\ work'[i][m].queue = work[i][m].queue \ {t}
      /\ \A j \in Instances, k \in Modes : j # i \/ k # m => work'[j][k] = work[j][k]
  BY <1>0, <1>1
<1>3. work[i][m].pc = "idle" /\ UNCHANGED <<run, status, api, poll>>
  BY DEF Take, At
<1>4. HeldFewer
  BY <1>2 DEF HeldFewer, Held
<1>5. WorkFits
  BY <1>2, <1>3 DEF WorkFits
<1>6. Unanswered'
  BY <1>2, <1>3, UnansweredKept
<1>7. Hands'
  <2>1. ASSUME NEW j \in Instances, NEW k \in Modes
        PROVE  /\ work'[j][k].pc = "idle" => work'[j][k].run = None
               /\ Suits(work'[j][k].pc, k)
               /\ \A u \in work'[j][k].queue : u.run # work'[j][k].run
               /\ \A u, v \in work'[j][k].queue : u.run = v.run => u = v
    <3>1. CASE j = i /\ k = m
      <4>1. Suits(work'[i][m].pc, m)
        BY <1>2 DEF Suits
      <4>2. \A u, v \in work[i][m].queue : u.run = v.run => u = v
        BY DEF OwnInv, Own, Hands
      <4> QED
        BY <1>2, <3>1, <4>1, <4>2
    <3>2. CASE j # i \/ k # m
      BY <1>2, <3>2 DEF OwnInv, Own, Hands
    <3> QED
      BY <3>1, <3>2
  <2> QED
    BY <2>1 DEF Hands, Suits
<1> QED
  BY <1>3, <1>4, <1>5, <1>6, <1>7, SameRows, TableKeeps DEF StatusKept

\* The worker that submitted a batch engages its iteration.
LEMMA OwnRecord ==
    ASSUME OwnInv, RowsKept, NEW i \in Instances, RecordBatch(i, "batch")
    PROVE  Own'
<1> DEFINE m == "batch"  r == work[i][m].run  n == work[i][m].base + 1
<1>0. /\ Types /\ Assigned /\ status \in [Runs -> [Iters -> Statuses]]
      /\ m \in Modes /\ "advance" \in WorkerPCs
  BY Names DEF OwnInv, IndInv, TypeOK, Types, Assigned
<1>1. /\ work[i][m].pc = "record" /\ UNCHANGED <<run, api, poll>>
      /\ status' = [status EXCEPT ![r][n] = "in_progress"] /\ Goto(i, m, "advance")
  BY DEF RecordBatch, At
<1>2. r \in Runs /\ n \in Iters /\ Held(i, m, r)
  BY <1>0, <1>1, WorkerTask, Holding
<1> HIDE DEF m, r, n
<1>3. /\ work'[i][m].pc = "advance" /\ work'[i][m].run = work[i][m].run
      /\ work'[i][m].base = work[i][m].base
      /\ \A j \in Instances, k \in Modes : j # i \/ k # m => work'[j][k] = work[j][k]
  BY <1>0, <1>1, GotoTypes DEF Types
<1>4. Hands' /\ HeldFewer
  BY <1>0, <1>1, GotoHeld DEF m, Suits
<1>5. run[r].claimed = i /\ RunMode[r] = "batch" /\ (IsTerminal(r) \/ run[r].state = "batch_submitting")
  BY <1>0, <1>2 DEF OwnInv, Own, Claims, ClaimedState, m
<1>6. \A k \in Iters : ~Engaged(r, k)
  BY <1>0, <1>1, <1>2 DEF OwnInv, Own, Waiting
<1>7. \A q \in Runs, k \in Iters :
        status'[q][k] = IF q = r /\ k = n THEN "in_progress" ELSE status[q][k]
  BY <1>0, <1>1, <1>2
<1>8. ASSUME NEW q \in Runs, NEW k \in Iters, Engaged(q, k)'
      PROVE  Engaged(q, k) \/ (q = r /\ k = n)
  BY <1>1, <1>7, <1>8 DEF Engaged
<1>9. Claims'
  BY <1>1, <1>4 DEF HeldFewer, OwnInv, Own, Claims, IsTerminal
<1>10. Submitted'
  <2>1. ASSUME NEW q \in Runs, NEW k \in Iters, Engaged(q, k)'
        PROVE  /\ RunMode[q] = "batch" /\ run[q].claimed # None
               /\ IsTerminal(q) \/ run[q].state \in Batching
    <3>1. CASE Engaged(q, k)
      BY <3>1 DEF OwnInv, Own, Submitted
    <3>2. CASE q = r
      BY <1>5, <3>2, NoneAssumption DEF Batching
    <3> QED
      BY <1>8, <2>1, <3>1, <3>2
  <2> QED
    BY <1>1, <2>1 DEF Submitted, IsTerminal
<1>11. OneEngaged'
  <2>1. ASSUME NEW q \in Runs, NEW k \in Iters, NEW l \in Iters, Engaged(q, k)', Engaged(q, l)'
        PROVE  k = l
    BY <1>6, <1>8, <2>1 DEF OwnInv, Own, OneEngaged
  <2> QED
    BY <2>1 DEF OneEngaged
<1>12. Waiting'
  <2>1. ASSUME NEW j \in Instances, NEW k \in Modes, NEW q \in Runs, NEW l \in Iters,
               Held(j, k, q)', Engaged(q, l)'
        PROVE  /\ work'[j][k].run = q /\ work'[j][k].base + 1 = l
               /\ work'[j][k].pc = "advance" \/ (work'[j][k].pc = "fail" /\ IsTerminal(q))
    <3>0. Held(j, k, q)
      BY <2>1, <1>4 DEF HeldFewer
    <3>1. CASE q = r
      <4>1. l = n
        BY <1>6, <1>8, <2>1, <3>1
      <4>2. j = i /\ k = m
        BY <1>0, <1>2, <3>0, <3>1, HeldOnce DEF OwnInv, Own
      <4> QED
        BY <1>3, <3>1, <4>1, <4>2 DEF r, n
    <3>2. CASE q # r
      <4>1. Engaged(q, l)
        BY <1>8, <2>1, <3>2
      <4>2. /\ work[j][k].run = q /\ work[j][k].base + 1 = l
            /\ work[j][k].pc = "advance" \/ (work[j][k].pc = "fail" /\ IsTerminal(q))
        BY <3>0, <4>1 DEF OwnInv, Own, Waiting
      <4> QED
        BY <1>1, <1>3, <4>2
    <3> QED
      BY <3>1, <3>2
  <2> QED
    BY <1>1, <2>1 DEF Waiting, IsTerminal
<1>13. Unanswered'
  <2>1. \A j \in Instances, k \in Modes : work'[j][k].pc \in {"record", "advance"} =>
               /\ work[j][k].pc \in {"record", "advance"}
               /\ work'[j][k].run = work[j][k].run /\ work'[j][k].base = work[j][k].base
    BY <1>1, <1>3
  <2> QED
    BY <1>1, <2>1, UnansweredKept
<1>14. PollersUndisturbed
  BY <1>1, <1>4 DEF PollersUndisturbed, SameClaim, HeldFewer
<1>15. Polling'
  <2>1. \A q \in Runs, k \in Iters : status[q][k] \in {"in_progress", "ended"} =>
            status'[q][k] = status[q][k] \/ (q = r /\ k = n)
    BY <1>7
  <2>2. \A j \in Instances : poll[j].pc # "idle" =>
            poll[j].run \in Runs /\ poll[j].iter \in Iters /\ Engaged(poll[j].run, poll[j].iter)
    BY <1>0, PollerEngaged DEF OwnInv, Own
  <2>3. \A j \in Instances : \A p \in poll[j].list :
            p[1] \in Runs /\ p[2] \in Iters /\ status[p[1]][p[2]] = "in_progress" /\ run[p[1]].claimed = j
    BY <1>0, ListEngaged DEF OwnInv, Own, Polling, PollerOwns
  <2>4. ASSUME NEW j \in Instances PROVE PollerOwns(j)'
    <3>1. \A p \in poll[j].list : status'[p[1]][p[2]] = "in_progress" /\ run[p[1]].claimed = j
      BY <1>7, <2>3
    <3>2. poll[j].pc # "idle" =>
            /\ <<poll[j].run, poll[j].iter>> \notin poll[j].list
            /\ run[poll[j].run].claimed = j
            /\ status'[poll[j].run][poll[j].iter] = IF poll[j].pc \in Handling THEN "ended" ELSE "in_progress"
            /\ poll[j].pc \in {"mark", "respond", "settle", "fail"} =>
                  IsTerminal(poll[j].run) \/ Free(poll[j].run)
      BY <1>6, <1>7, <2>2 DEF OwnInv, Own, Polling, PollerOwns
    <3>3. \A q \in Runs : Free(q) => Free(q)'
      BY <1>4 DEF Free, HeldFewer
    <3>4. poll'[j] = poll[j] /\ run' = run
      BY <1>1
    <3>5. poll[j].pc # "idle" /\ Free(poll[j].run) => Free(poll[j].run)'
      BY <2>2, <3>3, <3>4
    <3> QED
      BY <3>1, <3>2, <3>4, <3>5 DEF PollerOwns, IsTerminal
  <2> QED
    BY <2>4 DEF Polling
<1> QED
  BY <1>4, <1>9, <1>10, <1>11, <1>12, <1>13, <1>15 DEF Own

\* A worker writes what the API answers for its own iteration only.
LEMMA OwnAsk ==
    ASSUME OwnInv, RowsKept, NEW i \in Instances, NEW m \in Modes,
           \/ m = "batch" /\ SubmitBatch(i, m)
           \/ m = "streaming" /\ StreamReply(i, m)
    PROVE  Own'
<1> DEFINE r == work[i][m].run  n == work[i][m].base + 1
<1>0. /\ Types /\ Assigned /\ api \in [Runs -> [Iters -> ApiValues]]
      /\ work[i][m].pc \in {"submit", "stream"}
  BY DEF OwnInv, IndInv, TypeOK, Types, Assigned, ApiValues, SubmitBatch, StreamReply, At
<1>1. PICK pc \in {"record", "respond"} :
        /\ Goto(i, m, pc) /\ Suits(pc, m)
        /\ pc = "record" => api' = [api EXCEPT ![r][n] = "running"]
        /\ \E reply \in {"text", "tools", "running"} : api' = [api EXCEPT ![r][n] = reply]
  BY DEF SubmitBatch, StreamReply, Suits
<1>2. UNCHANGED <<run, status, poll>> /\ pc \in WorkerPCs
  BY Names DEF SubmitBatch, StreamReply
<1>3. r \in Runs /\ n \in Iters /\ Held(i, m, r)
  BY <1>0, WorkerTask, Holding
<1>4. /\ work'[i][m].pc = pc /\ work'[i][m].run = work[i][m].run
      /\ work'[i][m].base = work[i][m].base
      /\ \A j \in Instances, k \in Modes : j # i \/ k # m => work'[j][k] = work[j][k]
  BY <1>0, <1>1, <1>2, GotoTypes DEF Types
<1>5. Hands' /\ HeldFewer /\ WorkFits
  BY <1>0, <1>1, <1>2, GotoHeld, GotoFits
<1>6. Unanswered'
  <2>1. ASSUME NEW j \in Instances, NEW k \in Modes, work'[j][k].pc \in {"record", "advance"}
        PROVE  api'[work'[j][k].run][work'[j][k].base + 1] \in {"running", "canceling", "lost"}
    <3>1. CASE j = i /\ k = m
      <4>1. pc = "record"
        BY <1>1, <1>4, <2>1, <3>1
      <4>2. api'[r][n] = "running"
        BY <1>0, <1>1, <1>3, <4>1
      <4> QED
        BY <1>4, <3>1, <4>2
    <3>2. CASE j # i \/ k # m
      <4> DEFINE q == work[j][k].run  l == work[j][k].base + 1
      <4>1. work'[j][k] = work[j][k] /\ work[j][k].pc \in {"record", "advance"}
        BY <1>4, <2>1, <3>2
      <4>2. q \in Runs /\ l \in Iters /\ Held(j, k, q)
        BY <1>0, <4>1, WorkerTask, Holding
      <4>3. q # r
        BY <1>3, <3>2, <4>2, HeldOnce DEF OwnInv, Own
      <4>4. api[q][l] \in {"running", "canceling", "lost"}
        BY <4>1 DEF OwnInv, Own, Unanswered
      <4>5. api'[q][l] = api[q][l]
        BY <1>0, <1>1, <1>3, <4>2, <4>3
      <4> QED
        BY <4>1, <4>4, <4>5
    <3> QED
      BY <3>1, <3>2
  <2> QED
    BY <2>1 DEF Unanswered
<1> QED
  BY <1>2, <1>5, <1>6, SameRows, TableKeeps DEF StatusKept

\* What the CHECK does not let through would reopen a run that has ended.
LEMMA Rejected ==
    ASSUME OwnInv, NEW r \in Runs, NEW new \in Row, new.final = run[r].final,
           new.state \notin Terminal, ~Consistent(new)
    PROVE  IsTerminal(r)
  BY DEF OwnInv, IndInv, RowsConsistent, Consistent, IsTerminal

\* The worker that submitted a batch writes the run and is done with it.
LEMMA OwnAdvance ==
    ASSUME OwnInv, RowsKept, NEW i \in Instances, AdvanceRun(i, "batch")
    PROVE  Own'
<1> DEFINE m == "batch"  r == work[i][m].run  n == work[i][m].base + 1  new == AdvancedRow(r, n)
<1>0. /\ Types /\ Assigned /\ run \in [Runs -> Row] /\ m \in Modes
      /\ work[i][m].pc = "advance" /\ UNCHANGED <<status, api, poll>>
  BY Names DEF OwnInv, IndInv, TypeOK, Types, Assigned, AdvanceRun, At
<1>1. r \in Runs /\ n \in 0 .. MaxIter
  BY <1>0, WorkerTask
<1>2. /\ new \in Row /\ new.final = run[r].final /\ new.state = "batch_pending"
      /\ new.claimed = run[r].claimed
  <2>1. new \in Row
    BY <1>0, <1>1, RowTypes, Names DEF AdvancedRow
  <2>2. new.final = run[r].final /\ new.state = "batch_pending" /\ new.claimed = run[r].claimed
    BY <1>0, <1>1 DEF AdvancedRow, Row
  <2> QED
    BY <2>1, <2>2
<1>3. CASE Consistent(new)
  <2>1. run' = [run EXCEPT ![r] = new] /\ Next1(i, m)
    BY <1>3 DEF AdvanceRun, Write
  <2>2. /\ SameClaim(r) /\ run'[r].state \in Batching
        /\ \A q \in Runs : q # r => run'[q] = run[q]
    BY <1>0, <1>1, <1>2, <2>1 DEF SameClaim, Batching
  <2> HIDE DEF m, r
  <2> QED
    BY <1>0, <2>1, <2>2, Next1Keeps DEF r
<1>4. CASE ~Consistent(new)
  <2>1. run' = run /\ Goto(i, m, "fail")
    BY <1>4 DEF AdvanceRun, Write
  <2>2. run'[r].state \in Terminal
    BY <1>1, <1>2, <1>4, <2>1, Rejected DEF IsTerminal, Terminal
  <2>3. "fail" \in WorkerPCs /\ Suits("fail", m)
    BY Names DEF Suits
  <2>4. Hands' /\ HeldFewer
    BY <1>0, <2>1, <2>3, GotoHeld
  <2>5. WorkFits
    BY <1>0, <2>1, <2>2, <2>3, GotoFits
  <2>6. /\ work'[i][m].pc = "fail"
        /\ \A j \in Instances, k \in Modes : j # i \/ k # m => work'[j][k] = work[j][k]
    BY <1>0, <2>1, <2>3, GotoTypes DEF Types
  <2>7. Unanswered'
    BY <1>0, <2>6, UnansweredKept
  <2> QED
    BY <1>0, <2>1, <2>4, <2>5, <2>7, SameRows, TableKeeps DEF StatusKept
<1> QED
  BY <1>3, <1>4

\* current_iteration is nobody's business here.
LEMMA OwnBegin ==
    ASSUME OwnInv, RowsKept, NEW i \in Instances, BeginStream(i, "streaming")
    PROVE  Own'
<1> DEFINE m == "streaming"  r == work[i][m].run  n == work[i][m].base + 1
<1>0. /\ Types /\ Assigned /\ run \in [Runs -> Row] /\ m \in Modes
      /\ work[i][m].pc = "begin" /\ UNCHANGED <<status, api, poll>> /\ Goto(i, m, "stream")
      /\ run' = [run EXCEPT ![r].cur = n]
      /\ "stream" \in WorkerPCs /\ Suits("stream", m)
  BY Names DEF OwnInv, IndInv, TypeOK, Types, Assigned, BeginStream, At, Suits
<1>1. r \in Runs
  BY <1>0, WorkerTask
<1>2. \A q \in Runs : run'[q].claimed = run[q].claimed /\ run'[q].state = run[q].state
  BY <1>0, <1>1 DEF Row
<1>3. RowsFit /\ \A q \in Runs : SameClaim(q)
  BY <1>2 DEF RowsFit, RowFits, SameClaim
<1>4. Hands' /\ HeldFewer /\ WorkFits
  BY <1>0, GotoHeld, GotoFits
<1>5. /\ work'[i][m].pc = "stream"
      /\ \A j \in Instances, k \in Modes : j # i \/ k # m => work'[j][k] = work[j][k]
  BY <1>0, GotoTypes DEF Types
<1>6. Unanswered'
  BY <1>0, <1>5, UnansweredKept
<1> QED
  BY <1>0, <1>3, <1>4, <1>6, TableKeeps DEF StatusKept

\* What processResult writes keeps the claim, and does not reopen the run.
LEMMA SettledFits ==
    ASSUME OwnInv, NEW r \in Runs, NEW n \in Iters
    PROVE  /\ SettledRow(r, n) \in Row /\ SettledRow(r, n).claimed = run[r].claimed
           /\ \/ SettledRow(r, n).state = "pending_tools" /\ SettledRow(r, n).final = run[r].final
              \/ SettledRow(r, n).state = "completed" /\ Consistent(SettledRow(r, n))
           /\ ~Consistent(SettledRow(r, n)) => IsTerminal(r)
<1>0. run[r] \in Row
  BY DEF OwnInv, IndInv, TypeOK, Types
<1>1. SettledRow(r, n) \in Row
  BY <1>0, RowTypes, Names DEF SettledRow
<1>2. SettledRow(r, n).claimed = run[r].claimed
  BY <1>0 DEF SettledRow, Row
<1>3. \/ SettledRow(r, n).state = "pending_tools" /\ SettledRow(r, n).final = run[r].final
      \/ SettledRow(r, n).state = "completed" /\ Consistent(SettledRow(r, n))
  BY <1>0 DEF SettledRow, Row, Consistent, Terminal
<1> QED
  BY <1>1, <1>2, <1>3, Rejected DEF Terminal

\* A streaming run is settled by the worker that holds it.
LEMMA OwnSettle ==
    ASSUME OwnInv, RowsKept, NEW i \in Instances, StreamSettle(i, "streaming")
    PROVE  Own'
<1> DEFINE m == "streaming"  r == work[i][m].run  n == work[i][m].base + 1  new == SettledRow(r, n)
<1>0. /\ Types /\ Assigned /\ run \in [Runs -> Row] /\ m \in Modes
      /\ work[i][m].pc = "settle" /\ UNCHANGED <<status, api, poll>>
  BY Names DEF OwnInv, IndInv, TypeOK, Types, Assigned, StreamSettle, At
<1>1. r \in Runs /\ n \in Iters /\ Held(i, m, r)
  BY <1>0, WorkerTask, Holding
<1>2. new \in Row /\ new.claimed = run[r].claimed /\ (~Consistent(new) => IsTerminal(r))
  BY <1>1, SettledFits
<1>3. CASE Consistent(new)
  <2>1. run' = [run EXCEPT ![r] = new] /\ Next1(i, m)
    BY <1>3 DEF StreamSettle, Settle, Write
  <2>2. SameClaim(r) /\ \A q \in Runs : q # r => run'[q] = run[q]
    BY <1>0, <1>1, <1>2, <2>1 DEF SameClaim
  <2>3. \A k \in Iters : ~Engaged(r, k)
    <3>1. RunMode[r] = "streaming"
      BY <1>0, <1>1 DEF OwnInv, Own, Claims
    <3> QED
      BY <1>1, <3>1 DEF OwnInv, Own, Submitted
  <2> HIDE DEF m, r, n
  <2> QED
    BY <1>0, <2>1, <2>2, <2>3, Next1Keeps DEF r
<1>4. CASE ~Consistent(new)
  <2>1. run' = run /\ Goto(i, m, "fail")
    BY <1>4 DEF StreamSettle, Settle, Write
  <2>2. "fail" \in WorkerPCs /\ Suits("fail", m)
    BY Names DEF Suits
  <2> HIDE DEF m, r, n
  <2> QED
    BY <1>0, <2>1, <2>2, GotoKeeps DEF StatusKept
<1> QED
  BY <1>3, <1>4

\* failRun ends the run and is done with it.
LEMMA OwnFail ==
    ASSUME OwnInv, RowsKept, NEW i \in Instances, NEW m \in Modes, FailRun(i, m)
    PROVE  Own'
<1> DEFINE r == work[i][m].run  new == FailedRow(r)
<1>0. /\ Types /\ Assigned /\ run \in [Runs -> Row]
      /\ work[i][m].pc = "fail" /\ UNCHANGED <<status, api, poll>> /\ Next1(i, m)
  BY DEF OwnInv, IndInv, TypeOK, Types, Assigned, FailRun, At
<1>1. r \in Runs
  BY <1>0, WorkerTask
<1>2. new \in Row /\ new.claimed = run[r].claimed /\ new.state \in Terminal /\ Consistent(new)
  BY <1>0, <1>1, FailedTypes DEF FailedRow, Row, Terminal, Consistent
<1>3. run' = [run EXCEPT ![r] = new]
  BY <1>2 DEF FailRun, Write
<1>4. /\ SameClaim(r) /\ run'[r].state \in Terminal
      /\ \A q \in Runs : q # r => run'[q] = run[q]
  BY <1>0, <1>1, <1>2, <1>3 DEF SameClaim
<1> HIDE DEF r, new
<1> QED
  BY <1>0, <1>4, Next1Keeps DEF r

\* Every step of a worker that meets no error.
LEMMA OwnWorker ==
    ASSUME OwnInv, RowsKept, NEW i \in Instances, NEW m \in Modes,
           Claim(i, m) \/ WorkerStep(i, m)
    PROVE  Own'
<1>1. CASE CreatePrompt(i, m)
  <2>1. work[i][m].pc = "prompt" /\ Goto(i, m, "iterate") /\ UNCHANGED <<run, status, api, poll>>
    BY <1>1 DEF CreatePrompt, At
  <2>2. "iterate" \in WorkerPCs /\ Suits("iterate", m)
    BY Names DEF Suits
  <2> QED
    BY <2>1, <2>2, GotoKeeps DEF StatusKept
<1>2. CASE m = "streaming" /\ StreamRespond(i, m)
  <2>1. work[i][m].pc = "respond" /\ Goto(i, m, "settle") /\ UNCHANGED <<run, status, api, poll>>
    BY <1>2 DEF StreamRespond, At
  <2>2. "settle" \in WorkerPCs /\ Suits("settle", m)
    BY <1>2, Names DEF Suits
  <2> QED
    BY <2>1, <2>2, GotoKeeps DEF StatusKept
<1>3. CASE CreateIteration(i, m)
  <2>1. work[i][m].pc = "iterate" /\ UNCHANGED <<run, api, poll>>
    BY <1>3 DEF CreateIteration, At
  <2>2. PICK pc \in {"fail", "submit", "begin"} : Goto(i, m, pc) /\ Suits(pc, m)
    BY <1>3 DEF CreateIteration, Suits, Modes
  <2>3. StatusKept
    <3>1. status \in [Runs -> [Iters -> Statuses]]
      BY DEF OwnInv, IndInv, TypeOK, Types
    <3>2. work[i][m].run \in Runs /\ work[i][m].base + 1 \in Iters
      BY <2>1, WorkerTask DEF OwnInv, IndInv, TypeOK, Assigned
    <3> QED
      BY <1>3, <3>1, <3>2 DEF CreateIteration, StatusKept
  <2>4. pc \in WorkerPCs
    BY <2>2, Names
  <2> QED
    BY <2>1, <2>2, <2>3, <2>4, GotoKeeps
<1> QED
  BY <1>1, <1>2, <1>3, OwnClaim, OwnTake, OwnRecord, OwnAsk, OwnAdvance, OwnBegin, OwnSettle, OwnFail
     DEF WorkerStep

-----------------------------------------------------------------------------
(* The pollers *)

\* A step of one poller, which may end an iteration that it owns.
LEMMA PollerKeeps ==
    ASSUME OwnInv, RowsKept, UNCHANGED <<work, api>>, NEW i \in Instances,
           \A j \in Instances : j # i => poll'[j] = poll[j],
           \A r \in Runs, n \in Iters : run[r].claimed # i => status'[r][n] = status[r][n],
           PollerOwns(i)', EngagedFewer, RowsFit, \A r \in Runs : SameClaim(r)
    PROVE  Own'
<1>1. Hands' /\ HeldFewer /\ WorkFits
  BY SameWork
<1>2. Unanswered'
  BY UnansweredKept
<1>3. PollersUndisturbed
  BY <1>1 DEF PollersUndisturbed, HeldFewer
<1>4. Polling'
  <2>1. ASSUME NEW j \in Instances, j # i PROVE PollerOwns(j)'
    <3>1. \A r \in Runs, n \in Iters : run[r].claimed = j => status'[r][n] = status[r][n]
      BY <2>1
    <3> QED
      BY <1>3, <2>1, <3>1, PollerKept
  <2> QED
    BY <2>1 DEF Polling
<1> QED
  BY <1>1, <1>2, <1>4, FewerKeeps DEF Own

\* A poller that only moves on engages nothing, unless it was handling the iteration.
LEMMA PollFewer ==
    ASSUME UNCHANGED status, NEW i \in Instances,
           \A j \in Instances : j # i => poll'[j] = poll[j],
           \/ poll'[i].pc \notin Handling
           \/ poll[i].pc \in Handling /\ poll'[i].run = poll[i].run /\ poll'[i].iter = poll[i].iter
    PROVE  EngagedFewer
<1>1. ASSUME NEW r \in Runs, NEW n \in Iters, Engaged(r, n)' PROVE Engaged(r, n)
  <2>1. CASE status[r][n] = "in_progress"
    BY <2>1 DEF Engaged
  <2>2. CASE \E j \in Instances : poll'[j].pc \in Handling /\ poll'[j].run = r /\ poll'[j].iter = n
    <3>1. PICK j \in Instances : poll'[j].pc \in Handling /\ poll'[j].run = r /\ poll'[j].iter = n
      BY <2>2
    <3>2. poll[j].pc \in Handling /\ poll[j].run = r /\ poll[j].iter = n
      BY <3>1
    <3> QED
      BY <3>2 DEF Engaged
  <2> QED
    BY <1>1, <2>1, <2>2 DEF Engaged
<1> QED
  BY <1>1 DEF EngagedFewer

\* A poller at rest only has its list.
LEMMA PollNextOwns ==
    ASSUME OwnInv, NEW i \in Instances, PollNext(i), UNCHANGED status, \A r \in Runs : SameClaim(r)
    PROVE  /\ PollerOwns(i)' /\ EngagedFewer /\ poll'[i].pc = "idle"
           /\ \A j \in Instances : j # i => poll'[j] = poll[j]
<1>0. Types /\ Assigned
  BY DEF OwnInv, IndInv, TypeOK, Assigned
<1>1. /\ poll'[i].pc = "idle" /\ poll'[i].list = poll[i].list
      /\ \A j \in Instances : j # i => poll'[j] = poll[j]
  BY <1>0, PollNextTypes DEF Types
<1>2. EngagedFewer
  BY <1>1, PollFewer DEF Handling
<1>3. \A p \in poll[i].list : p[1] \in Runs /\ status[p[1]][p[2]] = "in_progress" /\ run[p[1]].claimed = i
  BY <1>0, ListEngaged DEF OwnInv, Own, Polling, PollerOwns
<1> QED
  BY <1>1, <1>2, <1>3 DEF PollerOwns, SameClaim

\* A poller that goes on.
LEMMA PollGotoOwns ==
    ASSUME OwnInv, NEW i \in Instances, NEW pc \in PollerPCs, PollGoto(i, pc),
           UNCHANGED <<run, status, work, api>>, poll[i].pc # "idle",
           pc \in Handling <=> poll[i].pc \in Handling,
           pc \in {"mark", "respond", "settle", "fail"} => IsTerminal(poll[i].run) \/ Free(poll[i].run)
    PROVE  /\ PollerOwns(i)' /\ EngagedFewer
           /\ \A j \in Instances : j # i => poll'[j] = poll[j]
<1>0. Types /\ Assigned
  BY DEF OwnInv, IndInv, TypeOK, Assigned
<1>1. /\ poll'[i].pc = pc /\ poll'[i].list = poll[i].list
      /\ poll'[i].run = poll[i].run /\ poll'[i].iter = poll[i].iter
      /\ \A j \in Instances : j # i => poll'[j] = poll[j]
  BY <1>0, PollGotoTypes DEF Types
<1>2. EngagedFewer
  BY <1>1, PollFewer
<1>3. PollerOwns(i)
  BY DEF OwnInv, Own, Polling
<1>4. Free(poll[i].run) => Free(poll[i].run)'
  BY <1>1 DEF Free, Held
<1>5. \A p \in poll'[i].list : status'[p[1]][p[2]] = "in_progress" /\ run'[p[1]].claimed = i
  BY <1>1, <1>3 DEF PollerOwns
<1>6. /\ <<poll'[i].run, poll'[i].iter>> \notin poll'[i].list
      /\ run'[poll'[i].run].claimed = i
      /\ status'[poll'[i].run][poll'[i].iter] = IF poll'[i].pc \in Handling THEN "ended" ELSE "in_progress"
  BY <1>1, <1>3 DEF PollerOwns
<1>7. poll'[i].pc \in {"mark", "respond", "settle", "fail"} =>
            run'[poll'[i].run].state \in Terminal \/ Free(poll[i].run)'
  BY <1>1, <1>4 DEF IsTerminal
<1>8. poll'[i].pc \in {"mark", "respond", "settle", "fail"} => IsTerminal(poll[i].run)' \/ Free(poll[i].run)'
  BY <1>7 DEF IsTerminal
<1> QED
  BY <1>1, <1>2, <1>5, <1>6, <1>8 DEF PollerOwns

\* The poller lists what is in progress, and looks at what it has listed.
LEMMA OwnPollRead ==
    ASSUME OwnInv, RowsKept, NEW i \in Instances, ListIterations(i) \/ GetBatch(i)
    PROVE  Own'
<1>0. Types /\ Assigned /\ poll \in [Instances -> Poller] /\ poll[i] \in Poller
  BY DEF OwnInv, IndInv, TypeOK, Types, Assigned
<1>1. UNCHANGED <<run, status, work, api>>
  BY DEF ListIterations, GetBatch
<1>2. \A p \in poll[i].list : status[p[1]][p[2]] = "in_progress" /\ run[p[1]].claimed = i
  BY DEF OwnInv, Own, Polling, PollerOwns
<1>3. /\ PollerOwns(i)' /\ EngagedFewer
      /\ \A j \in Instances : j # i => poll'[j] = poll[j]
  <2>1. CASE ListIterations(i)
    <3>1. /\ poll'[i].list = Pollable(i) /\ poll'[i].pc = "idle"
          /\ \A j \in Instances : j # i => poll'[j] = poll[j]
      BY <1>0, <2>1 DEF ListIterations, Polls, Poller
    <3>2. \A p \in Pollable(i) : status[p[1]][p[2]] = "in_progress" /\ run[p[1]].claimed = i
      BY DEF Pollable
    <3>3. EngagedFewer
      BY <1>1, <3>1, PollFewer DEF Handling
    <3> QED
      BY <1>1, <3>1, <3>2, <3>3 DEF PollerOwns
  <2>2. CASE GetBatch(i)
    <3>1. PICK p \in poll[i].list :
            poll' = [poll EXCEPT ![i] =
                   [pc |-> CASE api[p[1]][p[2]] = "running"   -> "seen"
                             [] api[p[1]][p[2]] = "canceling" -> "cancel"
                             [] OTHER                         -> "ended",
                    run |-> p[1], iter |-> p[2], list |-> poll[i].list \ {p}]]
      BY <2>2 DEF GetBatch
    <3>2. /\ poll'[i].pc \in {"seen", "cancel", "ended"}
          /\ poll'[i].run = p[1] /\ poll'[i].iter = p[2] /\ poll'[i].list = poll[i].list \ {p}
          /\ \A j \in Instances : j # i => poll'[j] = poll[j]
      BY <1>0, <3>1
    <3>3. EngagedFewer
      BY <1>1, <3>2, PollFewer DEF Handling
    <3>4. p = <<p[1], p[2]>>
      BY <1>0, ListEngaged DEF OwnInv, Own
    <3>5. status[p[1]][p[2]] = "in_progress" /\ run[p[1]].claimed = i
      BY <1>2
    <3> QED
      BY <1>1, <1>2, <3>2, <3>3, <3>4, <3>5 DEF PollerOwns, Handling
  <2> QED
    BY <2>1, <2>2
<1> QED
  BY <1>1, <1>3, SameRows, PollerKeeps

\* Where a worker still has to write its batch the poller finds no answer.
LEMMA AnswerFree ==
    ASSUME OwnInv, NEW r \in Runs, NEW n \in Iters, Engaged(r, n),
           api[r][n] \notin {"running", "canceling", "lost"}
    PROVE  IsTerminal(r) \/ Free(r)
<1>1. ASSUME NEW i \in Instances, NEW m \in Modes, Held(i, m, r) PROVE IsTerminal(r)
  <2>1. /\ work[i][m].run = r /\ work[i][m].base + 1 = n
        /\ work[i][m].pc = "advance" \/ (work[i][m].pc = "fail" /\ IsTerminal(r))
    BY <1>1 DEF OwnInv, Own, Waiting
  <2>2. work[i][m].pc # "advance"
    BY <2>1 DEF OwnInv, Own, Unanswered
  <2> QED
    BY <2>1, <2>2
<1> QED
  BY <1>1 DEF Free

\* The poller decides what to do with the iteration.
LEMMA OwnPollDecide ==
    ASSUME OwnInv, RowsKept, NEW i \in Instances, ReadRun(i) \/ FetchResult(i) \/ PollRespond(i)
    PROVE  Own'
<1> DEFINE r == poll[i].run  n == poll[i].iter
<1>0. Types /\ Assigned /\ UNCHANGED <<run, status, work, api>> /\ poll[i].pc # "idle"
  BY DEF OwnInv, IndInv, TypeOK, Assigned, ReadRun, FetchResult, PollRespond, Polls
<1>1. r \in Runs /\ n \in Iters /\ Engaged(r, n)
  BY <1>0, PollerEngaged DEF OwnInv, Own
<1>2. PollerOwns(i)
  BY DEF OwnInv, Own, Polling
<1>3. \/ PollNext(i)
      \/ \E pc \in PollerPCs :
            /\ PollGoto(i, pc) /\ (pc \in Handling <=> poll[i].pc \in Handling)
            /\ pc \in {"mark", "respond", "settle", "fail"} => IsTerminal(r) \/ Free(r)
  <2>1. CASE ReadRun(i)
    <3>1. run[r].state = "batch_pending" => Free(r)
      BY <1>1 DEF OwnInv, Own, Claims, ClaimedState, IsTerminal, Terminal, Free
    <3> QED
      BY <2>1, <3>1, Names DEF ReadRun, Polls, Handling
  <2>2. CASE FetchResult(i)
    <3>1. api[r][n] \in {"tools", "text", "errored"} => IsTerminal(r) \/ Free(r)
      BY <1>1, AnswerFree
    <3> QED
      BY <2>2, <3>1, Names DEF FetchResult, Polls, Handling
  <2>3. CASE PollRespond(i)
    <3>1. IsTerminal(r) \/ Free(r)
      BY <1>2, <2>3 DEF PollRespond, Polls, PollerOwns
    <3> QED
      BY <2>3, <3>1, Names DEF PollRespond, Polls, Handling
  <2> QED
    BY <2>1, <2>2, <2>3
<1>4. /\ PollerOwns(i)' /\ EngagedFewer
      /\ \A j \in Instances : j # i => poll'[j] = poll[j]
  BY <1>0, <1>3, PollNextOwns, PollGotoOwns, SameRows
<1> QED
  BY <1>0, <1>4, SameRows, PollerKeeps

\* When a poller is done with an iteration that has ended nothing of the run is engaged.
LEMMA PolledDone ==
    ASSUME OwnInv, NEW i \in Instances, poll[i].pc \in Handling, PollNext(i), UNCHANGED status,
           NEW r, r = poll[i].run
    PROVE  \A n \in Iters : ~Engaged(r, n)'
<1>0. Types /\ Assigned /\ poll[i].pc # "idle"
  BY DEF OwnInv, IndInv, TypeOK, Assigned, Handling
<1>1. /\ r \in Runs /\ poll[i].iter \in Iters /\ Engaged(r, poll[i].iter)
      /\ status[r][poll[i].iter] = "ended"
  BY <1>0, PollerEngaged DEF OwnInv, Own, Polling, PollerOwns
<1>2. poll'[i].pc = "idle" /\ \A j \in Instances : j # i => poll'[j] = poll[j]
  BY <1>0, PollNextTypes DEF Types
<1>3. ASSUME NEW n \in Iters, status[r][n] = "in_progress" PROVE FALSE
  BY <1>1, <1>3 DEF OwnInv, Own, OneEngaged, Engaged
<1>4. ASSUME NEW j \in Instances, poll'[j].pc \in Handling, poll'[j].run = r PROVE FALSE
  <2>1. j # i /\ poll[j].pc # "idle" /\ poll[j].run = poll[i].run
    BY <1>2, <1>4 DEF Handling
  <2> QED
    BY <1>0, <2>1, PolledOnce DEF OwnInv, Own
<1> QED
  BY <1>3, <1>4 DEF Engaged

\* The poller writes the run of its iteration and is done with it: a run that nobody
\* holds, unless the CHECK rejects the write.
LEMMA OwnPollWrite ==
    ASSUME OwnInv, RowsKept, NEW i \in Instances, MarkProcessing(i) \/ PollSettle(i) \/ PollFail(i)
    PROVE  Own'
<1>0. /\ Types /\ Assigned /\ UNCHANGED <<status, work, api>> /\ run \in [Runs -> Row]
      /\ poll[i].pc \in {"mark", "settle", "fail"} /\ PollNext(i)
  BY DEF OwnInv, IndInv, TypeOK, Types, Assigned, MarkProcessing, PollSettle, PollFail, Polls
<1>1. PICK r \in Runs, n \in Iters : r = poll[i].run /\ n = poll[i].iter /\ Engaged(r, n)
  BY <1>0, PollerEngaged DEF OwnInv, Own
<1>2. IsTerminal(r) \/ Free(r)
  BY <1>0, <1>1 DEF OwnInv, Own, Polling, PollerOwns
<1>3. PICK new \in Row :
        /\ Write(r, new) /\ new.claimed = run[r].claimed
        /\ \/ new.state \in Terminal
           \/ new.state = "batch_processing" /\ new.final = run[r].final
           \/ new.state = "pending_tools" /\ new.final = run[r].final /\ PollSettle(i)
  <2>1. CASE MarkProcessing(i)
    <3>1. [run[r] EXCEPT !.state = "batch_processing"] \in Row
      BY <1>0, <1>1, RowTypes, Names
    <3>2. LET new == [run[r] EXCEPT !.state = "batch_processing"]
          IN  new.claimed = run[r].claimed /\ new.state = "batch_processing" /\ new.final = run[r].final
      BY <1>0, <1>1 DEF Row
    <3> QED
      BY <1>1, <2>1, <3>1, <3>2 DEF MarkProcessing
  <2>2. CASE PollSettle(i)
    <3>1. /\ SettledRow(r, n) \in Row /\ SettledRow(r, n).claimed = run[r].claimed
          /\ \/ SettledRow(r, n).state = "pending_tools" /\ SettledRow(r, n).final = run[r].final
             \/ SettledRow(r, n).state = "completed"
      BY <1>1, SettledFits
    <3>2. Write(r, SettledRow(r, n))
      BY <1>1, <2>2 DEF PollSettle, Settle
    <3> QED
      BY <2>2, <3>1, <3>2 DEF Terminal
  <2>3. CASE PollFail(i)
    <3>1. FailedRow(r) \in Row /\ FailedRow(r).claimed = run[r].claimed /\ FailedRow(r).state \in Terminal
      BY <1>0, <1>1, FailedTypes DEF FailedRow, Row, Terminal
    <3> QED
      BY <1>1, <2>3, <3>1 DEF PollFail
  <2> QED
    BY <2>1, <2>2, <2>3 DEF MarkProcessing, PollSettle, PollFail
<1>4. CASE ~Consistent(new)
  <2>1. UNCHANGED run
    BY <1>3, <1>4 DEF Write
  <2>2. /\ PollerOwns(i)' /\ EngagedFewer
        /\ \A j \in Instances : j # i => poll'[j] = poll[j]
    BY <1>0, <2>1, PollNextOwns, SameRows
  <2> QED
    BY <1>0, <2>1, <2>2, SameRows, PollerKeeps
<1>5. CASE Consistent(new)
  <2>1. run' = [run EXCEPT ![r] = new]
    BY <1>3, <1>5 DEF Write
  <2>2. run'[r] = new /\ \A q \in Runs : q # r => run'[q] = run[q]
    BY <1>0, <1>1, <2>1
  <2>3. \A q \in Runs : SameClaim(q)
    BY <1>3, <2>2 DEF SameClaim
  <2>4. /\ PollerOwns(i)' /\ EngagedFewer /\ poll'[i].pc = "idle"
        /\ \A j \in Instances : j # i => poll'[j] = poll[j]
    BY <1>0, <2>3, PollNextOwns
  <2>5. RowFits(r)
    <3>1. CASE new.state \in Terminal
      BY <1>1, <2>2, <2>3, <3>1 DEF RowFits
    <3>2. CASE new.state \notin Terminal
      <4>1. ~IsTerminal(r)
        BY <1>1, <1>3, <1>5, <3>2 DEF OwnInv, IndInv, RowsConsistent, Consistent, IsTerminal
      <4>2. Free(r)'
        BY <1>0, <1>2, <4>1 DEF Free, Held
      <4>3. CASE new.state = "batch_processing"
        BY <1>1, <2>2, <2>3, <4>2, <4>3 DEF RowFits, Batching
      <4>4. CASE PollSettle(i)
        <5>1. \A k \in Iters : ~Engaged(r, k)'
          BY <1>0, <1>1, <4>4, PolledDone DEF PollSettle, Polls, Handling
        <5> QED
          BY <4>2, <5>1 DEF RowFits
      <4> QED
        BY <1>3, <3>2, <4>3, <4>4
    <3> QED
      BY <3>1, <3>2
  <2>6. RowsFit
    BY <2>2, <2>5 DEF RowsFit, RowFits, SameClaim
  <2> QED
    BY <1>0, <2>3, <2>4, <2>6, PollerKeeps
<1> QED
  BY <1>4, <1>5

\* The poller writes that the batch has ended or is being canceled.
LEMMA OwnPollMark ==
    ASSUME OwnInv, RowsKept, NEW i \in Instances, MarkCanceling(i) \/ MarkEnded(i)
    PROVE  Own'
<1> DEFINE r == poll[i].run  n == poll[i].iter
<1>0. /\ Types /\ Assigned /\ UNCHANGED <<run, work, api>> /\ status \in [Runs -> [Iters -> Statuses]]
      /\ poll[i].pc \in {"cancel", "ended"}
  BY DEF OwnInv, IndInv, TypeOK, Types, Assigned, MarkCanceling, MarkEnded, Polls
<1>1. r \in Runs /\ n \in Iters /\ Engaged(r, n) /\ run[r].claimed = i
  BY <1>0, PollerEngaged DEF OwnInv, Own
<1>2. PollerOwns(i)
  BY DEF OwnInv, Own, Polling
<1>3. /\ \A q \in Runs, k \in Iters : ~(q = r /\ k = n) => status'[q][k] = status[q][k]
      /\ \/ status'[r][n] = "canceling" /\ PollNext(i)
         \/ status'[r][n] = "ended" /\ PollGoto(i, "fetch")
  <2>1. CASE MarkCanceling(i)
    BY <1>0, <1>1, <2>1 DEF MarkCanceling
  <2>2. CASE MarkEnded(i)
    BY <1>0, <1>1, <2>2 DEF MarkEnded
  <2> QED
    BY <2>1, <2>2
<1>4. status[r][n] = "in_progress" /\ <<r, n>> \notin poll[i].list
  BY <1>0, <1>2 DEF PollerOwns, Handling
<1>5. \A p \in poll[i].list : status'[p[1]][p[2]] = "in_progress" /\ run[p[1]].claimed = i
  <2>1. ASSUME NEW p \in poll[i].list
        PROVE  status'[p[1]][p[2]] = "in_progress" /\ run[p[1]].claimed = i
    <3>1. p[1] \in Runs /\ p[2] \in Iters /\ p = <<p[1], p[2]>>
      BY <1>0, ListEngaged DEF OwnInv, Own
    <3>2. ~(p[1] = r /\ p[2] = n)
      BY <1>4, <3>1
    <3> QED
      BY <1>2, <1>3, <3>1, <3>2 DEF PollerOwns
  <2> QED
    BY <2>1
<1> HIDE DEF r, n
<1>6. \A j \in Instances : j # i => poll'[j] = poll[j]
  <2>1. "fetch" \in PollerPCs
    BY Names
  <2> QED
    BY <1>0, <1>3, <2>1, PollGotoTypes, PollNextTypes DEF Types
<1>7. PollerOwns(i)'
  <2>1. CASE PollNext(i)
    <3>1. poll'[i].pc = "idle" /\ poll'[i].list = poll[i].list
      BY <1>0, <2>1, PollNextTypes DEF Types
    <3> QED
      BY <1>0, <1>5, <3>1 DEF PollerOwns
  <2>2. CASE status'[r][n] = "ended" /\ PollGoto(i, "fetch")
    <3>1. /\ poll'[i].pc = "fetch" /\ poll'[i].list = poll[i].list
          /\ poll'[i].run = r /\ poll'[i].iter = n
      BY <1>0, <2>2, PollGotoTypes, Names DEF Types, r, n
    <3> QED
      BY <1>0, <1>1, <1>4, <1>5, <2>2, <3>1 DEF PollerOwns, Handling
  <2> QED
    BY <1>3, <2>1, <2>2
<1>8. EngagedFewer
  <2>1. ASSUME NEW q \in Runs, NEW k \in Iters, Engaged(q, k)' PROVE Engaged(q, k)
    <3>1. CASE status'[q][k] = "in_progress"
      <4>1. status[q][k] = "in_progress"
        BY <1>3, <1>4, <3>1
      <4> QED
        BY <4>1 DEF Engaged
    <3>2. CASE \E j \in Instances : poll'[j].pc \in Handling /\ poll'[j].run = q /\ poll'[j].iter = k
      <4>1. PICK j \in Instances : poll'[j].pc \in Handling /\ poll'[j].run = q /\ poll'[j].iter = k
        BY <3>2
      <4>2. CASE j # i
        BY <1>6, <4>1, <4>2 DEF Engaged
      <4>3. CASE j = i
        <5>1. poll'[i].run = r /\ poll'[i].iter = n
          BY <1>0, <1>3, <4>1, <4>3, PollGotoTypes, PollNextTypes, Names DEF Types, r, n, Handling
        <5> QED
          BY <1>1, <4>1, <4>3, <5>1
      <4> QED
        BY <4>2, <4>3
    <3> QED
      BY <2>1, <3>1, <3>2 DEF Engaged
  <2> QED
    BY <2>1 DEF EngagedFewer
<1>9. \A q \in Runs, k \in Iters : run[q].claimed # i => status'[q][k] = status[q][k]
  BY <1>1, <1>3
<1> QED
  BY <1>0, <1>6, <1>7, <1>8, <1>9, SameRows, PollerKeeps

-----------------------------------------------------------------------------
(* The instances *)

\* A process that stops drops its runs and its iterations.
LEMMA OwnCrash ==
    ASSUME OwnInv, RowsKept, NEW i \in Instances, Crash(i)
    PROVE  Own'
<1>0. /\ Types /\ Assigned /\ UNCHANGED <<run, status, api>>
      /\ work \in [Instances -> [Modes -> Worker]] /\ poll \in [Instances -> Poller]
  BY DEF OwnInv, IndInv, TypeOK, Types, Assigned, Crash
<1>1. /\ \A m \in Modes : work'[i][m] = Rest
      /\ \A j \in Instances : j # i => work'[j] = work[j] /\ poll'[j] = poll[j]
      /\ poll'[i] = Quiet
  BY <1>0 DEF Crash
<1>2. \A m \in Modes, r \in Runs : ~Held(i, m, r)'
  BY <1>1, NoneAssumption DEF Held, Rest
<1>3. HeldFewer
  <2>1. ASSUME NEW j \in Instances, NEW m \in Modes, NEW r \in Runs, Held(j, m, r)'
        PROVE  Held(j, m, r)
    <3>1. work'[j] = work[j]
      BY <1>1, <1>2, <2>1
    <3> QED
      BY <2>1, <3>1 DEF Held
  <2> QED
    BY <2>1 DEF HeldFewer
<1>4. WorkFits
  <2>1. ASSUME NEW j \in Instances, NEW m \in Modes, NEW r \in Runs, work[j][m].run = r, Held(j, m, r)'
        PROVE  work'[j][m] = work[j][m]
    BY <1>1, <1>2, <2>1
  <2> QED
    BY <2>1 DEF WorkFits
<1>5. Hands'
  <2>1. ASSUME NEW j \in Instances, NEW k \in Modes
        PROVE  /\ work'[j][k].pc = "idle" => work'[j][k].run = None
               /\ Suits(work'[j][k].pc, k)
               /\ \A t \in work'[j][k].queue : t.run # work'[j][k].run
               /\ \A t, u \in work'[j][k].queue : t.run = u.run => t = u
    <3>1. CASE j = i
      BY <1>1, <3>1 DEF Rest, Suits
    <3>2. CASE j # i
      BY <1>1, <3>2 DEF OwnInv, Own, Hands
    <3> QED
      BY <3>1, <3>2
  <2> QED
    BY <2>1 DEF Hands, Suits
<1>6. Unanswered'
  <2>1. \A j \in Instances, k \in Modes : work'[j][k].pc \in {"record", "advance"} =>
               /\ work[j][k].pc \in {"record", "advance"}
               /\ work'[j][k].run = work[j][k].run /\ work'[j][k].base = work[j][k].base
    BY <1>1 DEF Rest
  <2> QED
    BY <1>0, <2>1, UnansweredKept
<1>7. EngagedFewer
  BY <1>0, <1>1, PollFewer DEF Quiet, Handling
<1>8. Polling'
  <2>1. PollersUndisturbed
    BY <1>0, <1>3, SameRows DEF PollersUndisturbed, HeldFewer
  <2>2. ASSUME NEW j \in Instances, j # i PROVE PollerOwns(j)'
    BY <1>0, <1>1, <2>1, <2>2, PollerKept
  <2>3. PollerOwns(i)'
    BY <1>1 DEF PollerOwns, Quiet
  <2> QED
    BY <2>2, <2>3 DEF Polling
<1> QED
  BY <1>0, <1>3, <1>4, <1>5, <1>6, <1>7, <1>8, SameRows, FewerKeeps DEF Own

\* The row of an instance goes, which fails its runs, or comes back.
LEMMA OwnInstance ==
    ASSUME OwnInv, RowsKept, NEW i \in Instances, DeleteInstance(i) \/ Restart(i)
    PROVE  Own'
<1>0. run \in [Runs -> Row] /\ UNCHANGED <<status, api, work, poll>>
  BY DEF OwnInv, IndInv, TypeOK, Types, DeleteInstance, Restart
<1>1. ASSUME NEW r \in Runs
      PROVE  /\ run'[r].claimed = run[r].claimed
             /\ run'[r].state = run[r].state \/ run'[r].state \in Terminal
  <2>1. run'[r] = run[r] \/ run'[r] = FailedRow(r)
    BY DEF DeleteInstance, Restart
  <2>2. FailedRow(r).claimed = run[r].claimed /\ FailedRow(r).state \in Terminal
    BY <1>0 DEF FailedRow, Row, Terminal
  <2> QED
    BY <2>1, <2>2
<1>2. RowsFit /\ \A r \in Runs : SameClaim(r)
  BY <1>1 DEF RowsFit, RowFits, SameClaim
<1> QED
  BY <1>0, <1>2, SameWork, UnansweredKept, TableKeeps DEF StatusKept

-----------------------------------------------------------------------------
(* The invariant *)

\* No claim is undone behind its holder's back, no statement fails half way, and a
\* batch takes longer than the two writes of its submitter.
OwnershipKept == Unrescued /\ Faults \cap {"error", "fast_batch"} = {}

\* Then the steps of the rescuer and of failing statements do not happen.
LEMMA NoRescue ==
    ASSUME OwnInv, OwnershipKept, NEW i \in Instances, NEW m \in Modes
    PROVE  ~ScanStuck(i) /\ ~RescueRun(i) /\ ~WorkerError(i, m) /\ ~PollError(i)
<1>1. StuckRuns = {} \/ MayLead = {}
  <2>1. CASE MaxRescue = 0
    <3>1. \A r \in Runs : ~(run[r].rescues < MaxRescue)
      BY <2>1 DEF OwnInv, IndInv, TypeOK, Types, Row
    <3> QED
      BY <3>1 DEF StuckRuns
  <2> QED
    BY <2>1 DEF OwnershipKept, Unrescued
<1> QED
  BY <1>1 DEF OwnershipKept, OwnInv, NoneStuck, ScanStuck, RescueRun, WorkerError, PollError

\* Nobody works on the empty database.
LEMMA OwnInvInit == Init => OwnInv
<1> SUFFICES ASSUME Init PROVE OwnInv
  OBVIOUS
<1>1. IndInv
  BY IndInvInit
<1>2. /\ \A i \in Instances, m \in Modes : work[i][m] = Rest
      /\ \A i \in Instances : poll[i] = Quiet /\ stuck[i] = {}
      /\ \A r \in Runs, n \in Iters : status[r][n] = "absent"
  BY DEF Init
<1>3. \A i \in Instances, m \in Modes, r \in Runs : ~Held(i, m, r)
  BY <1>2, NoneAssumption DEF Held, Rest
<1>4. \A r \in Runs, n \in Iters : ~Engaged(r, n)
  BY <1>2 DEF Engaged, Quiet, Handling
<1>5. Hands /\ Unanswered
  BY <1>2 DEF Hands, Suits, Unanswered, Rest
<1>6. Polling
  BY <1>2 DEF Polling, PollerOwns, Quiet
<1> QED
  BY <1>1, <1>2, <1>3, <1>4, <1>5, <1>6
     DEF OwnInv, NoneStuck, Own, Claims, Submitted, OneEngaged, Waiting

\* Every step keeps the invariant: a run changes hands only through its claim.
LEMMA OwnInvStep ==
    ASSUME OwnInv, [Next]_vars, OwnershipKept
    PROVE  OwnInv'
<1>1. IndInv'
  BY IndInvStep DEF OwnInv
<1>2. NoneStuck'
  <2>1. CASE UNCHANGED vars
    BY <2>1 DEF vars, OwnInv, NoneStuck
  <2>2. CASE Next
    <3>1. \A i \in Instances : Crash(i) => NoneStuck'
      BY DEF Crash, OwnInv, NoneStuck, IndInv, TypeOK, Types
    <3>2. \/ UNCHANGED stuck \/ \E i \in Instances : Crash(i)
      <4>1. \A i \in Instances : ~ScanStuck(i) /\ ~RescueRun(i)
        BY NoRescue, Names
      <4>2. ASSUME NEW r \in Runs, CreateRun(r) \/ Noted(r) \/ AgeClaim(r)
            PROVE  UNCHANGED stuck
        BY <4>2, NoteSteps DEF CreateRun, AgeClaim
      <4>3. ASSUME NEW r \in Runs, NEW n \in Iters, EndBatch(r, n) \/ CancelBatch(r, n) \/ FinishTools(r, n)
            PROVE  UNCHANGED stuck
        BY <4>3 DEF EndBatch, CancelBatch, FinishTools
      <4>4. ASSUME NEW i \in Instances, NEW m \in Modes, Claim(i, m) \/ WorkerStep(i, m) \/ WorkerError(i, m)
            PROVE  UNCHANGED stuck
        BY <4>4 DEF Claim, WorkerStep, WorkerError, Take, CreatePrompt, CreateIteration, SubmitBatch,
                    RecordBatch, AdvanceRun, BeginStream, StreamReply, StreamRespond, StreamSettle, FailRun
      <4>5. ASSUME NEW i \in Instances, PollerStep(i) \/ PollError(i)
            PROVE  UNCHANGED stuck
        BY <4>5 DEF PollerStep, PollError, ListIterations, GetBatch, ReadRun, MarkProcessing, MarkCanceling,
                    MarkEnded, FetchResult, PollRespond, PollSettle, PollFail
      <4>6. ASSUME NEW i \in Instances, DeleteInstance(i) \/ Restart(i) PROVE UNCHANGED stuck
        BY <4>6 DEF DeleteInstance, Restart
      <4> QED
        BY <2>2, <4>1, <4>2, <4>3, <4>4, <4>5, <4>6 DEF Next, Noted
    <3> QED
      BY <3>1, <3>2 DEF OwnInv, NoneStuck
  <2> QED
    BY <2>1, <2>2
<1>3. Own'
  <2>1. CASE UNCHANGED vars
    BY <2>1 DEF vars, OwnInv, Own, Hands, Suits, Claims, Submitted, OneEngaged, Waiting, Unanswered, Polling,
                PollerOwns, Held, Free, Engaged, IsTerminal
  <2>2. CASE Next
    <3>0. RowsKept
      BY <2>2, RowsStep DEF OwnInv, IndInv, TypeOK, Assigned
    <3>1. ASSUME NEW r \in Runs, CreateRun(r) \/ Noted(r) \/ AgeClaim(r)
          PROVE  Own'
      BY <3>0, <3>1, OwnTables
    <3>2. ASSUME NEW r \in Runs, NEW n \in Iters, EndBatch(r, n) \/ CancelBatch(r, n) \/ FinishTools(r, n)
          PROVE  Own'
      BY <3>0, <3>2, OwnTables, OwnApi DEF OwnershipKept
    <3>3. ASSUME NEW i \in Instances, NEW m \in Modes, Claim(i, m) \/ WorkerStep(i, m)
          PROVE  Own'
      BY <3>0, <3>3, OwnWorker
    <3>4. ASSUME NEW i \in Instances, PollerStep(i) PROVE Own'
      BY <3>0, <3>4, OwnPollRead, OwnPollDecide, OwnPollWrite, OwnPollMark DEF PollerStep
    <3>5. ASSUME NEW i \in Instances, Crash(i) \/ DeleteInstance(i) \/ Restart(i) PROVE Own'
      BY <3>0, <3>5, OwnCrash, OwnInstance
    <3>6. \A i \in Instances, m \in Modes :
            ~ScanStuck(i) /\ ~RescueRun(i) /\ ~WorkerError(i, m) /\ ~PollError(i)
      BY NoRescue
    <3>7. Modes # {}
      BY Names
    <3> QED
      BY <2>2, <3>1, <3>2, <3>3, <3>4, <3>5, <3>6, <3>7 DEF Next, Noted
  <2> QED
    BY <2>1, <2>2
<1> QED
  BY <1>1, <1>2, <1>3 DEF OwnInv

\* Who holds a run, which iteration of it is with the API and who polls that one stay
\* settled by the claim, in every reachable state.
THEOREM OwnInvHolds ==
    ASSUME OwnershipKept
    PROVE  Spec => []OwnInv
  BY OwnInvInit, OwnInvStep, PTL DEF Spec

\* A run is processed by one worker at a time, and while it is in flight that worker's
\* instance is the one its row names, though no statement after the claim looks at
\* claimed_by_instance_id: where runs are not rescued, the claim alone is enough.
THEOREM OneWorkerPerRun ==
    ASSUME OwnershipKept
    PROVE  Spec => []OneOwner
<1>1. OwnInv => OneOwner
  <2> SUFFICES ASSUME OwnInv, NEW r \in Runs
               PROVE  /\ Cardinality(Holders(r)) <= 1
                      /\ \A w \in Holders(r) : run[r].state \in InFlight => run[r].claimed = w[1]
    BY DEF OneOwner
  <2>1. \A w \in Holders(r) : /\ w = <<w[1], w[2]>> /\ w[1] \in Instances /\ w[2] \in Modes
                              /\ Held(w[1], w[2], r)
    BY DEF Holders, Held
  <2>2. \A w \in Holders(r) : w = <<run[r].claimed, RunMode[r]>> /\ w[1] = run[r].claimed
    BY <2>1 DEF OwnInv, Own, Claims
  <2>3. Holders(r) \in SUBSET {<<run[r].claimed, RunMode[r]>>}
    BY <2>2
  <2>4. /\ IsFiniteSet({<<run[r].claimed, RunMode[r]>>})
        /\ Cardinality({<<run[r].claimed, RunMode[r]>>}) = 1
    BY FS_Singleton
  <2>5. Cardinality(Holders(r)) <= 1
    BY <2>3, <2>4, FS_Subset
  <2> QED
    BY <2>2, <2>5
<1> QED
  BY <1>1, OwnInvHolds, PTL

-----------------------------------------------------------------------------
(* What a step of the system may change.                                   *)

\* A worker moves by a claim, by taking a run, or with the run that it has.
LEMMA WorkSteps ==
    ASSUME OwnInv, Next
    PROVE  \/ UNCHANGED work
           \/ \E i \in Instances : Crash(i)
           \/ \E i \in Instances, m \in Modes :
                 \/ Claim(i, m) \/ Take(i, m)
                 \/ work[i][m].pc # "idle" /\ (Next1(i, m) \/ \E pc \in WorkerPCs : Goto(i, m, pc))
<1>1. ASSUME NEW r \in Runs, CreateRun(r) \/ Noted(r) \/ AgeClaim(r)
      PROVE  UNCHANGED work
  BY <1>1, NoteSteps DEF CreateRun, AgeClaim
<1>2. ASSUME NEW r \in Runs, NEW n \in Iters, EndBatch(r, n) \/ CancelBatch(r, n) \/ FinishTools(r, n)
      PROVE  UNCHANGED work
  BY <1>2 DEF EndBatch, CancelBatch, FinishTools
<1>3. ASSUME NEW i \in Instances, NEW m \in Modes, WorkerStep(i, m) \/ WorkerError(i, m)
      PROVE  \/ Take(i, m)
             \/ work[i][m].pc # "idle" /\ (Next1(i, m) \/ \E pc \in WorkerPCs : Goto(i, m, pc))
  <2>1. {"iterate", "submit", "record", "advance", "begin", "stream", "respond", "settle", "fail"} \subseteq WorkerPCs
    BY Names
  <2> QED
    BY <1>3, <2>1 DEF WorkerStep, WorkerError, CreatePrompt, CreateIteration, SubmitBatch, RecordBatch,
       AdvanceRun, BeginStream, StreamReply, StreamRespond, StreamSettle, FailRun, At
<1>4. ASSUME NEW i \in Instances, PollerStep(i) \/ PollError(i)
      PROVE  UNCHANGED work
  BY <1>4 DEF PollerStep, PollError, ListIterations, GetBatch, ReadRun, MarkProcessing, MarkCanceling,
              MarkEnded, FetchResult, PollRespond, PollSettle, PollFail
<1>5. ASSUME NEW i \in Instances, ScanStuck(i) \/ RescueRun(i) \/ DeleteInstance(i) \/ Restart(i)
      PROVE  UNCHANGED work
  BY <1>5 DEF ScanStuck, RescueRun, DeleteInstance, Restart
<1> QED
  BY <1>1, <1>2, <1>3, <1>4, <1>5 DEF Next, Noted

\* Only a claim makes somebody a holder.
LEMMA HeldSteps ==
    ASSUME OwnInv, Next
    PROVE  HeldFewer \/ \E i \in Instances, m \in Modes : Claim(i, m)
<1>0. work \in [Instances -> [Modes -> Worker]]
  BY DEF OwnInv, IndInv, TypeOK, Types
<1>1. ASSUME UNCHANGED work PROVE HeldFewer
  BY <1>1 DEF HeldFewer, Held
<1>2. ASSUME NEW i \in Instances, Crash(i) PROVE HeldFewer
  <2>1. /\ \A m \in Modes : work'[i][m] = Rest
        /\ \A j \in Instances : j # i => work'[j] = work[j]
    BY <1>0, <1>2 DEF Crash
  <2> QED
    BY <2>1, NoneAssumption DEF HeldFewer, Held, Rest
<1>3. ASSUME NEW i \in Instances, NEW m \in Modes, Take(i, m) PROVE HeldFewer
  <2>1. PICK t \in work[i][m].queue :
          work' = [work EXCEPT ![i][m] =
                   [pc |-> IF t.base = 0 THEN "prompt" ELSE "iterate",
                    run |-> t.run, base |-> t.base, queue |-> work[i][m].queue \ {t}]]
    BY <1>3 DEF Take
  <2>2. /\ work'[i][m].run = t.run /\ work'[i][m].queue = work[i][m].queue \ {t}
        /\ \A j \in Instances, k \in Modes : j # i \/ k # m => work'[j][k] = work[j][k]
    BY <1>0, <2>1
  <2> QED
    BY <2>2 DEF HeldFewer, Held
<1>4. ASSUME NEW i \in Instances, NEW m \in Modes, Next1(i, m) PROVE HeldFewer
  <2>1. /\ work'[i][m].run = None /\ work'[i][m].queue = work[i][m].queue
        /\ \A j \in Instances, k \in Modes : j # i \/ k # m => work'[j][k] = work[j][k]
    BY <1>0, <1>4, Next1Types
  <2> QED
    BY <2>1, NoneAssumption DEF HeldFewer, Held
<1>5. ASSUME NEW i \in Instances, NEW m \in Modes, NEW pc \in WorkerPCs, Goto(i, m, pc) PROVE HeldFewer
  <2>1. /\ work'[i][m].run = work[i][m].run /\ work'[i][m].queue = work[i][m].queue
        /\ \A j \in Instances, k \in Modes : j # i \/ k # m => work'[j][k] = work[j][k]
    BY <1>0, <1>5, GotoTypes
  <2> QED
    BY <2>1 DEF HeldFewer, Held
<1> QED
  BY <1>1, <1>2, <1>3, <1>4, <1>5, WorkSteps

\* A poller moves by a list, by the next entry of it, or with the iteration that it has.
LEMMA PollSteps ==
    ASSUME OwnInv, Next
    PROVE  \/ UNCHANGED poll
           \/ \E i \in Instances :
                 \/ Crash(i) \/ ListIterations(i) \/ GetBatch(i)
                 \/ poll[i].pc # "idle" /\ PollNext(i)
                 \/ /\ poll[i].pc # "idle"
                    /\ \E pc \in PollerPCs :
                          /\ PollGoto(i, pc)
                          /\ pc \in Handling => poll[i].pc \in Handling \/ MarkEnded(i)
<1>1. ASSUME NEW r \in Runs, CreateRun(r) \/ Noted(r) \/ AgeClaim(r)
      PROVE  UNCHANGED poll
  BY <1>1, NoteSteps DEF CreateRun, AgeClaim
<1>2. ASSUME NEW r \in Runs, NEW n \in Iters, EndBatch(r, n) \/ CancelBatch(r, n) \/ FinishTools(r, n)
      PROVE  UNCHANGED poll
  BY <1>2 DEF EndBatch, CancelBatch, FinishTools
<1>3. ASSUME NEW i \in Instances, NEW m \in Modes, Claim(i, m) \/ WorkerStep(i, m) \/ WorkerError(i, m)
      PROVE  UNCHANGED poll
  BY <1>3 DEF Claim, WorkerStep, WorkerError, Take, CreatePrompt, CreateIteration, SubmitBatch,
              RecordBatch, AdvanceRun, BeginStream, StreamReply, StreamRespond, StreamSettle, FailRun
<1>4. ASSUME NEW i \in Instances, PollerStep(i) \/ PollError(i)
      PROVE  \/ ListIterations(i) \/ GetBatch(i)
             \/ poll[i].pc # "idle" /\ PollNext(i)
             \/ /\ poll[i].pc # "idle"
                /\ \E pc \in PollerPCs :
                      /\ PollGoto(i, pc)
                      /\ pc \in Handling => poll[i].pc \in Handling \/ MarkEnded(i)
  <2>1. {"mark", "fetch", "respond", "settle", "fail"} \subseteq PollerPCs
    BY Names
  <2>2. CASE PollError(i)
    BY <2>1, <2>2 DEF PollError, Handling
  <2>3. CASE ReadRun(i) \/ MarkProcessing(i) \/ MarkCanceling(i) \/ MarkEnded(i)
    BY <2>1, <2>3 DEF ReadRun, MarkProcessing, MarkCanceling, MarkEnded, Polls, Handling
  <2>4. CASE FetchResult(i) \/ PollRespond(i) \/ PollSettle(i) \/ PollFail(i)
    BY <2>1, <2>4 DEF FetchResult, PollRespond, PollSettle, PollFail, Polls, Handling
  <2> QED
    BY <1>4, <2>2, <2>3, <2>4 DEF PollerStep
<1>5. ASSUME NEW i \in Instances, ScanStuck(i) \/ RescueRun(i) \/ DeleteInstance(i) \/ Restart(i)
      PROVE  UNCHANGED poll
  BY <1>5 DEF ScanStuck, RescueRun, DeleteInstance, Restart
<1> QED
  BY <1>1, <1>2, <1>3, <1>4, <1>5 DEF Next, Noted

\* Only the worker that records a batch gives an iteration to the API.
LEMMA StatusSteps ==
    ASSUME OwnInv, Next
    PROVE  \/ \E i \in Instances : RecordBatch(i, "batch")
           \/ \A r \in Runs, n \in Iters : status'[r][n] = "in_progress" => status[r][n] = "in_progress"
<1>0. Types /\ Assigned /\ status \in [Runs -> [Iters -> Statuses]]
  BY DEF OwnInv, IndInv, TypeOK, Types, Assigned
<1> DEFINE Kept == \A r \in Runs, n \in Iters : status'[r][n] = "in_progress" => status[r][n] = "in_progress"
<1>1. ASSUME NEW r \in Runs, CreateRun(r) \/ Noted(r) \/ AgeClaim(r)
      PROVE  Kept
  BY <1>1, NoteSteps DEF CreateRun, AgeClaim
<1>2. ASSUME NEW r \in Runs, NEW n \in Iters, EndBatch(r, n) \/ CancelBatch(r, n) \/ FinishTools(r, n)
      PROVE  Kept
  BY <1>2 DEF EndBatch, CancelBatch, FinishTools
<1>3. ASSUME NEW i \in Instances, NEW m \in Modes, CreateIteration(i, m)
      PROVE  Kept
  <2>1. work[i][m].run \in Runs /\ work[i][m].base + 1 \in Iters
    BY <1>0, <1>3, WorkerTask DEF CreateIteration, At
  <2> QED
    BY <1>0, <1>3, <2>1 DEF CreateIteration
<1>4. ASSUME NEW i \in Instances, NEW m \in Modes, Claim(i, m) \/ WorkerStep(i, m) \/ WorkerError(i, m)
      PROVE  Kept \/ RecordBatch(i, "batch")
  BY <1>3, <1>4 DEF Claim, WorkerStep, WorkerError, Take, CreatePrompt, SubmitBatch,
              AdvanceRun, BeginStream, StreamReply, StreamRespond, StreamSettle, FailRun
<1>5. ASSUME NEW i \in Instances, MarkCanceling(i) \/ MarkEnded(i) PROVE Kept
  <2>1. poll[i].run \in Runs /\ poll[i].iter \in Iters
    BY <1>0, <1>5, PollerTask DEF MarkCanceling, MarkEnded, Polls
  <2> QED
    BY <1>0, <1>5, <2>1 DEF MarkCanceling, MarkEnded
<1>6. ASSUME NEW i \in Instances, PollerStep(i) \/ PollError(i) PROVE Kept
  BY <1>5, <1>6 DEF PollerStep, PollError, ListIterations, GetBatch, ReadRun, MarkProcessing,
              FetchResult, PollRespond, PollSettle, PollFail
<1>7. ASSUME NEW i \in Instances,
             ScanStuck(i) \/ RescueRun(i) \/ Crash(i) \/ DeleteInstance(i) \/ Restart(i)
      PROVE  Kept
  BY <1>7 DEF ScanStuck, RescueRun, Crash, DeleteInstance, Restart
<1> HIDE DEF Kept
<1>8. Kept \/ \E i \in Instances : RecordBatch(i, "batch")
  BY <1>1, <1>2, <1>4, <1>6, <1>7 DEF Next, Noted
<1> QED
  BY <1>8 DEF Kept

\* Only the worker that records a batch engages an iteration.
LEMMA EngagedSteps ==
    ASSUME OwnInv, Next
    PROVE  EngagedFewer \/ \E i \in Instances : RecordBatch(i, "batch")
<1>0. /\ Types /\ Assigned /\ status \in [Runs -> [Iters -> Statuses]]
      /\ poll \in [Instances -> Poller]
  BY DEF OwnInv, IndInv, TypeOK, Types, Assigned
<1>1. \/ \E i \in Instances : RecordBatch(i, "batch")
      \/ \A r \in Runs, n \in Iters : status'[r][n] = "in_progress" => status[r][n] = "in_progress"
  BY StatusSteps
<1>2. ASSUME NEW i \in Instances, poll'[i].pc \in Handling
      PROVE  \/ poll[i].pc \in Handling /\ poll'[i].run = poll[i].run /\ poll'[i].iter = poll[i].iter
             \/ /\ poll'[i].run = poll[i].run /\ poll'[i].iter = poll[i].iter
                /\ poll[i].pc # "idle" /\ status[poll[i].run][poll[i].iter] = "in_progress"
  <2>1. ASSUME NEW j \in Instances, Crash(j)
        PROVE  poll'[i].pc = "idle" \/ poll'[i] = poll[i]
    BY <1>0, <2>1 DEF Crash, Quiet
  <2>2. ASSUME NEW j \in Instances, ListIterations(j)
        PROVE  poll'[i].pc = poll[i].pc /\ poll'[i].run = poll[i].run /\ poll'[i].iter = poll[i].iter
    BY <1>0, <2>2 DEF ListIterations, Poller
  <2>3. ASSUME NEW j \in Instances, GetBatch(j)
        PROVE  poll'[i].pc \in {"seen", "cancel", "ended"} \/ poll'[i] = poll[i]
    <3>1. PICK p \in poll[j].list :
            poll' = [poll EXCEPT ![j] =
                   [pc |-> CASE api[p[1]][p[2]] = "running"   -> "seen"
                             [] api[p[1]][p[2]] = "canceling" -> "cancel"
                             [] OTHER                         -> "ended",
                    run |-> p[1], iter |-> p[2], list |-> poll[j].list \ {p}]]
      BY <2>3 DEF GetBatch
    <3> QED
      BY <1>0, <3>1
  <2>4. ASSUME NEW j \in Instances, PollNext(j)
        PROVE  poll'[i].pc = "idle" \/ poll'[i] = poll[i]
    BY <1>0, <2>4, PollNextTypes
  <2>5. ASSUME NEW j \in Instances, NEW pc \in PollerPCs, PollGoto(j, pc)
        PROVE  poll'[i] = poll[i] \/ (/\ i = j /\ poll'[i].pc = pc
                                      /\ poll'[i].run = poll[i].run /\ poll'[i].iter = poll[i].iter)
    BY <1>0, <2>5, PollGotoTypes
  <2>6. MarkEnded(i) => poll[i].pc # "idle" /\ status[poll[i].run][poll[i].iter] = "in_progress"
    BY DEF MarkEnded, Polls, OwnInv, Own, Polling, PollerOwns, Handling
  <2> QED
    BY <1>2, <2>1, <2>2, <2>3, <2>4, <2>5, <2>6, PollSteps DEF Handling
<1>3. ASSUME \A r \in Runs, n \in Iters : status'[r][n] = "in_progress" => status[r][n] = "in_progress"
      PROVE  EngagedFewer
  <2>1. ASSUME NEW r \in Runs, NEW n \in Iters, Engaged(r, n)' PROVE Engaged(r, n)
    BY <1>2, <1>3, <2>1 DEF Engaged
  <2> QED
    BY <2>1 DEF EngagedFewer
<1> QED
  BY <1>1, <1>3

\* A pending run gets a claim, the tools' continuation gives it up.
Claimed(r) ==
    /\ run[r].state = "pending" /\ run'[r].state \in {"batch_submitting", "streaming"}
    /\ \E i \in Instances, m \in Modes : Claim(i, m) /\ run'[r].claimed = i
Unclaimed(r) ==
    run[r].state = "pending_tools" /\ run'[r].state = "pending" /\ run'[r].claimed = None

\* No other step writes claimed_by_instance_id.
LEMMA ClaimMoves ==
    ASSUME OwnInv, OwnershipKept, Next
    PROVE  \A r \in Runs : SameClaim(r) \/ Claimed(r) \/ Unclaimed(r)
<1>0. Types /\ Assigned /\ run \in [Runs -> Row]
  BY DEF OwnInv, IndInv, TypeOK, Types, Assigned
<1> DEFINE Kept == \A r \in Runs : SameClaim(r) \/ Claimed(r) \/ Unclaimed(r)
<1>1. ASSUME NEW r \in Runs, NEW new \in Row, Write(r, new), new.claimed = run[r].claimed PROVE Kept
  BY <1>0, <1>1 DEF Write, SameClaim
<1>2. ASSUME UNCHANGED run PROVE Kept
  BY <1>2 DEF SameClaim
<1>3. ASSUME NEW r \in Runs, CreateRun(r) \/ AgeClaim(r) PROVE Kept
  BY <1>0, <1>3 DEF CreateRun, AgeClaim, SameClaim, Row
<1>4. ASSUME NEW r \in Runs, Continuing(r) PROVE Kept
  <2>1. run[r].state = "pending_tools" /\ run'[r].state = "pending" /\ run'[r].claimed = None
    BY <1>0, <1>4 DEF Continuing, Continue, Continued, Row
  <2>2. \A q \in Runs : q # r => SameClaim(q)
    BY <1>0, <1>4 DEF Continuing, Continue, Continued, SameClaim
  <2> QED
    BY <2>1, <2>2 DEF Unclaimed
<1>5. ASSUME NEW i \in Instances, NEW m \in Modes, Claim(i, m) PROVE Kept
  <2>1. ASSUME NEW r \in Runs PROVE SameClaim(r) \/ Claimed(r)
    <3>1. \/ run'[r] = run[r]
          \/ /\ run[r].state = "pending" /\ run'[r].claimed = i
             /\ run'[r].state \in {"batch_submitting", "streaming"}
      <4>1. PICK S \in (SUBSET Claimable(i, m)) \ {{}} :
              run' = [q \in Runs |->
                     IF q \in S
                     THEN [run[q] EXCEPT !.claimed = i, !.aged = FALSE,
                             !.state = IF m = "batch" THEN "batch_submitting" ELSE "streaming"]
                     ELSE run[q]]
        BY <1>5 DEF Claim
      <4>2. r \in S => run[r].state = "pending"
        BY DEF Claimable
      <4> QED
        BY <1>0, <4>1, <4>2 DEF Row
    <3> QED
      BY <1>5, <3>1 DEF SameClaim, Claimed
  <2> QED
    BY <2>1
<1>6. ASSUME NEW i \in Instances, NEW m \in Modes, AdvanceRun(i, m) PROVE Kept
  <2> DEFINE r == work[i][m].run  new == AdvancedRow(r, work[i][m].base + 1)
  <2>1. r \in Runs /\ new \in Row /\ Write(r, new)
    BY <1>0, <1>6, WorkerTask, RowTypes, Names DEF AdvanceRun, At, AdvancedRow
  <2>2. new.claimed = run[r].claimed
    BY <1>0, <2>1 DEF AdvancedRow, Row
  <2> HIDE DEF r, new
  <2> QED
    BY <1>1, <2>1, <2>2
<1>7. ASSUME NEW i \in Instances, NEW m \in Modes, BeginStream(i, m) PROVE Kept
  <2>1. work[i][m].run \in Runs
    BY <1>0, <1>7, WorkerTask DEF BeginStream, At
  <2> QED
    BY <1>0, <1>7, <2>1 DEF BeginStream, SameClaim, Row
<1>8. ASSUME NEW r \in Runs, NEW n \in Iters, Settle(r, n) PROVE Kept
  BY <1>1, <1>8, SettledFits DEF Settle
<1>9. ASSUME NEW r \in Runs, Write(r, FailedRow(r)) PROVE Kept
  <2>1. FailedRow(r).claimed = run[r].claimed
    BY <1>0 DEF FailedRow, Row
  <2> QED
    BY <1>0, <1>1, <1>9, <2>1, FailedTypes
<1>10. ASSUME NEW i \in Instances, MarkProcessing(i) PROVE Kept
  <2> DEFINE r == poll[i].run  new == [run[r] EXCEPT !.state = "batch_processing"]
  <2>1. r \in Runs /\ new \in Row /\ Write(r, new)
    BY <1>0, <1>10, PollerTask, RowTypes, Names DEF MarkProcessing, Polls
  <2>2. new.claimed = run[r].claimed
    BY <1>0, <2>1 DEF Row
  <2> HIDE DEF r, new
  <2> QED
    BY <1>1, <2>1, <2>2
<1>11. ASSUME NEW i \in Instances, DeleteInstance(i) PROVE Kept
  BY <1>0, <1>11 DEF DeleteInstance, FailedRow, SameClaim, Row
<1> HIDE DEF Kept
<1>12. ASSUME NEW r \in Runs, CreateRun(r) \/ Noted(r) \/ AgeClaim(r)
       PROVE  Kept
  BY <1>2, <1>3, <1>4, <1>12, NoteSteps
<1>13. ASSUME NEW r \in Runs, NEW n \in Iters, EndBatch(r, n) \/ CancelBatch(r, n) \/ FinishTools(r, n)
       PROVE  Kept
  BY <1>2, <1>13 DEF EndBatch, CancelBatch, FinishTools
<1>14. ASSUME NEW i \in Instances, NEW m \in Modes, StreamSettle(i, m) \/ FailRun(i, m) PROVE Kept
  <2>1. work[i][m].run \in Runs /\ work[i][m].base + 1 \in Iters
    BY <1>0, <1>14, WorkerTask DEF StreamSettle, FailRun, At
  <2> QED
    BY <1>8, <1>9, <1>14, <2>1 DEF StreamSettle, FailRun
<1>15. ASSUME NEW i \in Instances, NEW m \in Modes, Claim(i, m) \/ WorkerStep(i, m) \/ WorkerError(i, m)
       PROVE  Kept
  BY <1>2, <1>5, <1>6, <1>7, <1>14, <1>15
     DEF WorkerStep, WorkerError, Take, CreatePrompt, CreateIteration, SubmitBatch, RecordBatch,
         StreamReply, StreamRespond
<1>16. ASSUME NEW i \in Instances, PollSettle(i) \/ PollFail(i) PROVE Kept
  <2>1. poll[i].run \in Runs /\ poll[i].iter \in Iters
    BY <1>0, <1>16, PollerTask DEF PollSettle, PollFail, Polls
  <2> QED
    BY <1>8, <1>9, <1>16, <2>1 DEF PollSettle, PollFail
<1>17. ASSUME NEW i \in Instances, PollerStep(i) \/ PollError(i) PROVE Kept
  BY <1>2, <1>10, <1>16, <1>17
     DEF PollerStep, PollError, ListIterations, GetBatch, ReadRun, MarkCanceling, MarkEnded,
         FetchResult, PollRespond
<1>18. ASSUME NEW i \in Instances, ScanStuck(i) \/ RescueRun(i) \/ Crash(i) \/ DeleteInstance(i) \/ Restart(i)
       PROVE  Kept
  BY <1>2, <1>11, <1>18, NoRescue, Names DEF ScanStuck, Crash, Restart
<1>19. Kept
  BY <1>12, <1>13, <1>15, <1>17, <1>18 DEF Next, Noted
<1> QED
  BY <1>19 DEF Kept

\* So the claim of a run that is in work stays.
LEMMA ClaimSteps ==
    ASSUME OwnInv, OwnershipKept, Next
    PROVE  \A r \in Runs : run[r].state \notin {"pending", "pending_tools"} => SameClaim(r)
  BY ClaimMoves DEF Claimed, Unclaimed

\* An engaged run is claimed, so its claim stays.
LEMMA EngagedClaims ==
    ASSUME OwnInv, OwnershipKept, Next, NEW r \in Runs, NEW n \in Iters, Engaged(r, n)
    PROVE  SameClaim(r)
<1>1. run[r].state \notin {"pending", "pending_tools"}
  BY DEF OwnInv, Own, Submitted, Batching, IsTerminal, Terminal
<1> QED
  BY <1>1, ClaimSteps

\* A process goes by a crash and comes by a restart.
LEMMA UpChanges ==
    ASSUME Next
    PROVE  UNCHANGED up \/ \E i \in Instances : Crash(i) \/ Restart(i)
<1>1. ASSUME NEW r \in Runs, CreateRun(r) \/ Noted(r) \/ AgeClaim(r)
      PROVE  UNCHANGED up
  BY <1>1 DEF CreateRun, AgeClaim, Noted, DropNote, HandStep, HandleNote, CheckStuck, ReadListed,
              ContinueRun, HandError
<1>2. ASSUME NEW r \in Runs, NEW n \in Iters, EndBatch(r, n) \/ CancelBatch(r, n) \/ FinishTools(r, n)
      PROVE  UNCHANGED up
  BY <1>2 DEF EndBatch, CancelBatch, FinishTools
<1>3. ASSUME NEW i \in Instances, NEW m \in Modes, Claim(i, m) \/ WorkerStep(i, m) \/ WorkerError(i, m)
      PROVE  UNCHANGED up
  BY <1>3 DEF Claim, WorkerStep, WorkerError, Take, CreatePrompt, CreateIteration, SubmitBatch,
              RecordBatch, AdvanceRun, BeginStream, StreamReply, StreamRespond, StreamSettle, FailRun
<1>4. ASSUME NEW i \in Instances, PollerStep(i) \/ PollError(i)
      PROVE  UNCHANGED up
  BY <1>4 DEF PollerStep, PollError, ListIterations, GetBatch, ReadRun, MarkProcessing, MarkCanceling,
              MarkEnded, FetchResult, PollRespond, PollSettle, PollFail
<1>5. ASSUME NEW i \in Instances, ScanStuck(i) \/ RescueRun(i) \/ DeleteInstance(i)
      PROVE  UNCHANGED up
  BY <1>5 DEF ScanStuck, RescueRun, DeleteInstance
<1> QED
  BY <1>1, <1>2, <1>3, <1>4, <1>5 DEF Next, Noted

\* Where nothing restarts, what is up was up.
LEMMA UpSteps ==
    ASSUME OwnInv, Next, "restart" \notin Faults
    PROVE  \A i \in Instances : up'[i] => up[i]
<1>1. ASSUME NEW i \in Instances, Crash(i) PROVE \A j \in Instances : up'[j] => up[j]
  BY <1>1 DEF Crash, OwnInv, IndInv, TypeOK, Types
<1> QED
  BY <1>1, UpChanges DEF Restart

\* Who becomes a holder claims a pending run.
LEMMA HeldNew ==
    ASSUME OwnInv, Next, NEW i \in Instances, NEW m \in Modes, NEW r \in Runs,
           Held(i, m, r)', ~Held(i, m, r)
    PROVE  /\ Claim(i, m) /\ run[r].state = "pending" /\ run'[r].claimed = i
           /\ run'[r].state = ClaimedState(m) /\ run'[r].cur = run[r].cur
           /\ work'[i][m].pc = "idle" /\ work'[i][m].run = None
           /\ \A t \in work'[i][m].queue : t.base = run[t.run].cur /\ run[t.run].state = "pending"
<1>0. work \in [Instances -> [Modes -> Worker]] /\ run \in [Runs -> Row]
  BY DEF OwnInv, IndInv, TypeOK, Types
<1>1. PICK j \in Instances, k \in Modes : Claim(j, k)
  BY HeldSteps DEF HeldFewer
<1>2. PICK S \in (SUBSET Claimable(j, k)) \ {{}} :
        /\ run' = [q \in Runs |->
                   IF q \in S
                   THEN [run[q] EXCEPT !.claimed = j, !.aged = FALSE,
                           !.state = IF k = "batch" THEN "batch_submitting" ELSE "streaming"]
                   ELSE run[q]]
        /\ work' = [work EXCEPT ![j][k].queue = {[run |-> q, base |-> run[q].cur] : q \in S}]
  BY <1>1 DEF Claim
<1> DEFINE Q == {[run |-> q, base |-> run[q].cur] : q \in S}
<1>3. /\ work[j][k].pc = "idle" /\ work[j][k].run = None
      /\ \A q \in S : q \in Runs /\ run[q].state = "pending"
  BY <1>1, <1>2 DEF Claim, At, Claimable, OwnInv, Own, Hands
<1>4. /\ work'[j][k].pc = "idle" /\ work'[j][k].run = None /\ work'[j][k].queue = Q
      /\ \A a \in Instances, b \in Modes : a # j \/ b # k => work'[a][b] = work[a][b]
  <2>1. work' = [work EXCEPT ![j][k] = [work[j][k] EXCEPT !.queue = Q]]
    BY <1>2
  <2> HIDE DEF Q
  <2>2. work[j][k] \in Worker
    BY <1>0
  <2>3. work'[j][k] = [work[j][k] EXCEPT !.queue = Q]
    BY <1>0, <2>1
  <2>4. \A a \in Instances, b \in Modes : a # j \/ b # k => work'[a][b] = work[a][b]
    BY <1>0, <2>1
  <2> QED
    BY <1>3, <2>2, <2>3, <2>4 DEF Worker
<1>5. \A t \in Q : t.run \in S /\ t.base = run[t.run].cur
  OBVIOUS
<1> HIDE DEF Q
<1>6. i = j /\ m = k
  BY <1>4 DEF Held
<1>7. \E t \in Q : t.run = r
  BY <1>4, <1>6, NoneAssumption DEF Held
<1>8. r \in S
  BY <1>5, <1>7
<1>9. run'[r].claimed = j /\ run'[r].state = ClaimedState(k) /\ run'[r].cur = run[r].cur
  BY <1>0, <1>2, <1>8 DEF Row, ClaimedState
<1> QED
  BY <1>1, <1>3, <1>4, <1>5, <1>6, <1>8, <1>9

\* An iteration gets into the API when the worker that holds its run records it.
LEMMA StatusNew ==
    ASSUME OwnInv, Next, NEW r \in Runs, NEW n \in Iters,
           status'[r][n] = "in_progress", status[r][n] # "in_progress"
    PROVE  \E i \in Instances : /\ RecordBatch(i, "batch") /\ work[i]["batch"].run = r
                                /\ work[i]["batch"].base + 1 = n
<1>1. PICK i \in Instances : RecordBatch(i, "batch")
  BY StatusSteps
<1>2. /\ Types /\ Assigned /\ status \in [Runs -> [Iters -> Statuses]] /\ "batch" \in Modes
      /\ work[i]["batch"].pc = "record"
      /\ status' = [status EXCEPT ![work[i]["batch"].run][work[i]["batch"].base + 1] = "in_progress"]
  BY <1>1, Names DEF OwnInv, IndInv, TypeOK, Types, Assigned, RecordBatch, At
<1>3. work[i]["batch"].run \in Runs /\ work[i]["batch"].base + 1 \in Iters
  BY <1>2, WorkerTask
<1>4. work[i]["batch"].run = r /\ work[i]["batch"].base + 1 = n
  BY <1>2, <1>3
<1> QED
  BY <1>1, <1>4

\* So does an iteration that becomes engaged.
LEMMA EngagedNew ==
    ASSUME OwnInv, Next, NEW r \in Runs, NEW n \in Iters, Engaged(r, n)', ~Engaged(r, n)
    PROVE  \E i \in Instances : /\ RecordBatch(i, "batch") /\ work[i]["batch"].run = r
                                /\ work[i]["batch"].base + 1 = n
<1>1. PICK i \in Instances : RecordBatch(i, "batch")
  BY EngagedSteps DEF EngagedFewer
<1>2. status'[r][n] = "in_progress" /\ status[r][n] # "in_progress"
  BY <1>1 DEF Engaged, RecordBatch
<1> QED
  BY <1>2, StatusNew

\* Who may change the state of a run.
Mover(r) ==
    \/ CreateRun(r) \/ Continuing(r)
    \/ \E i \in Instances, m \in Modes : Claim(i, m) /\ run[r].state = "pending"
    \/ \E i \in Instances, m \in Modes :
          /\ work[i][m].run = r
          /\ \/ m = "batch" /\ AdvanceRun(i, m)
             \/ m = "streaming" /\ StreamSettle(i, m)
             \/ FailRun(i, m)
    \/ \E i \in Instances :
          poll[i].run = r /\ (MarkProcessing(i) \/ PollSettle(i) \/ PollFail(i))
    \/ \E i \in Instances : DeleteInstance(i) /\ run[r].claimed = i /\ ~IsTerminal(r)

\* Nobody else does, where runs are not rescued.
LEMMA StateSteps ==
    ASSUME OwnInv, OwnershipKept, Next, NEW r \in Runs, run'[r].state # run[r].state
    PROVE  Mover(r)
<1>0. Types /\ Assigned /\ run \in [Runs -> Row]
  BY DEF OwnInv, IndInv, TypeOK, Types, Assigned
<1>1. ASSUME NEW q \in Runs, NEW new, Write(q, new) PROVE q = r
  BY <1>0, <1>1 DEF Write
<1>2. UNCHANGED run => FALSE
  OBVIOUS
<1>3. ASSUME NEW q \in Runs, CreateRun(q) \/ Noted(q) \/ AgeClaim(q)
      PROVE  Mover(r)
  <2>1. CASE CreateRun(q)
    <3>1. q = r
      BY <1>0, <2>1 DEF CreateRun
    <3> QED
      BY <2>1, <3>1 DEF Mover
  <2>2. CASE Continuing(q)
    <3>1. q = r
      BY <1>0, <2>2 DEF Continuing, Continue, Continued
    <3> QED
      BY <2>2, <3>1 DEF Mover
  <2>3. CASE AgeClaim(q)
    BY <1>0, <2>3 DEF AgeClaim, Row
  <2> QED
    BY <1>2, <1>3, <2>1, <2>2, <2>3, NoteSteps
<1>4. ASSUME NEW q \in Runs, NEW n \in Iters, EndBatch(q, n) \/ CancelBatch(q, n) \/ FinishTools(q, n)
      PROVE  Mover(r)
  BY <1>2, <1>4 DEF EndBatch, CancelBatch, FinishTools
<1>5. ASSUME NEW i \in Instances, NEW m \in Modes, Claim(i, m) PROVE Mover(r)
  <2>1. run[r].state = "pending"
    BY <1>0, <1>5 DEF Claim, Claimable
  <2> QED
    BY <1>5, <2>1 DEF Mover
<1>6. ASSUME NEW i \in Instances, NEW m \in Modes, work[i][m].pc # "idle",
             NEW new, Write(work[i][m].run, new)
      PROVE  work[i][m].run = r
  <2>1. work[i][m].run \in Runs
    BY <1>0, <1>6, WorkerTask
  <2> QED
    BY <1>1, <1>6, <2>1
<1>7. ASSUME NEW i \in Instances, NEW m \in Modes, AdvanceRun(i, m) \/ StreamSettle(i, m) \/ FailRun(i, m)
      PROVE  work[i][m].run = r
  BY <1>6, <1>7 DEF AdvanceRun, StreamSettle, FailRun, At, Settle
<1>8. ASSUME NEW i \in Instances, NEW m \in Modes, BeginStream(i, m) PROVE FALSE
  <2>1. work[i][m].run \in Runs
    BY <1>0, <1>8, WorkerTask DEF BeginStream, At
  <2> QED
    BY <1>0, <1>8, <2>1 DEF BeginStream, Row
<1>9. ASSUME NEW i \in Instances, NEW m \in Modes, WorkerStep(i, m) \/ WorkerError(i, m)
      PROVE  Mover(r)
  BY <1>2, <1>7, <1>8, <1>9
     DEF Mover, WorkerStep, WorkerError, Take, CreatePrompt, CreateIteration, SubmitBatch, RecordBatch,
         StreamReply, StreamRespond
<1>10. ASSUME NEW i \in Instances, MarkProcessing(i) \/ PollSettle(i) \/ PollFail(i)
       PROVE  poll[i].run = r
  <2>1. poll[i].run \in Runs
    BY <1>0, <1>10, PollerTask DEF MarkProcessing, PollSettle, PollFail, Polls
  <2> QED
    BY <1>1, <1>10, <2>1 DEF MarkProcessing, PollSettle, PollFail, Settle
<1>11. ASSUME NEW i \in Instances, PollerStep(i) \/ PollError(i) PROVE Mover(r)
  BY <1>2, <1>10, <1>11
     DEF Mover, PollerStep, PollError, ListIterations, GetBatch, ReadRun, MarkCanceling, MarkEnded,
         FetchResult, PollRespond
<1>12. ASSUME NEW i \in Instances, DeleteInstance(i) PROVE Mover(r)
  <2>1. run[r].claimed = i /\ ~IsTerminal(r)
    BY <1>0, <1>12 DEF DeleteInstance
  <2> QED
    BY <1>12, <2>1 DEF Mover
<1>13. ASSUME NEW i \in Instances, ScanStuck(i) \/ RescueRun(i) \/ Crash(i) \/ Restart(i) PROVE Mover(r)
  BY <1>2, <1>13, NoRescue, Names DEF ScanStuck, Crash, Restart
<1> QED
  BY <1>3, <1>4, <1>5, <1>9, <1>11, <1>12, <1>13 DEF Next, Noted

-----------------------------------------------------------------------------
(* The end of a run is final.                                              *)

\* A process that is down works on nothing.
Down ==
    \A i \in Instances : ~up[i] =>
        /\ poll[i].pc = "idle"
        /\ \A m \in Modes, r \in Runs : ~Held(i, m, r)

\* Nobody works on what has ended, and who could come back to it is down.
Ended ==
    \A r \in Runs : IsTerminal(r) =>
        /\ Free(r)
        /\ \A n \in Iters : Engaged(r, n) => ~up[run[r].claimed]

EndInv == OwnInv /\ Down /\ Ended

\* A poller starts with an entry of its list.
LEMMA PollBusy ==
    ASSUME OwnInv, Next, NEW i \in Instances, poll'[i].pc # "idle"
    PROVE  poll[i].pc # "idle" \/ GetBatch(i)
<1>0. poll \in [Instances -> Poller]
  BY DEF OwnInv, IndInv, TypeOK, Types
<1>1. ASSUME NEW j \in Instances, Crash(j) PROVE poll[i].pc # "idle"
  BY <1>0, <1>1 DEF Crash, Quiet
<1>2. ASSUME NEW j \in Instances, ListIterations(j) PROVE poll[i].pc # "idle"
  BY <1>0, <1>2 DEF ListIterations, Poller
<1>3. ASSUME NEW j \in Instances, GetBatch(j), j # i PROVE poll[i].pc # "idle"
  BY <1>0, <1>3 DEF GetBatch
<1>4. ASSUME NEW j \in Instances, PollNext(j) PROVE poll[i].pc # "idle"
  BY <1>0, <1>4, PollNextTypes
<1>5. ASSUME NEW j \in Instances, NEW pc \in PollerPCs, PollGoto(j, pc), poll[j].pc # "idle"
      PROVE  poll[i].pc # "idle"
  BY <1>0, <1>5, PollGotoTypes
<1> QED
  BY <1>1, <1>2, <1>3, <1>4, <1>5, PollSteps

\* Who is down stays at rest.
LEMMA DownStep ==
    ASSUME OwnInv, Down, Next
    PROVE  Down'
<1>0. /\ up \in [Instances -> BOOLEAN] /\ poll \in [Instances -> Poller]
      /\ work \in [Instances -> [Modes -> Worker]]
  BY DEF OwnInv, IndInv, TypeOK, Types
<1>1. ASSUME NEW i \in Instances, ~up'[i]
      PROVE  poll'[i].pc = "idle" /\ \A m \in Modes, r \in Runs : ~Held(i, m, r)'
  <2>1. CASE Crash(i)
    <3>1. poll'[i] = Quiet /\ \A m \in Modes : work'[i][m] = Rest
      BY <1>0, <2>1 DEF Crash
    <3> QED
      BY <3>1, NoneAssumption DEF Held, Quiet, Rest
  <2>2. CASE ~Crash(i)
    <3>1. ASSUME NEW j \in Instances, Crash(j) \/ Restart(j) PROVE ~up[i]
      BY <1>0, <1>1, <2>2, <3>1 DEF Crash, Restart
    <3>2. ~up[i]
      BY <1>1, <3>1, UpChanges
    <3>3. poll'[i].pc = "idle"
      BY <3>2, PollBusy DEF Down, GetBatch, Polls
    <3>4. ASSUME NEW m \in Modes, NEW r \in Runs, Held(i, m, r)' PROVE FALSE
      <4>1. Claim(i, m)
        BY <3>2, <3>4, HeldNew DEF Down
      <4>2. up[i]
        BY <4>1 DEF Claim, At
      <4> QED
        BY <3>2, <4>2
    <3> QED
      BY <3>3, <3>4
  <2> QED
    BY <2>1, <2>2
<1> QED
  BY <1>1 DEF Down

\* Nobody comes to hold or to engage a run that has ended.
LEMMA EndedStays ==
    ASSUME EndInv, OwnershipKept, "restart" \notin Faults, Next, NEW r \in Runs, IsTerminal(r)
    PROVE  /\ Free(r)'
           /\ \A n \in Iters : Engaged(r, n)' => ~up'[run'[r].claimed]
<1>0. run \in [Runs -> Row] /\ Types /\ Assigned
  BY DEF EndInv, OwnInv, IndInv, TypeOK, Types, Assigned
<1>1. Free(r) /\ \A n \in Iters : Engaged(r, n) => ~up[run[r].claimed]
  BY DEF EndInv, Ended
<1>2. Free(r)'
  <2>1. ASSUME NEW i \in Instances, NEW m \in Modes, Held(i, m, r)' PROVE FALSE
    <3>1. ~Held(i, m, r)
      BY <1>1 DEF Free
    <3>2. run[r].state = "pending"
      BY <2>1, <3>1, HeldNew DEF EndInv
    <3> QED
      BY <3>2 DEF IsTerminal, Terminal
  <2> QED
    BY <2>1 DEF Free
<1>3. ASSUME NEW n \in Iters, Engaged(r, n)' PROVE ~up'[run'[r].claimed]
  <2>1. Engaged(r, n)
    <3>1. ASSUME NEW i \in Instances, RecordBatch(i, "batch"), work[i]["batch"].run = r PROVE FALSE
      <4>1. "batch" \in Modes /\ Held(i, "batch", r)
        BY <3>1, Names DEF Held
      <4> QED
        BY <1>1, <4>1 DEF Free
    <3> QED
      BY <1>3, <3>1, EngagedNew DEF EndInv
  <2>2. SameClaim(r) /\ run[r].claimed \in Instances
    BY <1>0, <2>1, EngagedClaims DEF EndInv, OwnInv, Own, Submitted, Row
  <2>3. ~up[run[r].claimed]
    BY <1>1, <2>1
  <2> QED
    BY <2>2, <2>3, UpSteps DEF SameClaim, EndInv
<1> QED
  BY <1>2, <1>3

\* No live instance is taken for a dead one, nor a new one for its predecessor.
FinalityKept == OwnershipKept /\ Faults \cap {"stall", "restart"} = {}

\* Who ends a run is the last to work on it.
LEMMA EndedNow ==
    ASSUME EndInv, FinalityKept, Next, NEW r \in Runs, ~IsTerminal(r), IsTerminal(r)'
    PROVE  /\ Free(r)'
           /\ \A n \in Iters : Engaged(r, n)' => ~up'[run'[r].claimed]
<1>0. /\ run \in [Runs -> Row] /\ Types /\ Assigned /\ OwnInv /\ OwnershipKept
      /\ run[r].state \notin Terminal /\ run'[r].state \in Terminal
  BY DEF EndInv, OwnInv, IndInv, TypeOK, Types, Assigned, FinalityKept, IsTerminal
<1>1. Mover(r)
  BY <1>0, StateSteps
<1>2. ASSUME NEW i \in Instances, NEW m \in Modes, work[i][m].run = r, work[i][m].pc # "idle",
             Next1(i, m), UNCHANGED <<status, poll>>, \A n \in Iters : ~Engaged(r, n)
      PROVE  Free(r)' /\ \A n \in Iters : ~Engaged(r, n)'
  BY <1>0, <1>2, Next1Held DEF Engaged
<1>3. ASSUME NEW new, Write(r, new) PROVE Consistent(new) /\ run'[r] = new
  BY <1>0, <1>3 DEF Write
<1>4. ASSUME NEW i \in Instances, work[i]["streaming"].run = r, StreamSettle(i, "streaming")
      PROVE  Free(r)' /\ \A n \in Iters : ~Engaged(r, n)'
  <2>1. "streaming" \in Modes /\ "streaming" # "batch" /\ Held(i, "streaming", r)
    BY <1>4, Names DEF Held
  <2>2. \A n \in Iters : ~Engaged(r, n)
    BY <1>0, <2>1 DEF OwnInv, Own, Claims, Submitted
  <2>3. /\ Settle(r, work[i]["streaming"].base + 1) /\ work[i]["streaming"].pc # "idle"
        /\ UNCHANGED <<status, poll>>
    BY <1>4 DEF StreamSettle, At
  <2>4. Consistent(SettledRow(r, work[i]["streaming"].base + 1))
    BY <1>3, <2>3 DEF Settle
  <2>5. Next1(i, "streaming")
    BY <1>4, <2>4 DEF StreamSettle
  <2> QED
    BY <1>2, <1>4, <2>1, <2>2, <2>3, <2>5
<1>5. ASSUME NEW i \in Instances, NEW m \in Modes, work[i][m].run = r, FailRun(i, m)
      PROVE  Free(r)' /\ \A n \in Iters : ~Engaged(r, n)'
  <2>1. /\ work[i][m].pc = "fail" /\ Next1(i, m) /\ UNCHANGED <<status, poll>> /\ Held(i, m, r)
    BY <1>5 DEF FailRun, At, Held
  <2>2. \A n \in Iters : ~Engaged(r, n)
    BY <1>0, <2>1 DEF OwnInv, Own, Waiting, IsTerminal
  <2> QED
    BY <1>2, <1>5, <2>1, <2>2
<1>6. ASSUME NEW i \in Instances, poll[i].run = r, PollSettle(i) \/ PollFail(i)
      PROVE  Free(r)' /\ \A n \in Iters : ~Engaged(r, n)'
  <2>1. /\ poll[i].pc \in {"settle", "fail"} /\ PollNext(i) /\ UNCHANGED <<status, work>>
        /\ poll[i].pc \in Handling
    BY <1>6 DEF PollSettle, PollFail, Polls, Handling
  <2>2. Free(r)
    BY <1>0, <1>6, <2>1 DEF OwnInv, Own, Polling, PollerOwns, IsTerminal
  <2>3. Free(r)'
    BY <2>1, <2>2 DEF Free, Held
  <2> QED
    BY <1>0, <1>6, <2>1, <2>3, PolledDone
<1>7. ASSUME NEW i \in Instances, DeleteInstance(i), run[r].claimed = i
      PROVE  Free(r)' /\ \A n \in Iters : Engaged(r, n)' => ~up'[run'[r].claimed]
  <2>1. UNCHANGED <<status, poll, work, up>> /\ ~up[i]
    BY <1>7 DEF DeleteInstance, FinalityKept
  <2>2. Free(r)
    BY <1>0, <1>7, <2>1 DEF EndInv, Down, Free, OwnInv, Own, Claims
  <2>3. Free(r)'
    BY <2>1, <2>2 DEF Free, Held
  <2>4. ASSUME NEW n \in Iters, Engaged(r, n)' PROVE run'[r].claimed = i
    <3>1. Engaged(r, n)
      BY <2>1, <2>4 DEF Engaged
    <3> QED
      BY <1>0, <1>7, <3>1, EngagedClaims DEF SameClaim
  <2> QED
    BY <2>1, <2>3, <2>4
<1>8. ASSUME NEW i \in Instances, NEW m \in Modes, work[i][m].run = r, AdvanceRun(i, m) PROVE FALSE
  <2>1. Write(r, AdvancedRow(r, work[i][m].base + 1))
    BY <1>8 DEF AdvanceRun
  <2>2. run'[r] = AdvancedRow(r, work[i][m].base + 1)
    BY <1>3, <2>1
  <2> QED
    BY <1>0, <2>2 DEF AdvancedRow, Row, Terminal
<1>9. ASSUME NEW i \in Instances, poll[i].run = r, MarkProcessing(i) PROVE FALSE
  <2>1. Write(r, [run[r] EXCEPT !.state = "batch_processing"])
    BY <1>9 DEF MarkProcessing
  <2>2. run'[r] = [run[r] EXCEPT !.state = "batch_processing"]
    BY <1>3, <2>1
  <2> QED
    BY <1>0, <2>2 DEF Row, Terminal
<1>10. ~CreateRun(r) /\ ~Continuing(r)
  <2>1. ASSUME Continuing(r) PROVE FALSE
    <3>1. run' = [run EXCEPT ![r] = Continued(r)]
      BY <2>1 DEF Continuing, Continue
    <3> QED
      BY <1>0, <3>1 DEF Continued, Row, Terminal
  <2> QED
    BY <1>0, <2>1 DEF CreateRun, Row, Terminal
<1>11. ASSUME NEW i \in Instances, NEW m \in Modes, Claim(i, m) PROVE FALSE
  BY <1>0, <1>11 DEF Claim, Row, Terminal
<1> QED
  BY <1>1, <1>4, <1>5, <1>6, <1>7, <1>8, <1>9, <1>10, <1>11 DEF Mover

\* Every step keeps what is known of the runs that have ended.
LEMMA EndInvStep ==
    ASSUME EndInv, [Next]_vars, FinalityKept
    PROVE  EndInv'
<1>0. OwnershipKept /\ "restart" \notin Faults /\ OwnInv'
  BY OwnInvStep DEF FinalityKept, EndInv
<1>1. CASE UNCHANGED vars
  <2>1. Down' /\ Ended'
    BY <1>1 DEF vars, EndInv, Down, Ended, Held, Free, Engaged, IsTerminal
  <2> QED
    BY <1>0, <2>1 DEF EndInv
<1>2. CASE Next
  <2>1. Down'
    BY <1>2, DownStep DEF EndInv
  <2>2. ASSUME NEW r \in Runs, IsTerminal(r)'
        PROVE  Free(r)' /\ \A n \in Iters : Engaged(r, n)' => ~up'[run'[r].claimed]
    BY <1>0, <1>2, <2>2, EndedStays, EndedNow
  <2>3. Ended'
    BY <2>2 DEF Ended
  <2> QED
    BY <1>0, <2>1, <2>3 DEF EndInv
<1> QED
  BY <1>1, <1>2

\* No run has ended and all processes live when the database is empty.
LEMMA EndInvInit == Init => EndInv
<1> SUFFICES ASSUME Init PROVE EndInv
  OBVIOUS
<1>1. \A r \in Runs : ~IsTerminal(r)
  BY DEF Init, IsTerminal, Terminal
<1>2. \A i \in Instances : up[i]
  BY DEF Init
<1> QED
  BY <1>1, <1>2, OwnInvInit DEF EndInv, Down, Ended

\* In every reachable state nobody is left who would write to a run that has ended.
THEOREM EndInvHolds ==
    ASSUME FinalityKept
    PROVE  Spec => []EndInv
  BY EndInvInit, EndInvStep, PTL DEF Spec

\* Completed and failed are final, neither overwrites the other, though no UPDATE of a
\* worker, of the poller or of failRun looks at the state it replaces: where runs are
\* not rescued and only dead instances lose their row, nobody is left to write.
THEOREM EndIsFinal ==
    ASSUME FinalityKept
    PROVE  Spec => TerminalIsFinal
<1>1. EndInv /\ [Next]_vars => [\A r \in Runs : IsTerminal(r) => run'[r].state = run[r].state]_vars
  <2> SUFFICES ASSUME EndInv, Next, NEW r \in Runs, IsTerminal(r), run'[r].state # run[r].state
               PROVE  FALSE
    OBVIOUS
  <2>0. OwnInv /\ OwnershipKept /\ Types /\ Assigned
    BY DEF EndInv, OwnInv, FinalityKept, IndInv, TypeOK, Assigned
  <2>1. Mover(r)
    BY <2>0, StateSteps
  <2>2. run[r].state \notin {"absent", "pending", "pending_tools"}
    BY DEF IsTerminal, Terminal
  <2>3. \A i \in Instances, m \in Modes : work[i][m].run # r
    BY DEF EndInv, Ended, Free, Held
  <2>4. ASSUME NEW i \in Instances, poll[i].run = r, poll[i].pc # "idle", up[i] PROVE FALSE
    BY <2>0, <2>4, PollerEngaged DEF EndInv, Ended, OwnInv, Own
  <2> QED
    BY <2>1, <2>2, <2>3, <2>4
       DEF Mover, CreateRun, Continuing, Continue, Continued, MarkProcessing, PollSettle, PollFail, Polls
<1> QED
  BY <1>1, EndInvHolds, PTL DEF Spec, TerminalIsFinal

-----------------------------------------------------------------------------
(* What a step does to one worker, to one poller and to one conversation.  *)

\* The next control point of a worker that goes on with its run.
Onto(i, m, pc) ==
    \/ pc = "fail" /\ (work[i][m].pc = "iterate" \/ AdvanceRun(i, m) \/ StreamSettle(i, m))
    \/ CreatePrompt(i, m) /\ pc = "iterate"
    \/ work[i][m].pc = "iterate" /\ pc \in {"submit", "begin"}
    \/ work[i][m].pc = "submit" /\ pc = "record"
    \/ RecordBatch(i, m) /\ pc = "advance"
    \/ BeginStream(i, m) /\ pc = "stream"
    \/ work[i][m].pc = "stream" /\ pc = "respond"
    \/ m = "streaming" /\ StreamRespond(i, m) /\ pc = "settle"

Took(i, m) ==
    /\ work[i][m].pc = "idle"
    /\ \E t \in work[i][m].queue :
          /\ work'[i][m].pc = IF t.base = 0 THEN "prompt" ELSE "iterate"
          /\ work'[i][m].run = t.run /\ work'[i][m].base = t.base
          /\ work'[i][m].queue = work[i][m].queue \ {t}

WentOn(i, m) ==
    /\ work[i][m].pc # "idle" /\ work'[i][m].run = work[i][m].run
    /\ work'[i][m].base = work[i][m].base /\ work'[i][m].queue = work[i][m].queue
    /\ Onto(i, m, work'[i][m].pc)

Finished(i, m) ==
    /\ work[i][m].pc # "idle" /\ work'[i][m].pc = "idle" /\ work'[i][m].run = None
    /\ work'[i][m].queue = work[i][m].queue
    /\ (m = "batch" /\ AdvanceRun(i, m)) \/ (m = "streaming" /\ StreamSettle(i, m)) \/ FailRun(i, m)

\* Each worker stays, takes a run, goes on with it or is done with it, claims or stops.
LEMMA WorkMoves ==
    ASSUME OwnInv, OwnershipKept, Next, NEW i \in Instances, NEW m \in Modes
    PROVE  \/ work'[i][m] = work[i][m]
           \/ Took(i, m) \/ WentOn(i, m) \/ Finished(i, m)
           \/ Claim(i, m) /\ work'[i][m].pc = "idle" /\ work'[i][m].run = None
           \/ Crash(i) /\ work'[i][m] = Rest
<1> DEFINE Moved == \/ work'[i][m] = work[i][m]
                    \/ Took(i, m) \/ WentOn(i, m) \/ Finished(i, m)
                    \/ Claim(i, m) /\ work'[i][m].pc = "idle" /\ work'[i][m].run = None
                    \/ Crash(i) /\ work'[i][m] = Rest
<1>0. work \in [Instances -> [Modes -> Worker]]
  BY DEF OwnInv, IndInv, TypeOK, Types
<1>1. ASSUME UNCHANGED work PROVE Moved
  BY <1>1
<1>2. ASSUME NEW j \in Instances, Crash(j) PROVE Moved
  BY <1>0, <1>2 DEF Crash
<1>3. ASSUME NEW j \in Instances, NEW k \in Modes, Claim(j, k) PROVE Moved
  <2>0. \E Q : work' = [work EXCEPT ![j][k] = [work[j][k] EXCEPT !.queue = Q]]
    BY <1>3 DEF Claim
  <2>1. CASE j = i /\ k = m
    <3>1. PICK Q : work' = [work EXCEPT ![i][m] = [work[i][m] EXCEPT !.queue = Q]]
      BY <2>0, <2>1
    <3>2. work[i][m] \in Worker /\ work'[i][m] = [work[i][m] EXCEPT !.queue = Q]
      BY <1>0, <3>1
    <3>3. work'[i][m].pc = work[i][m].pc /\ work'[i][m].run = work[i][m].run
      BY <3>2 DEF Worker
    <3>4. work[i][m].pc = "idle" /\ work[i][m].run = None
      BY <1>3, <2>1 DEF Claim, At, OwnInv, Own, Hands
    <3> QED
      BY <1>3, <2>1, <3>3, <3>4
  <2>2. CASE j # i \/ k # m
    <3>2. work'[i][m] = work[i][m]
      BY <1>0, <2>0, <2>2
    <3> QED
      BY <3>2
  <2> QED
    BY <2>1, <2>2
<1>4. ASSUME NEW j \in Instances, NEW k \in Modes, Take(j, k) PROVE Moved
  <2>1. PICK t \in work[j][k].queue :
          work' = [work EXCEPT ![j][k] =
                   [pc |-> IF t.base = 0 THEN "prompt" ELSE "iterate",
                    run |-> t.run, base |-> t.base, queue |-> work[j][k].queue \ {t}]]
    BY <1>4 DEF Take
  <2>2. CASE j = i /\ k = m
    <3>1. work'[i][m] = [pc |-> IF t.base = 0 THEN "prompt" ELSE "iterate",
                         run |-> t.run, base |-> t.base, queue |-> work[i][m].queue \ {t}]
      BY <1>0, <2>1, <2>2
    <3>2. Took(i, m)
      BY <1>4, <2>2, <3>1 DEF Took, Take, At
    <3> QED
      BY <3>2
  <2>3. CASE j # i \/ k # m
    BY <1>0, <2>1, <2>3
  <2> QED
    BY <2>2, <2>3
<1>5. ASSUME NEW j \in Instances, NEW k \in Modes, NEW pc \in WorkerPCs, Goto(j, k, pc),
             work[j][k].pc # "idle", Onto(j, k, pc)
      PROVE  Moved
  <2>1. /\ work'[j][k].pc = pc /\ work'[j][k].run = work[j][k].run
        /\ work'[j][k].base = work[j][k].base /\ work'[j][k].queue = work[j][k].queue
        /\ \A a \in Instances, b \in Modes : a # j \/ b # k => work'[a][b] = work[a][b]
    BY <1>0, <1>5, GotoTypes
  <2>2. CASE j = i /\ k = m
    BY <1>5, <2>1, <2>2 DEF WentOn
  <2>3. CASE j # i \/ k # m
    BY <2>1, <2>3
  <2> QED
    BY <2>2, <2>3
<1>6. ASSUME NEW j \in Instances, NEW k \in Modes, Next1(j, k), work[j][k].pc # "idle",
             (k = "batch" /\ AdvanceRun(j, k)) \/ (k = "streaming" /\ StreamSettle(j, k)) \/ FailRun(j, k)
      PROVE  Moved
  <2>1. /\ work'[j][k].pc = "idle" /\ work'[j][k].run = None /\ work'[j][k].queue = work[j][k].queue
        /\ \A a \in Instances, b \in Modes : a # j \/ b # k => work'[a][b] = work[a][b]
    BY <1>0, <1>6, Next1Types
  <2>2. CASE j = i /\ k = m
    BY <1>6, <2>1, <2>2 DEF Finished
  <2>3. CASE j # i \/ k # m
    BY <2>1, <2>3
  <2> QED
    BY <2>2, <2>3
<1> HIDE DEF Moved
<1>7. ASSUME NEW j \in Instances, NEW k \in Modes, WorkerStep(j, k) PROVE Moved
  <2>0. {"iterate", "submit", "record", "advance", "begin", "stream", "respond", "settle", "fail"} \subseteq WorkerPCs
    BY Names
  <2>1. CASE Take(j, k)
    BY <1>4, <2>1
  <2>2. CASE CreatePrompt(j, k)
    BY <1>5, <2>0, <2>2 DEF CreatePrompt, At, Onto
  <2>3. CASE CreateIteration(j, k)
    BY <1>5, <2>0, <2>3 DEF CreateIteration, At, Onto
  <2>4. CASE FailRun(j, k)
    BY <1>6, <2>4 DEF FailRun, At
  <2>5. CASE k = "batch" /\ SubmitBatch(j, k)
    BY <1>5, <2>0, <2>5 DEF SubmitBatch, At, Onto
  <2>6. CASE k = "batch" /\ RecordBatch(j, k)
    BY <1>5, <2>0, <2>6 DEF RecordBatch, At, Onto
  <2>7. CASE k = "batch" /\ AdvanceRun(j, k)
    BY <1>5, <1>6, <2>0, <2>7 DEF AdvanceRun, At, Onto
  <2>8. CASE k = "streaming" /\ BeginStream(j, k)
    BY <1>5, <2>0, <2>8 DEF BeginStream, At, Onto
  <2>9. CASE k = "streaming" /\ StreamReply(j, k)
    BY <1>5, <2>0, <2>9 DEF StreamReply, At, Onto
  <2>10. CASE k = "streaming" /\ StreamRespond(j, k)
    BY <1>5, <2>0, <2>10 DEF StreamRespond, At, Onto
  <2>11. CASE k = "streaming" /\ StreamSettle(j, k)
    BY <1>5, <1>6, <2>0, <2>11 DEF StreamSettle, At, Onto
  <2> QED
    BY <1>7, <2>1, <2>2, <2>3, <2>4, <2>5, <2>6, <2>7, <2>8, <2>9, <2>10, <2>11 DEF WorkerStep
<1>8. ASSUME NEW r \in Runs, CreateRun(r) \/ Noted(r) \/ AgeClaim(r)
      PROVE  UNCHANGED work
  BY <1>8, NoteSteps DEF CreateRun, AgeClaim
<1>9. ASSUME NEW r \in Runs, NEW n \in Iters, EndBatch(r, n) \/ CancelBatch(r, n) \/ FinishTools(r, n)
      PROVE  UNCHANGED work
  BY <1>9 DEF EndBatch, CancelBatch, FinishTools
<1>10. ASSUME NEW j \in Instances, PollerStep(j) \/ PollError(j)
       PROVE  UNCHANGED work
  BY <1>10 DEF PollerStep, PollError, ListIterations, GetBatch, ReadRun, MarkProcessing, MarkCanceling,
               MarkEnded, FetchResult, PollRespond, PollSettle, PollFail
<1>11. ASSUME NEW j \in Instances, ScanStuck(j) \/ RescueRun(j) \/ DeleteInstance(j) \/ Restart(j)
       PROVE  UNCHANGED work
  BY <1>11 DEF ScanStuck, RescueRun, DeleteInstance, Restart
<1>12. \A j \in Instances, k \in Modes : ~WorkerError(j, k)
  BY NoRescue
<1>13. Moved
  BY <1>1, <1>2, <1>3, <1>7, <1>8, <1>9, <1>10, <1>11, <1>12 DEF Next, Noted
<1> QED
  BY <1>13 DEF Moved

\* current_iteration is written by the worker that has the run.
LEMMA CurMoves ==
    ASSUME OwnInv, Next, NEW r \in Runs, run'[r].cur # run[r].cur
    PROVE  \E i \in Instances, m \in Modes :
              /\ work[i][m].run = r /\ run'[r].cur = work[i][m].base + 1
              /\ AdvanceRun(i, m) \/ BeginStream(i, m)
<1>0. run \in [Runs -> Row] /\ Types /\ Assigned
  BY DEF OwnInv, IndInv, TypeOK, Types, Assigned
<1>1. ASSUME NEW i \in Instances, NEW m \in Modes, Claim(i, m) PROVE FALSE
  <2>1. PICK S \in (SUBSET Claimable(i, m)) \ {{}} :
          run' = [q \in Runs |->
                     IF q \in S
                     THEN [run[q] EXCEPT !.claimed = i, !.aged = FALSE,
                             !.state = IF m = "batch" THEN "batch_submitting" ELSE "streaming"]
                     ELSE run[q]]
    BY <1>1 DEF Claim
  <2> QED
    BY <1>0, <2>1 DEF Row
<1>2. ASSUME NEW i \in Instances, NEW m \in Modes, AdvanceRun(i, m)
      PROVE  work[i][m].run = r /\ run'[r].cur = work[i][m].base + 1
  <2> DEFINE q == work[i][m].run  n == work[i][m].base + 1
  <2>1. q \in Runs
    BY <1>0, <1>2, WorkerTask DEF AdvanceRun, At
  <2>2. AdvancedRow(q, n).cur = n
    BY <1>0, <2>1 DEF AdvancedRow, Row
  <2>3. run'[r] = run[r] \/ (q = r /\ run'[r] = AdvancedRow(q, n))
    BY <1>0, <1>2, <2>1 DEF AdvanceRun, Write
  <2> QED
    BY <2>2, <2>3
<1>3. ASSUME NEW i \in Instances, NEW m \in Modes, BeginStream(i, m)
      PROVE  work[i][m].run = r /\ run'[r].cur = work[i][m].base + 1
  <2>1. work[i][m].run \in Runs
    BY <1>0, <1>3, WorkerTask DEF BeginStream, At
  <2> QED
    BY <1>0, <1>3, <2>1 DEF BeginStream, Row
<1>4. ASSUME NEW i \in Instances, NEW m \in Modes,
             Take(i, m) \/ CreateIteration(i, m) \/ SubmitBatch(i, m) \/ StreamReply(i, m)
      PROVE  FALSE
  BY <1>4 DEF Take, CreateIteration, SubmitBatch, StreamReply
<1> QED
  BY <1>0, <1>1, <1>2, <1>3, <1>4, OnwardSteps DEF OwnInv, IndInv, CurKept

\* Each poller stays, handles the end of its batch, or has no end to handle.
LEMMA PollMoves ==
    ASSUME OwnInv, OwnershipKept, Next, NEW i \in Instances
    PROVE  \/ poll'[i] = poll[i]
           \/ poll'[i].pc \notin {"cancel", "ended", "fetch", "respond", "settle"}
           \/ GetBatch(i) /\ poll'[i].pc \in {"cancel", "ended"}
           \/ /\ poll'[i].run = poll[i].run /\ poll'[i].iter = poll[i].iter
              /\ \/ MarkEnded(i) /\ poll'[i].pc = "fetch"
                 \/ poll[i].pc = "fetch" /\ poll'[i].pc = "respond"
                 \/ PollRespond(i) /\ poll'[i].pc = "settle"
<1> DEFINE Moved ==
           \/ poll'[i] = poll[i]
           \/ poll'[i].pc \notin {"cancel", "ended", "fetch", "respond", "settle"}
           \/ GetBatch(i) /\ poll'[i].pc \in {"cancel", "ended"}
           \/ /\ poll'[i].run = poll[i].run /\ poll'[i].iter = poll[i].iter
              /\ \/ MarkEnded(i) /\ poll'[i].pc = "fetch"
                 \/ poll[i].pc = "fetch" /\ poll'[i].pc = "respond"
                 \/ PollRespond(i) /\ poll'[i].pc = "settle"
<1>0. poll \in [Instances -> Poller]
  BY DEF OwnInv, IndInv, TypeOK, Types
<1>1. ASSUME UNCHANGED poll PROVE Moved
  BY <1>1
<1>2. ASSUME NEW j \in Instances, Crash(j) PROVE Moved
  BY <1>0, <1>2 DEF Crash, Quiet
<1>3. ASSUME NEW j \in Instances, ListIterations(j) PROVE Moved
  <2>1. CASE j = i
    BY <1>0, <1>3, <2>1 DEF ListIterations, Polls, Poller
  <2>2. CASE j # i
    BY <1>0, <1>3, <2>2 DEF ListIterations
  <2> QED
    BY <2>1, <2>2
<1>4. ASSUME NEW j \in Instances, GetBatch(j) PROVE Moved
  <2>1. PICK p \in poll[j].list :
            poll' = [poll EXCEPT ![j] =
                   [pc |-> CASE api[p[1]][p[2]] = "running"   -> "seen"
                             [] api[p[1]][p[2]] = "canceling" -> "cancel"
                             [] OTHER                         -> "ended",
                    run |-> p[1], iter |-> p[2], list |-> poll[j].list \ {p}]]
    BY <1>4 DEF GetBatch
  <2>2. /\ poll'[j].pc \in {"seen", "cancel", "ended"}
        /\ \A a \in Instances : a # j => poll'[a] = poll[a]
    BY <1>0, <2>1
  <2> QED
    BY <1>4, <2>2
<1>5. ASSUME NEW j \in Instances, PollNext(j) PROVE Moved
  BY <1>0, <1>5, PollNextTypes
<1>6. ASSUME NEW j \in Instances, NEW pc \in PollerPCs, PollGoto(j, pc),
             \/ pc \notin {"cancel", "ended", "fetch", "respond", "settle"}
             \/ MarkEnded(j) /\ pc = "fetch"
             \/ poll[j].pc = "fetch" /\ pc = "respond"
             \/ PollRespond(j) /\ pc = "settle"
      PROVE  Moved
  <2>1. /\ poll'[j].pc = pc /\ poll'[j].run = poll[j].run /\ poll'[j].iter = poll[j].iter
        /\ \A a \in Instances : a # j => poll'[a] = poll[a]
    BY <1>0, <1>6, PollGotoTypes
  <2>2. CASE j = i
    BY <1>6, <2>1, <2>2
  <2>3. CASE j # i
    BY <2>1, <2>3
  <2> QED
    BY <2>2, <2>3
<1> HIDE DEF Moved
<1>7. ASSUME NEW j \in Instances, PollerStep(j) PROVE Moved
  <2>0. {"mark", "fetch", "respond", "settle", "fail"} \subseteq PollerPCs
    BY Names
  <2>1. CASE ReadRun(j)
    BY <1>5, <1>6, <2>0, <2>1 DEF ReadRun
  <2>2. CASE MarkProcessing(j) \/ MarkCanceling(j) \/ PollSettle(j) \/ PollFail(j)
    BY <1>5, <2>2 DEF MarkProcessing, MarkCanceling, PollSettle, PollFail
  <2>3. CASE MarkEnded(j)
    BY <1>6, <2>0, <2>3 DEF MarkEnded
  <2>4. CASE FetchResult(j)
    BY <1>5, <1>6, <2>0, <2>4 DEF FetchResult, Polls
  <2>5. CASE PollRespond(j)
    BY <1>6, <2>0, <2>5 DEF PollRespond
  <2> QED
    BY <1>3, <1>4, <1>7, <2>1, <2>2, <2>3, <2>4, <2>5 DEF PollerStep
<1>8. ASSUME NEW r \in Runs, CreateRun(r) \/ Noted(r) \/ AgeClaim(r)
      PROVE  UNCHANGED poll
  BY <1>8, NoteSteps DEF CreateRun, AgeClaim
<1>9. ASSUME NEW r \in Runs, NEW n \in Iters, EndBatch(r, n) \/ CancelBatch(r, n) \/ FinishTools(r, n)
      PROVE  UNCHANGED poll
  BY <1>9 DEF EndBatch, CancelBatch, FinishTools
<1>10. ASSUME NEW j \in Instances, NEW m \in Modes, Claim(j, m) \/ WorkerStep(j, m) \/ WorkerError(j, m)
       PROVE  UNCHANGED poll
  BY <1>10 DEF Claim, WorkerStep, WorkerError, Take, CreatePrompt, CreateIteration, SubmitBatch,
               RecordBatch, AdvanceRun, BeginStream, StreamReply, StreamRespond, StreamSettle, FailRun
<1>11. ASSUME NEW j \in Instances, ScanStuck(j) \/ RescueRun(j) \/ DeleteInstance(j) \/ Restart(j)
       PROVE  UNCHANGED poll
  BY <1>11 DEF ScanStuck, RescueRun, DeleteInstance, Restart
<1>12. \A j \in Instances : ~PollError(j)
  BY NoRescue, Names
<1>13. Moved
  BY <1>1, <1>2, <1>7, <1>8, <1>9, <1>10, <1>11, <1>12 DEF Next, Noted
<1> QED
  BY <1>13 DEF Moved

\* A message is stored by the prompt, by an answer or by the tools' continuation.
LEMMA ConvMoves ==
    ASSUME OwnInv, Next, NEW r \in Runs, conv'[r] # conv[r]
    PROVE  \/ Continuing(r)
           \/ \E i \in Instances, m \in Modes :
                 work[i][m].run = r /\ (CreatePrompt(i, m) \/ (m = "streaming" /\ StreamRespond(i, m)))
           \/ \E i \in Instances : poll[i].run = r /\ PollRespond(i)
<1> DEFINE Spoken ==
           \/ Continuing(r)
           \/ \E i \in Instances, m \in Modes :
                 work[i][m].run = r /\ (CreatePrompt(i, m) \/ (m = "streaming" /\ StreamRespond(i, m)))
           \/ \E i \in Instances : poll[i].run = r /\ PollRespond(i)
<1>0. conv \in [Runs -> Seq(Message)] /\ Types /\ Assigned
  BY DEF OwnInv, IndInv, TypeOK, Types, Assigned
<1>1. ASSUME NEW q, NEW kind, NEW n, Said(q, kind, n) PROVE q = r
  BY <1>0, <1>1 DEF Said
<1>2. UNCHANGED conv => FALSE
  OBVIOUS
<1>3. ASSUME NEW q \in Runs, CreateRun(q) \/ Noted(q) \/ AgeClaim(q)
      PROVE  Spoken
  <2>1. Continuing(q)
    BY <1>2, <1>3, NoteSteps DEF CreateRun, AgeClaim
  <2>2. q = r
    BY <1>1, <2>1 DEF Continuing, Continue
  <2> QED
    BY <2>1, <2>2
<1>4. ASSUME NEW q \in Runs, NEW n \in Iters, EndBatch(q, n) \/ CancelBatch(q, n) \/ FinishTools(q, n)
      PROVE  FALSE
  BY <1>2, <1>4 DEF EndBatch, CancelBatch, FinishTools
<1>5. ASSUME NEW i \in Instances, NEW m \in Modes, Claim(i, m) \/ WorkerStep(i, m) \/ WorkerError(i, m)
      PROVE  Spoken
  <2>1. CreatePrompt(i, m) \/ (m = "streaming" /\ StreamRespond(i, m))
    BY <1>2, <1>5 DEF Claim, WorkerStep, WorkerError, Take, CreateIteration, SubmitBatch,
               RecordBatch, AdvanceRun, BeginStream, StreamReply, StreamSettle, FailRun
  <2>2. work[i][m].run = r
    BY <1>1, <2>1 DEF CreatePrompt, StreamRespond
  <2> QED
    BY <2>1, <2>2
<1>6. ASSUME NEW i \in Instances, PollerStep(i) \/ PollError(i) PROVE Spoken
  <2>1. PollRespond(i)
    BY <1>2, <1>6 DEF PollerStep, PollError, ListIterations, GetBatch, ReadRun, MarkProcessing,
                      MarkCanceling, MarkEnded, FetchResult, PollSettle, PollFail
  <2>2. poll[i].run = r
    BY <1>1, <2>1 DEF PollRespond
  <2> QED
    BY <2>1, <2>2
<1>7. ASSUME NEW i \in Instances, ScanStuck(i) \/ RescueRun(i) \/ Crash(i) \/ DeleteInstance(i) \/ Restart(i)
      PROVE  FALSE
  BY <1>2, <1>7 DEF ScanStuck, RescueRun, Crash, DeleteInstance, Restart
<1> HIDE DEF Spoken
<1>8. Spoken
  BY <1>3, <1>4, <1>5, <1>6, <1>7 DEF Next, Noted
<1> QED
  BY <1>8 DEF Spoken

-----------------------------------------------------------------------------
(* What a worker and a poller find in the conversation.                    *)

Last(r) == conv[r][Len(conv[r])]
Fresh(r) == conv[r] = <<>>
\* The messages up to iteration n wait for the model's answer.
Ready(r, n) == conv[r] # <<>> /\ Last(r).kind \in {"prompt", "tool_result"} /\ Last(r).iter = n
Says(r, kind, n) == conv[r] # <<>> /\ Last(r) = [kind |-> kind, iter |-> n]

\* A run that has done no iteration has no message, any other waits for an answer.
Begun(r, cur) == IF cur = 0 THEN Fresh(r) ELSE Ready(r, cur)

\* A run to be claimed is at the start or has its results, one that waits for tools
\* has asked for them in its current iteration.
RowTalks(r) ==
    /\ run[r].state = "absent" => run[r].cur = 0
    /\ run[r].state \in {"absent", "pending"} => Begun(r, run[r].cur)
    /\ run[r].state = "pending_tools" => run[r].cur > 0 /\ Says(r, "tools", run[r].cur)

Reading == {"iterate", "submit", "record", "advance", "begin", "stream", "respond"}

\* A worker asks when it is the model's turn, and settles what the model said last.
WorkerTalks(i, m, r) ==
    /\ \A t \in work[i][m].queue : t.run = r => Begun(r, t.base)
    /\ work[i][m].run = r =>
          /\ work[i][m].pc = "prompt" => Fresh(r) /\ work[i][m].base = 0
          /\ work[i][m].pc \in Reading => Ready(r, work[i][m].base)
          /\ work[i][m].pc = "settle" =>
                Says(r, api[r][work[i][m].base + 1], work[i][m].base + 1)

\* So does a poller.
PollerTalks(i, r) ==
    poll[i].run = r =>
        /\ poll[i].pc \in {"fetch", "respond"} => Ready(r, poll[i].iter - 1)
        /\ poll[i].pc = "settle" => Says(r, api[r][poll[i].iter], poll[i].iter)

Talks(r) ==
    /\ RowTalks(r)
    /\ \A i \in Instances, m \in Modes : WorkerTalks(i, m, r)
    /\ \A n \in Iters : status[r][n] = "in_progress" => Ready(r, n - 1)
    /\ \A i \in Instances : PollerTalks(i, r)

\* current_iteration is the iteration which is being answered, once its worker has
\* written it.
Current ==
    /\ \A i \in Instances, m \in Modes, r \in Runs :
          work[i][m].run = r /\ work[i][m].pc \in {"stream", "respond", "settle"} =>
              run[r].cur = work[i][m].base + 1
    /\ \A r \in Runs, n \in Iters :
          Engaged(r, n) /\ ~IsTerminal(r) /\ up[run[r].claimed] /\ Free(r) => run[r].cur = n

\* The API knows of no iteration beyond current_iteration, but for one that its submitter
\* has yet to write there, or never will.
Ahead ==
    \A r \in Runs, n \in Iters : api[r][n] # "none" /\ n > run[r].cur =>
        \/ IsTerminal(r)
        \/ run[r].state = "batch_submitting" /\ \E i \in Instances : run[r].claimed = i /\ ~up[i]
        \/ \E i \in Instances : /\ work[i]["batch"].run = r /\ work[i]["batch"].base + 1 = n
                                /\ work[i]["batch"].pc \in {"record", "advance"}

\* What a handler has read is the last iteration that is answered, so that the results it
\* stores are those of the iteration in which the run waits (see TalkKept).
Handed ==
    \A i \in Instances : hand[i].pc = "continue" =>
        /\ hand[i].iter <= run[hand[i].run].cur
        /\ run[hand[i].run].state = "pending_tools" => hand[i].iter = run[hand[i].run].cur
        /\ \A n \in Iters : n > hand[i].iter => api[hand[i].run][n] \notin Answers

TalkInv ==
    /\ OwnInv /\ Down /\ Current /\ Ahead /\ Handed
    /\ (\A r \in Runs : Talks(r)) /\ WellFormedConversation

\* A new instance is not taken for its predecessor, and a handler of completions is done
\* before the model has answered the next turn.
TalkKept == OwnershipKept /\ Faults \cap {"restart", "late_notify"} = {}

\* An effective write of a run that has not ended.
LEMMA WriteOpen ==
    ASSUME OwnInv, NEW r \in Runs, ~IsTerminal(r), NEW new, Write(r, new),
           new.final = run[r].final, new.state \notin Terminal
    PROVE  run'[r] = new
  BY DEF OwnInv, IndInv, RowsConsistent, TypeOK, Types, Consistent, IsTerminal, Write

\* The worker writes current_iteration before it lets go of the run.
LEMMA CurrentStep ==
    ASSUME OwnInv, Current, TalkKept, Next
    PROVE  Current'
<1>0. /\ OwnershipKept /\ Types /\ Assigned /\ run \in [Runs -> Row]
      /\ work \in [Instances -> [Modes -> Worker]] /\ up \in [Instances -> BOOLEAN]
  BY DEF OwnInv, IndInv, TypeOK, Types, Assigned, TalkKept
<1>1. ASSUME NEW i \in Instances, NEW m \in Modes, NEW r \in Runs, work'[i][m].run = r,
             work'[i][m].pc \in {"stream", "respond", "settle"}
      PROVE  run'[r].cur = work'[i][m].base + 1
  <2>1. ASSUME work[i][m].run = r, work[i][m].pc \in {"stream", "respond", "settle"},
               work'[i][m].base = work[i][m].base
        PROVE  run'[r].cur = work'[i][m].base + 1
    <3>1. run[r].cur = work[i][m].base + 1
      BY <2>1 DEF Current
    <3>2. ASSUME NEW j \in Instances, NEW k \in Modes, work[j][k].run = r,
                 AdvanceRun(j, k) \/ BeginStream(j, k)
          PROVE  FALSE
      <4>1. i = j /\ m = k
        BY <2>1, <3>2, HeldOnce DEF Held, OwnInv, Own
      <4> QED
        BY <2>1, <3>2, <4>1 DEF AdvanceRun, BeginStream, At
    <3> QED
      BY <2>1, <3>1, <3>2, CurMoves
  <2>2. CASE Took(i, m)
    BY <1>1, <2>2 DEF Took
  <2>3. CASE WentOn(i, m)
    <3>1. CASE BeginStream(i, m)
      BY <1>0, <1>1, <2>3, <3>1 DEF BeginStream, WentOn, Row
    <3>2. CASE ~BeginStream(i, m)
      BY <1>1, <2>1, <2>3, <3>2 DEF WentOn, Onto, StreamRespond, At
    <3> QED
      BY <3>1, <3>2
  <2>4. CASE Finished(i, m)
    BY <1>1, <2>4 DEF Finished
  <2> QED
    BY <1>0, <1>1, <2>1, <2>2, <2>3, <2>4, WorkMoves DEF Rest
<1>2. ASSUME NEW r \in Runs, NEW n \in Iters,
             Engaged(r, n)', ~IsTerminal(r)', up'[run'[r].claimed], Free(r)'
      PROVE  run'[r].cur = n
  <2>1. Engaged(r, n)
    <3>1. ASSUME NEW i \in Instances, RecordBatch(i, "batch"), work[i]["batch"].run = r
          PROVE  FALSE
      <4>1. "batch" \in Modes /\ "advance" \in WorkerPCs
        BY Names
      <4>2. work'[i]["batch"].run = r
        BY <1>0, <3>1, <4>1, GotoTypes DEF RecordBatch
      <4> QED
        BY <1>2, <4>1, <4>2 DEF Free, Held
    <3> QED
      BY <1>2, <3>1, EngagedNew
  <2>2. ~IsTerminal(r)
    BY <1>0, <1>2, RowsStep DEF RowsKept, IsTerminal, OwnInv, IndInv
  <2>3. run'[r].claimed = run[r].claimed /\ run[r].claimed \in Instances
    BY <1>0, <2>1, EngagedClaims DEF SameClaim, OwnInv, Own, Submitted, Row
  <2>4. up[run[r].claimed]
    BY <1>2, <2>3, UpSteps DEF TalkKept
  <2>5. CASE Free(r)
    <3>1. run[r].cur = n
      BY <2>1, <2>2, <2>4, <2>5 DEF Current
    <3> QED
      BY <2>5, <3>1, CurMoves DEF Free, Held
  <2>6. CASE ~Free(r)
    <3>1. PICK i \in Instances, m \in Modes : Held(i, m, r)
      BY <2>6 DEF Free
    <3>2. work[i][m].run = r /\ work[i][m].base + 1 = n /\ work[i][m].pc = "advance"
      BY <2>1, <2>2, <3>1 DEF OwnInv, Own, Waiting
    <3>3. run[r].claimed = i
      BY <3>1 DEF OwnInv, Own, Claims
    <3>4. work'[i][m].run # r
      BY <1>2 DEF Free, Held
    <3>5. ~Crash(i)
      BY <1>0, <1>2, <2>3, <3>3 DEF Crash
    <3>6. AdvanceRun(i, m)
      BY <1>0, <3>2, <3>4, <3>5, WorkMoves
         DEF Took, WentOn, Finished, StreamSettle, FailRun, Claim, At
    <3>7. /\ AdvancedRow(r, n).final = run[r].final /\ AdvancedRow(r, n).cur = n
          /\ AdvancedRow(r, n).state \notin Terminal
      BY <1>0 DEF AdvancedRow, Row, Terminal
    <3>8. Write(r, AdvancedRow(r, n))
      BY <3>2, <3>6 DEF AdvanceRun
    <3> QED
      BY <2>2, <3>7, <3>8, WriteOpen
  <2> QED
    BY <2>5, <2>6
<1> QED
  BY <1>1, <1>2 DEF Current

\* What the API knows of a request changes by its submission or by its answer.
LEMMA ApiMoves ==
    ASSUME OwnInv, Next, NEW r \in Runs, NEW n \in Iters, api'[r][n] # api[r][n]
    PROVE  \/ \E i \in Instances : /\ SubmitBatch(i, "batch")
                                   /\ work[i]["batch"].run = r /\ work[i]["batch"].base + 1 = n
           \/ \E i \in Instances : /\ StreamReply(i, "streaming")
                                   /\ work[i]["streaming"].run = r /\ work[i]["streaming"].base + 1 = n
           \/ EndBatch(r, n)
           \/ CancelBatch(r, n) /\ api'[r][n] \in {"canceling", "lost"}
<1> DEFINE Told ==
           \/ \E i \in Instances : /\ SubmitBatch(i, "batch")
                                   /\ work[i]["batch"].run = r /\ work[i]["batch"].base + 1 = n
           \/ \E i \in Instances : /\ StreamReply(i, "streaming")
                                   /\ work[i]["streaming"].run = r /\ work[i]["streaming"].base + 1 = n
           \/ EndBatch(r, n)
           \/ CancelBatch(r, n) /\ api'[r][n] \in {"canceling", "lost"}
<1>0. Types /\ Assigned /\ api \in [Runs -> [Iters -> ApiValues]]
  BY DEF OwnInv, IndInv, TypeOK, Types, Assigned, ApiValues
<1>1. ASSUME NEW q, NEW k, NEW v, api' = [api EXCEPT ![q][k] = v]
      PROVE  q = r /\ k = n /\ api'[r][n] = v
  BY <1>0, <1>1
<1>2. UNCHANGED api => FALSE
  OBVIOUS
<1>3. ASSUME NEW q \in Runs, NEW k \in Iters, EndBatch(q, k) \/ CancelBatch(q, k) \/ FinishTools(q, k)
      PROVE  Told
  <2>1. CASE EndBatch(q, k)
    <3>1. q = r /\ k = n
      BY <1>1, <2>1 DEF EndBatch
    <3> QED
      BY <2>1, <3>1
  <2>2. CASE CancelBatch(q, k)
    <3>1. \/ api' = [api EXCEPT ![q][k] = "canceling"]
          \/ api' = [api EXCEPT ![q][k] = "lost"]
      BY <2>2 DEF CancelBatch
    <3>2. CASE api' = [api EXCEPT ![q][k] = "canceling"]
      <4>1. q = r /\ k = n /\ api'[r][n] = "canceling"
        BY <1>1, <3>2
      <4> QED
        BY <2>2, <4>1
    <3>3. CASE api' = [api EXCEPT ![q][k] = "lost"]
      <4>1. q = r /\ k = n /\ api'[r][n] = "lost"
        BY <1>1, <3>3
      <4> QED
        BY <2>2, <4>1
    <3> QED
      BY <3>1, <3>2, <3>3
  <2> QED
    BY <1>2, <1>3, <2>1, <2>2 DEF FinishTools
<1>4. ASSUME NEW i \in Instances, NEW m \in Modes, Claim(i, m) \/ WorkerStep(i, m) \/ WorkerError(i, m)
      PROVE  Told
  <2>1. \/ m = "batch" /\ SubmitBatch(i, "batch")
        \/ m = "streaming" /\ StreamReply(i, "streaming")
    BY <1>2, <1>4 DEF Claim, WorkerStep, WorkerError, Take, CreatePrompt, CreateIteration, FailRun,
                RecordBatch, AdvanceRun, BeginStream, StreamRespond, StreamSettle
  <2>2. CASE SubmitBatch(i, "batch")
    BY <1>1, <2>2 DEF SubmitBatch
  <2>3. CASE StreamReply(i, "streaming")
    <3>1. work[i]["streaming"].run = r /\ work[i]["streaming"].base + 1 = n
      BY <1>1, <2>3 DEF StreamReply
    <3> QED
      BY <2>3, <3>1
  <2> QED
    BY <2>1, <2>2, <2>3
<1>5. ASSUME NEW q \in Runs, CreateRun(q) \/ Noted(q) \/ AgeClaim(q)
      PROVE  FALSE
  BY <1>2, <1>5, NoteSteps DEF CreateRun, AgeClaim
<1>6. ASSUME NEW i \in Instances, PollerStep(i) \/ PollError(i) PROVE FALSE
  BY <1>2, <1>6 DEF PollerStep, PollError, ListIterations, GetBatch, ReadRun, MarkProcessing,
               MarkCanceling, MarkEnded, FetchResult, PollRespond, PollSettle, PollFail
<1>7. ASSUME NEW i \in Instances, ScanStuck(i) \/ RescueRun(i) \/ Crash(i) \/ DeleteInstance(i) \/ Restart(i)
       PROVE  FALSE
  BY <1>2, <1>7 DEF ScanStuck, RescueRun, Crash, DeleteInstance, Restart
<1> HIDE DEF Told
<1>8. Told
  BY <1>3, <1>4, <1>5, <1>6, <1>7 DEF Next, Noted
<1> QED
  BY <1>8 DEF Told

\* A run whose owner is down is moved by nobody but the cleanup, which fails it.
LEMMA Abandoned ==
    ASSUME OwnInv, OwnInv', Down, OwnershipKept, Next, NEW r \in Runs, NEW i \in Instances,
           run[r].claimed = i, ~up[i], run[r].state = "batch_submitting"
    PROVE  run'[r].claimed = i /\ (run'[r].state = "batch_submitting" \/ run'[r].state \in Terminal)
<1>0. /\ run \in [Runs -> Row] /\ Types /\ Assigned
  BY DEF OwnInv, IndInv, TypeOK, Types, Assigned
<1>1. run'[r].claimed = i
  BY ClaimMoves DEF SameClaim, Claimed, Unclaimed
<1>2. ASSUME run'[r].state # "batch_submitting", run'[r].state \notin Terminal PROVE FALSE
  <2>1. Mover(r)
    BY <1>2, StateSteps
  <2>2. ~CreateRun(r) /\ ~Continuing(r)
    BY DEF CreateRun, Continuing, Continue
  <2>3. \A j \in Instances, m \in Modes : work[j][m].run # r
    BY DEF OwnInv, Own, Claims, Held, Down
  <2>4. \A j \in Instances : poll[j].run = r => poll[j].pc = "idle"
    BY <1>0, PollerEngaged DEF OwnInv, Own, Down
  <2>5. ASSUME NEW j \in Instances, DeleteInstance(j), run[r].claimed = j, ~IsTerminal(r) PROVE FALSE
    BY <1>0, <1>2, <2>5 DEF DeleteInstance, FailedRow, Row, Terminal
  <2> QED
    BY <2>1, <2>2, <2>3, <2>4, <2>5 DEF Mover, MarkProcessing, PollSettle, PollFail, Polls
<1> QED
  BY <1>1, <1>2

\* A request is sent for the iteration after current_iteration, which follows at once.
LEMMA AheadStep ==
    ASSUME OwnInv, OwnInv', Down, Current, Ahead, TalkKept, Next
    PROVE  Ahead'
<1>0. /\ OwnershipKept /\ Types /\ Assigned /\ run \in [Runs -> Row] /\ up \in [Instances -> BOOLEAN]
      /\ RowsKept /\ CurGrows
  BY RowsStep, CurStep DEF OwnInv, IndInv, TypeOK, Types, Assigned, TalkKept
<1>1. "batch" \in Modes /\ "streaming" \in Modes
  BY Names
<1>2. SUFFICES ASSUME NEW r \in Runs, NEW n \in Iters, api'[r][n] # "none", n > run'[r].cur,
                      run'[r].state \notin Terminal
               PROVE  \/ /\ run'[r].state = "batch_submitting"
                         /\ \E i \in Instances : run'[r].claimed = i /\ ~up'[i]
                      \/ \E i \in Instances :
                            /\ work'[i]["batch"].run = r /\ work'[i]["batch"].base + 1 = n
                            /\ work'[i]["batch"].pc \in {"record", "advance"}
  BY DEF Ahead, IsTerminal
<1>3. n > run[r].cur /\ ~IsTerminal(r) /\ run[r].cur \in Nat /\ run'[r].cur \in Nat
  <2>1. run[r].cur \in Nat /\ run'[r].cur \in Nat
    BY <1>0, BoundsAssumption DEF OwnInv, IndInv, TypeOK, Types, Row
  <2>2. run'[r].cur >= run[r].cur
    BY <1>0 DEF CurGrows
  <2> QED
    BY <1>0, <1>2, <2>1, <2>2, BoundsAssumption DEF RowsKept, Iters
<1>4. CASE api[r][n] = "none"
  <2>1. ASSUME NEW i \in Instances, StreamReply(i, "streaming"), work[i]["streaming"].run = r,
               work[i]["streaming"].base + 1 = n
        PROVE  FALSE
    BY <1>1, <1>3, <2>1 DEF StreamReply, At, Current
  <2>2. PICK i \in Instances : /\ SubmitBatch(i, "batch")
                               /\ work[i]["batch"].run = r /\ work[i]["batch"].base + 1 = n
    BY <1>2, <1>4, <2>1, ApiMoves DEF EndBatch, CancelBatch
  <2>3. /\ work'[i]["batch"].pc = "record" /\ work'[i]["batch"].run = r
        /\ work'[i]["batch"].base = work[i]["batch"].base
    BY <1>0, <1>1, <2>2, GotoTypes, Names DEF SubmitBatch, Types
  <2> QED
    BY <2>2, <2>3
<1>5. ASSUME NEW i \in Instances, run[r].claimed = i, ~up[i], run[r].state = "batch_submitting"
      PROVE  run'[r].state = "batch_submitting" /\ run'[r].claimed = i /\ ~up'[i]
  BY <1>0, <1>2, <1>5, Abandoned, UpSteps DEF TalkKept
<1>6. ASSUME NEW i \in Instances, work[i]["batch"].run = r, work[i]["batch"].base + 1 = n,
             work[i]["batch"].pc \in {"record", "advance"}
      PROVE  \/ /\ work'[i]["batch"].run = r /\ work'[i]["batch"].base + 1 = n
                /\ work'[i]["batch"].pc \in {"record", "advance"}
             \/ run'[r].state = "batch_submitting" /\ run'[r].claimed = i /\ ~up'[i]
  <2>1. run[r].claimed = i /\ run[r].state = "batch_submitting"
    BY <1>1, <1>3, <1>6 DEF OwnInv, Own, Claims, Held, ClaimedState
  <2>2. CASE WentOn(i, "batch") /\ ~AdvanceRun(i, "batch")
    <3>1. ~StreamSettle(i, "batch")
      BY <1>6 DEF StreamSettle, At
    <3> QED
      BY <1>6, <2>2, <3>1 DEF WentOn, Onto, BeginStream, CreatePrompt, StreamRespond, At
  <2>3. ASSUME AdvanceRun(i, "batch") PROVE FALSE
    <3>1. /\ AdvancedRow(r, n).final = run[r].final /\ AdvancedRow(r, n).cur = n
          /\ AdvancedRow(r, n).state \notin Terminal
      BY <1>0, <1>3, BoundsAssumption DEF AdvancedRow, Row, Terminal
    <3>2. Write(r, AdvancedRow(r, n))
      BY <1>6, <2>3 DEF AdvanceRun
    <3>3. run'[r] = AdvancedRow(r, n)
      BY <1>3, <3>1, <3>2, WriteOpen
    <3> QED
      BY <1>2, <1>3, <3>1, <3>3
  <2>4. CASE Crash(i)
    BY <1>0, <2>1, <2>4 DEF Crash
  <2>5. ~Took(i, "batch") /\ ~Claim(i, "batch") /\ ~FailRun(i, "batch")
    BY <1>6 DEF Took, Claim, FailRun, At
  <2> QED
    BY <1>0, <1>1, <1>6, <2>2, <2>3, <2>4, <2>5, WorkMoves DEF Finished
<1> QED
  BY <1>0, <1>2, <1>3, <1>4, <1>5, <1>6 DEF Ahead

\* A run comes to wait for its tools by the answer of its current iteration.
LEMMA ComesToWait ==
    ASSUME OwnInv, Down, Current, OwnershipKept, Next, NEW r \in Runs,
           run'[r].state = "pending_tools"
    PROVE  /\ run'[r].cur = run[r].cur
           /\ \/ run[r].state = "pending_tools"
              \/ run[r].cur \in Iters /\ api[r][run[r].cur] = "tools"
<1>0. /\ run \in [Runs -> Row] /\ Types /\ Assigned
  BY DEF OwnInv, IndInv, TypeOK, Types, Assigned
<1>1. CASE run[r].state = "pending_tools"
  BY <1>0, <1>1, CurMoves, Idle DEF Free, Held
<1>2. CASE run[r].state # "pending_tools"
  <2>0. Mover(r) /\ ~IsTerminal(r)
    BY <1>0, <1>2, StateSteps, RowsStep DEF OwnInv, IndInv, RowsKept, IsTerminal, Terminal
  <2>1. ~CreateRun(r) /\ ~Continuing(r)
    BY <1>0 DEF CreateRun, Continuing, Continue, Continued, Row
  <2>2. ASSUME NEW i \in Instances, NEW m \in Modes, Claim(i, m) PROVE FALSE
    <3>1. PICK S \in SUBSET Runs :
            run' = [q \in Runs |->
                      IF q \in S
                      THEN [run[q] EXCEPT !.claimed = i, !.aged = FALSE,
                              !.state = IF m = "batch" THEN "batch_submitting" ELSE "streaming"]
                      ELSE run[q]]
      BY <2>2 DEF Claim, Claimable
    <3>2. r \in S => run'[r].state \in {"batch_submitting", "streaming"}
      BY <1>0, <3>1 DEF Row
    <3>3. r \notin S => run'[r] = run[r]
      BY <3>1
    <3> QED
      BY <1>2, <3>2, <3>3
  <2>3. ASSUME NEW n \in Iters, Settle(r, n), run[r].cur = n
        PROVE  run'[r].cur = n /\ api[r][n] = "tools"
    <3>1. run'[r] = SettledRow(r, n)
      BY <1>0, <1>2, <2>3 DEF Settle, Write
    <3> QED
      BY <1>0, <2>3, <3>1 DEF SettledRow, Row
  <2>4. ASSUME NEW i \in Instances, NEW m \in Modes, work[i][m].run = r, StreamSettle(i, m)
        PROVE  run'[r].cur = run[r].cur /\ run[r].cur \in Iters /\ api[r][run[r].cur] = "tools"
    <3>1. work[i][m].pc = "settle" /\ Settle(r, work[i][m].base + 1) /\ work[i][m].base + 1 \in Iters
      BY <1>0, <2>4, WorkerTask DEF StreamSettle, At
    <3>2. run[r].cur = work[i][m].base + 1
      BY <2>4, <3>1 DEF Current
    <3> QED
      BY <2>3, <3>1, <3>2
  <2>5. ASSUME NEW i \in Instances, poll[i].run = r, PollSettle(i)
        PROVE  run'[r].cur = run[r].cur /\ run[r].cur \in Iters /\ api[r][run[r].cur] = "tools"
    <3>1. /\ poll[i].pc = "settle" /\ Settle(r, poll[i].iter) /\ poll[i].iter \in Iters /\ up[i]
          /\ Engaged(r, poll[i].iter) /\ run[r].claimed = i
      BY <1>0, <2>5, PollerEngaged DEF PollSettle, Polls, OwnInv, Own
    <3>2. Free(r)
      BY <2>0, <2>5, <3>1 DEF OwnInv, Own, Polling, PollerOwns
    <3>3. run[r].cur = poll[i].iter
      BY <2>0, <3>1, <3>2 DEF Current
    <3> QED
      BY <2>3, <3>1, <3>3
  <2>6. ASSUME NEW new, Write(r, new), new.state # "pending_tools" PROVE FALSE
    BY <1>0, <1>2, <2>6 DEF Write
  <2>7. ASSUME NEW i \in Instances, NEW m \in Modes, work[i][m].run = r, AdvanceRun(i, m) \/ FailRun(i, m)
        PROVE  FALSE
    <3>1. /\ AdvancedRow(r, work[i][m].base + 1).state = "batch_pending"
          /\ FailedRow(r).state = "failed"
      BY <1>0 DEF AdvancedRow, FailedRow, Row
    <3> QED
      BY <2>6, <2>7, <3>1 DEF AdvanceRun, FailRun
  <2>8. ASSUME NEW i \in Instances, poll[i].run = r, MarkProcessing(i) \/ PollFail(i)
        PROVE  FALSE
    <3>1. /\ [run[r] EXCEPT !.state = "batch_processing"].state = "batch_processing"
          /\ FailedRow(r).state = "failed"
      BY <1>0 DEF FailedRow, Row
    <3> QED
      BY <2>6, <2>8, <3>1 DEF MarkProcessing, PollFail
  <2>9. ASSUME NEW i \in Instances, DeleteInstance(i) PROVE FALSE
    BY <1>0, <1>2, <2>9 DEF DeleteInstance, FailedRow, Row
  <2> QED
    BY <2>0, <2>1, <2>2, <2>4, <2>5, <2>7, <2>8, <2>9 DEF Mover
<1> QED
  BY <1>1, <1>2

\* A handler comes to continue a run by reading the row, and reads nothing else then.
LEMMA HandMoves ==
    ASSUME OwnInv, Next, NEW i \in Instances, hand'[i] # hand[i], hand'[i].pc = "continue"
    PROVE  \E r \in Runs :
              /\ UNCHANGED <<run, api>>
              /\ run[r].state = "pending_tools" /\ hand'[i].run = r /\ hand'[i].iter = run[r].cur
<1>0. hand \in [Instances -> Hand]
  BY DEF OwnInv, IndInv, TypeOK, Types
<1> DEFINE Done == \E r \in Runs :
              /\ UNCHANGED <<run, api>>
              /\ run[r].state = "pending_tools" /\ hand'[i].run = r /\ hand'[i].iter = run[r].cur
<1>1. UNCHANGED hand => FALSE
  OBVIOUS
<1>2. ASSUME NEW r \in Runs, NEW j \in Instances, HandStep(j, r) \/ HandError(j, r) PROVE Done
  <2>1. ASSUME NEW h, hand' = [hand EXCEPT ![j] = h] PROVE i = j /\ hand'[i] = h
    BY <1>0, <2>1
  <2>2. Unused.pc = "idle"
    BY DEF Unused
  <2>3. ~ContinueRun(j, r) /\ ~HandError(j, r)
    BY <2>1, <2>2 DEF ContinueRun, HandError
  <2>4. ~CheckStuck(j, r)
    <3>1. ASSUME CheckStuck(j, r) PROVE FALSE
      <4>1. hand' = [hand EXCEPT ![j] = [hand[j] EXCEPT !.pc = "read", !.run = r]]
        BY <3>1 DEF CheckStuck
      <4>2. hand'[i] = [hand[j] EXCEPT !.pc = "read", !.run = r] /\ hand[j] \in Hand
        BY <1>0, <2>1, <4>1
      <4> QED
        BY <4>2 DEF Hand
    <3> QED
      BY <3>1
  <2>5. hand' = [hand EXCEPT ![j] = AsRead(r)] /\ UNCHANGED <<run, api>>
    BY <1>2, <2>3, <2>4 DEF HandStep, HandleNote, ReadListed
  <2>6. hand'[i] = AsRead(r)
    BY <2>1, <2>5
  <2> QED
    BY <2>2, <2>5, <2>6 DEF AsRead
<1>3. ASSUME NEW r \in Runs, CreateRun(r) \/ Noted(r) \/ AgeClaim(r) PROVE Done
  BY <1>1, <1>2, <1>3 DEF CreateRun, Noted, DropNote, AgeClaim
<1> HIDE DEF Done
<1>4. ASSUME NEW r \in Runs, NEW n \in Iters, EndBatch(r, n) \/ CancelBatch(r, n) \/ FinishTools(r, n)
      PROVE  FALSE
  BY <1>1, <1>4 DEF EndBatch, CancelBatch, FinishTools
<1>5. ASSUME NEW j \in Instances, NEW m \in Modes, Claim(j, m) \/ WorkerStep(j, m) \/ WorkerError(j, m)
      PROVE  FALSE
  BY <1>1, <1>5 DEF Claim, WorkerStep, WorkerError, Take, CreatePrompt, CreateIteration, SubmitBatch,
     RecordBatch, AdvanceRun, BeginStream, StreamReply, StreamRespond, StreamSettle, FailRun
<1>6. ASSUME NEW j \in Instances, PollerStep(j) \/ PollError(j) PROVE FALSE
  BY <1>1, <1>6 DEF PollerStep, PollError, ListIterations, GetBatch, ReadRun, MarkProcessing,
     MarkCanceling, MarkEnded, FetchResult, PollRespond, PollSettle, PollFail
<1>7. ASSUME NEW j \in Instances, ScanStuck(j) \/ RescueRun(j) \/ DeleteInstance(j) \/ Restart(j)
      PROVE  FALSE
  BY <1>1, <1>7 DEF ScanStuck, RescueRun, DeleteInstance, Restart
<1>8. ASSUME NEW j \in Instances, Crash(j) PROVE FALSE
  BY <1>0, <1>8 DEF Crash, Unused
<1>9. Done
  BY <1>3, <1>4, <1>5, <1>6, <1>7, <1>8 DEF Next, Noted
<1> QED
  BY <1>9 DEF Done

\* Nobody answers while a handler has the run, so it comes to wait in no other iteration.
LEMMA HandedStep ==
    ASSUME OwnInv, Down, Current, Ahead, Handed, TalkKept, Next
    PROVE  Handed'
<1>0. /\ OwnershipKept /\ Types /\ Assigned /\ run \in [Runs -> Row] /\ CurGrows
      /\ "late_notify" \notin Faults
  BY CurStep DEF OwnInv, IndInv, TypeOK, Types, Assigned, TalkKept
<1>1. SUFFICES ASSUME NEW i \in Instances, hand'[i].pc = "continue"
               PROVE  /\ hand'[i].iter <= run'[hand'[i].run].cur
                      /\ run'[hand'[i].run].state = "pending_tools" => hand'[i].iter = run'[hand'[i].run].cur
                      /\ \A n \in Iters : n > hand'[i].iter => api'[hand'[i].run][n] \notin Answers
  BY DEF Handed
<1>2. CASE hand'[i] # hand[i]
  <2>1. PICK r \in Runs :
          /\ UNCHANGED <<run, api>>
          /\ run[r].state = "pending_tools" /\ hand'[i].run = r /\ hand'[i].iter = run[r].cur
    BY <1>1, <1>2, HandMoves
  <2>2. ~IsTerminal(r) /\ Free(r) /\ "batch" \in Modes
    BY <2>1, Idle, Names
  <2>3. ASSUME NEW n \in Iters, n > run[r].cur PROVE api[r][n] \notin Answers
    BY <2>1, <2>2, <2>3 DEF Ahead, Free, Held, Answers
  <2>4. run[r].cur \in Nat
    BY <1>0, BoundsAssumption DEF Row
  <2> QED
    BY <2>1, <2>3, <2>4
<1>3. CASE hand'[i] = hand[i]
  <2> DEFINE r == hand[i].run  k == hand[i].iter
  <2>1. /\ r \in Runs /\ k \in Iters /\ k <= run[r].cur
        /\ run[r].state = "pending_tools" => k = run[r].cur
        /\ \A n \in Iters : n > k => api[r][n] \notin Answers
        /\ hand'[i].run = r /\ hand'[i].iter = k
    BY <1>0, <1>1, <1>3 DEF Handed, Assigned, HandsAssigned
  <2> HIDE DEF r, k
  <2>2. ~Settled(r)
    BY <1>0 DEF Settled, r
  <2>3. ASSUME NEW n \in Iters, n > k PROVE api'[r][n] \notin Answers
    <3>1. api[r][n] \notin Answers
      BY <2>1, <2>3
    <3>2. ASSUME NEW j \in Instances, SubmitBatch(j, "batch"), work[j]["batch"].run = r,
                 work[j]["batch"].base + 1 = n
          PROVE  api'[r][n] = "running"
      BY <1>0, <2>1, <3>2 DEF SubmitBatch, Types
    <3> QED
      BY <2>1, <2>2, <3>1, <3>2, ApiMoves DEF StreamReply, EndBatch, Answers
  <2>4. run[r].cur \in Nat /\ run'[r].cur >= run[r].cur /\ run'[r].cur \in Nat /\ k \in Nat
    <3>1. run[r].cur \in Nat
      BY <1>0, <2>1, BoundsAssumption DEF Row
    <3>2. run' \in [Runs -> Row]
      BY <1>0, TypesStep DEF Types
    <3>3. run'[r].cur \in Nat
      BY <2>1, <3>2, BoundsAssumption DEF Row
    <3> QED
      BY <1>0, <2>1, <3>1, <3>3, BoundsAssumption DEF CurGrows, Iters
  <2>5. k <= run'[r].cur
    BY <2>1, <2>4
  <2>6. ASSUME run'[r].state = "pending_tools" PROVE k = run'[r].cur
    <3>1. /\ run'[r].cur = run[r].cur
          /\ \/ run[r].state = "pending_tools"
             \/ run[r].cur \in Iters /\ api[r][run[r].cur] = "tools"
      BY <1>0, <2>1, <2>6, ComesToWait
    <3>2. ASSUME run[r].cur \in Iters, api[r][run[r].cur] = "tools" PROVE k = run[r].cur
      <4>1. ~(run[r].cur > k)
        BY <2>1, <3>2 DEF Answers
      <4> QED
        BY <2>1, <2>4, <4>1
    <3> QED
      BY <2>1, <3>1, <3>2
  <2> QED
    BY <2>1, <2>3, <2>5, <2>6
<1> QED
  BY <1>2, <1>3

\* Then what a handler stores are the results the run waits for.
LEMMA ContinuesCurrent ==
    ASSUME TalkInv, NEW r \in Runs, Continuing(r)
    PROVE  Continue(r, run[r].cur)
  BY DEF Continuing, Continue, TalkInv, Handed

\* A message where it is due keeps the conversation well formed.
WellFormed(c) ==
    \A k \in 1 .. Len(c) :
        /\ c[k].kind = "prompt" <=> k = 1
        /\ c[k].kind = "text" => k = Len(c)
        /\ c[k].kind = "tools" /\ k < Len(c) => c[k + 1] = [kind |-> "tool_result", iter |-> c[k].iter]
        /\ c[k].kind = "tool_result" => c[k - 1] = [kind |-> "tools", iter |-> c[k].iter]

LEMMA WellFormedAll ==
    ASSUME conv \in [Runs -> Seq(Message)]
    PROVE  WellFormedConversation <=> \A r \in Runs : WellFormed(conv[r])
<1>1. ASSUME NEW r \in Runs
      PROVE  /\ Len(conv[r]) \in Nat
             /\ \A k \in 1 .. Len(conv[r]) : k \in 1 .. Len(conv[r]) - 1 <=> k < Len(conv[r])
             /\ \A k \in 1 .. Len(conv[r]) - 1 : k \in 1 .. Len(conv[r])
  BY <1>1
<1>2. ASSUME WellFormedConversation, NEW r \in Runs PROVE WellFormed(conv[r])
  BY <1>1, <1>2 DEF WellFormedConversation, ToolUseAnswered, WellFormed
<1>3. ASSUME \A r \in Runs : WellFormed(conv[r]) PROVE WellFormedConversation
  BY <1>1, <1>3 DEF WellFormedConversation, ToolUseAnswered, WellFormed
<1> QED
  BY <1>2, <1>3

LEMMA AppendWellFormed ==
    ASSUME NEW c \in Seq(Message), WellFormed(c), NEW msg \in Message,
           msg.kind = "prompt" <=> c = <<>>,
           msg.kind \in {"tools", "text"} => c[Len(c)].kind \in {"prompt", "tool_result"},
           msg.kind = "tool_result" => c[Len(c)] = [kind |-> "tools", iter |-> msg.iter]
    PROVE  WellFormed(Append(c, msg))
<1> DEFINE d == Append(c, msg)  L == Len(c)
<1>1. L \in Nat /\ Len(d) = L + 1 /\ d[L + 1] = msg /\ \A k \in 1 .. L : d[k] = c[k]
  OBVIOUS
<1>2. L = 0 <=> c = <<>>
  OBVIOUS
<1>3. msg.kind \in {"prompt", "tools", "text", "tool_result"}
  BY DEF Message
<1>4. \A k \in 1 .. L :
        /\ c[k].kind = "prompt" <=> k = 1
        /\ c[k].kind = "text" => k = L
        /\ c[k].kind = "tools" /\ k < L => c[k + 1] = [kind |-> "tool_result", iter |-> c[k].iter]
        /\ c[k].kind = "tool_result" => c[k - 1] = [kind |-> "tools", iter |-> c[k].iter]
  BY DEF WellFormed
<1> HIDE DEF d, L
<1>5. ASSUME L > 0
      PROVE  /\ L \in 1 .. L /\ msg.kind # "prompt"
             /\ c[L].kind \notin {"text"}
             /\ c[L].kind = "tools" => msg.kind = "tool_result" /\ c[L].iter = msg.iter
  <2>1. L \in 1 .. L /\ msg.kind # "prompt"
    BY <1>1, <1>2, <1>5
  <2>2. CASE msg.kind \in {"tools", "text"}
    BY <2>1, <2>2 DEF L
  <2>3. CASE msg.kind = "tool_result"
    BY <2>1, <2>3 DEF L
  <2> QED
    BY <1>3, <2>1, <2>2, <2>3
<1>6. msg = [kind |-> msg.kind, iter |-> msg.iter]
  BY DEF Message
<1>7. ASSUME NEW k \in 1 .. L + 1
      PROVE  /\ d[k].kind = "prompt" <=> k = 1
             /\ d[k].kind = "text" => k = L + 1
             /\ d[k].kind = "tools" /\ k < L + 1 => d[k + 1] = [kind |-> "tool_result", iter |-> d[k].iter]
             /\ d[k].kind = "tool_result" => d[k - 1] = [kind |-> "tools", iter |-> d[k].iter]
  <2>1. CASE k = L + 1
    <3>1. d[k] = msg /\ (k = 1 <=> L = 0)
      BY <1>1, <2>1
    <3>2. msg.kind = "tool_result" => d[k - 1] = [kind |-> "tools", iter |-> msg.iter]
      <4>1. CASE L = 0
        BY <1>2, <4>1
      <4>2. CASE L > 0
        BY <1>1, <1>5, <2>1, <4>2 DEF L
      <4> QED
        BY <1>1, <4>1, <4>2
    <3> QED
      BY <1>1, <1>2, <2>1, <3>1, <3>2
  <2>2. CASE k = L
    <3>1. L > 0 /\ d[k] = c[k] /\ d[k + 1] = msg /\ k \in 1 .. L
      BY <1>1, <2>2
    <3>2. d[k].kind = "tool_result" => k # 1 /\ d[k - 1] = c[k - 1]
      <4>1. d[k].kind = "tool_result" => k # 1
        BY <1>4, <3>1
      <4> QED
        BY <1>1, <2>2, <4>1
    <3> QED
      BY <1>1, <1>4, <1>5, <1>6, <2>2, <3>1, <3>2
  <2>3. CASE k < L
    <3>1. d[k] = c[k] /\ d[k + 1] = c[k + 1] /\ k \in 1 .. L
      BY <1>1, <2>3
    <3>2. d[k].kind = "tool_result" => k # 1 /\ d[k - 1] = c[k - 1]
      <4>1. d[k].kind = "tool_result" => k # 1
        BY <1>4, <3>1
      <4> QED
        BY <1>1, <2>3, <4>1
    <3> QED
      BY <1>1, <1>4, <2>3, <3>1, <3>2
  <2> QED
    BY <1>1, <2>1, <2>2, <2>3
<1> QED
  BY <1>1, <1>7 DEF WellFormed, d

\* What has been said last.
LEMMA Said1 ==
    ASSUME conv \in [Runs -> Seq(Message)], NEW r \in Runs, NEW kind, NEW n,
           [kind |-> kind, iter |-> n] \in Message, Said(r, kind, n)
    PROVE  /\ conv'[r] = Append(conv[r], [kind |-> kind, iter |-> n])
           /\ conv'[r] # conv[r] /\ Says(r, kind, n)'
           /\ kind \in {"prompt", "tool_result"} => Ready(r, n)'
<1>1. conv'[r] = Append(conv[r], [kind |-> kind, iter |-> n]) /\ conv[r] \in Seq(Message)
  BY DEF Said
<1>2. Len(conv'[r]) = Len(conv[r]) + 1 /\ conv'[r][Len(conv'[r])] = [kind |-> kind, iter |-> n]
  BY <1>1
<1>3. conv'[r] # conv[r] /\ conv'[r] # <<>>
  <2>1. Len(conv[r]) \in Nat /\ Len(<<>>) = 0
    BY <1>1
  <2>2. Len(conv'[r]) # Len(conv[r]) /\ Len(conv'[r]) # 0
    BY <1>2, <2>1
  <2> QED
    BY <2>1, <2>2
<1> QED
  BY <1>1, <1>2, <1>3 DEF Says, Ready, Last

\* A step that stores no message for the run leaves its row as it was, or gives it the
\* state of what was said.
LEMMA RowTalksStep ==
    ASSUME TalkInv, TalkKept, Next, NEW r \in Runs, conv'[r] = conv[r]
    PROVE  RowTalks(r)'
<1>0. /\ run \in [Runs -> Row] /\ Types /\ Assigned /\ OwnInv /\ OwnershipKept
      /\ conv \in [Runs -> Seq(Message)] /\ RowTalks(r)
  BY DEF TalkInv, OwnInv, IndInv, TypeOK, Types, Assigned, TalkKept, Talks
<1>1. CASE run'[r].state = run[r].state
  <2>1. run[r].state \in {"absent", "pending", "pending_tools"} => run'[r].cur = run[r].cur
    BY <1>0, CurMoves, Idle DEF Free, Held
  <2> QED
    BY <1>0, <1>1, <2>1 DEF RowTalks, Begun, Fresh, Ready, Says, Last
<1>2. CASE run'[r].state # run[r].state /\ run'[r].state \in {"absent", "pending", "pending_tools"}
  <2>0. Mover(r) /\ ~IsTerminal(r)
    BY <1>0, <1>2, StateSteps, RowsStep
       DEF OwnInv, IndInv, RowsKept, IsTerminal, Terminal
  <2>1. CASE CreateRun(r)
    <3>1. run'[r].state = "pending" /\ run'[r].cur = run[r].cur /\ run[r].state = "absent"
      BY <1>0, <2>1 DEF CreateRun, Row
    <3> QED
      BY <1>0, <3>1 DEF RowTalks, Begun, Fresh, Ready, Last
  <2>2. ~Continuing(r)
    <3>1. ASSUME Continuing(r) PROVE FALSE
      <4>1. run[r].cur \in 0 .. MaxIter
        BY <1>0 DEF Row
      <4>2. [kind |-> "tool_result", iter |-> run[r].cur] \in Message
        BY <4>1 DEF Message
      <4> QED
        BY <1>0, <3>1, <4>2, ContinuesCurrent, Said1 DEF Continue
    <3> QED
      BY <3>1
  <2>3. ASSUME NEW i \in Instances, NEW m \in Modes, Claim(i, m) PROVE FALSE
    <3>1. PICK S \in SUBSET Runs :
            run' = [q \in Runs |->
                      IF q \in S
                      THEN [run[q] EXCEPT !.claimed = i, !.aged = FALSE,
                              !.state = IF m = "batch" THEN "batch_submitting" ELSE "streaming"]
                      ELSE run[q]]
      BY <2>3 DEF Claim, Claimable
    <3>2. r \in S => run'[r].state \in {"batch_submitting", "streaming"}
      BY <1>0, <3>1 DEF Row
    <3>3. r \notin S => run'[r] = run[r]
      BY <3>1
    <3> QED
      BY <1>2, <3>2, <3>3
  <2>4. ASSUME NEW n \in Iters, Settle(r, n), run[r].cur = n, Says(r, api[r][n], n)
        PROVE  RowTalks(r)'
    <3>1. run'[r] = SettledRow(r, n)
      BY <1>0, <1>2, <2>4 DEF Settle, Write
    <3>2. run'[r].state = "pending_tools" /\ api[r][n] = "tools"
      BY <1>0, <1>2, <3>1 DEF SettledRow, Row
    <3>3. run'[r].cur = n /\ n > 0
      BY <1>0, <2>4, <3>1, <3>2, BoundsAssumption DEF SettledRow, Row, Iters
    <3> QED
      BY <2>4, <3>2, <3>3 DEF RowTalks, Says, Last
  <2>5. ASSUME NEW i \in Instances, NEW m \in Modes, work[i][m].run = r, StreamSettle(i, m)
        PROVE  RowTalks(r)'
    <3>1. work[i][m].pc = "settle" /\ Settle(r, work[i][m].base + 1) /\ work[i][m].base + 1 \in Iters
      BY <1>0, <2>5, WorkerTask DEF StreamSettle, At
    <3>2. Says(r, api[r][work[i][m].base + 1], work[i][m].base + 1) /\ run[r].cur = work[i][m].base + 1
      BY <2>5, <3>1 DEF TalkInv, Talks, WorkerTalks, Current
    <3> QED
      BY <2>4, <3>1, <3>2
  <2>6. ASSUME NEW i \in Instances, poll[i].run = r, PollSettle(i)
        PROVE  RowTalks(r)'
    <3>1. /\ poll[i].pc = "settle" /\ Settle(r, poll[i].iter) /\ poll[i].iter \in Iters /\ up[i]
          /\ Engaged(r, poll[i].iter) /\ run[r].claimed = i
      BY <1>0, <2>6, PollerEngaged DEF PollSettle, Polls, OwnInv, Own
    <3>2. Free(r)
      BY <2>0, <2>6, <3>1 DEF TalkInv, OwnInv, Own, Polling, PollerOwns
    <3>3. Says(r, api[r][poll[i].iter], poll[i].iter) /\ run[r].cur = poll[i].iter
      BY <2>0, <2>6, <3>1, <3>2 DEF TalkInv, Talks, PollerTalks, Current
    <3> QED
      BY <2>4, <3>1, <3>3
  <2>7. ASSUME NEW new, Write(r, new), new.state \notin {"absent", "pending", "pending_tools"}
        PROVE  FALSE
    BY <1>0, <1>2, <2>7 DEF Write
  <2>8. ASSUME NEW i \in Instances, NEW m \in Modes, work[i][m].run = r, AdvanceRun(i, m) \/ FailRun(i, m)
        PROVE  FALSE
    <3>1. /\ AdvancedRow(r, work[i][m].base + 1).state = "batch_pending"
          /\ FailedRow(r).state = "failed"
      BY <1>0 DEF AdvancedRow, FailedRow, Row
    <3> QED
      BY <2>7, <2>8, <3>1 DEF AdvanceRun, FailRun
  <2>9. ASSUME NEW i \in Instances, poll[i].run = r, MarkProcessing(i) \/ PollFail(i)
        PROVE  FALSE
    <3>1. /\ [run[r] EXCEPT !.state = "batch_processing"].state = "batch_processing"
          /\ FailedRow(r).state = "failed"
      BY <1>0 DEF FailedRow, Row
    <3> QED
      BY <2>7, <2>9, <3>1 DEF MarkProcessing, PollFail
  <2>10. ASSUME NEW i \in Instances, DeleteInstance(i) PROVE FALSE
    BY <1>0, <1>2, <2>10 DEF DeleteInstance, FailedRow, Row
  <2> QED
    BY <2>0, <2>1, <2>2, <2>3, <2>5, <2>6, <2>8, <2>9, <2>10 DEF Mover
<1> QED
  BY <1>1, <1>2 DEF RowTalks

\* Nor does it make a worker or a poller ask or settle out of turn.
LEMMA TalksStep ==
    ASSUME TalkInv, TalkKept, Next, NEW r \in Runs, conv'[r] = conv[r]
    PROVE  Talks(r)'
<1> DEFINE Waits(n) == /\ conv'[r] # <<>> /\ conv'[r][Len(conv'[r])].iter = n
                       /\ conv'[r][Len(conv'[r])].kind \in {"prompt", "tool_result"}
<1>0. /\ run \in [Runs -> Row] /\ Types /\ Assigned /\ OwnInv /\ OwnershipKept
      /\ conv \in [Runs -> Seq(Message)] /\ RowTalks(r) /\ AnswersKept
  BY AnswersStep DEF TalkInv, OwnInv, IndInv, TypeOK, Types, Assigned, TalkKept, Talks
<1>1. /\ (Fresh(r) => conv'[r] = <<>>) /\ \A n : Ready(r, n) => Waits(n)
      /\ \A base : Begun(r, base) => IF base = 0 THEN conv'[r] = <<>> ELSE Waits(base)
      /\ \A kind, n : Says(r, kind, n) => conv'[r] # <<>> /\ conv'[r][Len(conv'[r])] = [kind |-> kind, iter |-> n]
  BY DEF Fresh, Ready, Last, Says, Begun
<1>2. ASSUME NEW i \in Instances, NEW m \in Modes PROVE WorkerTalks(i, m, r)'
  <2>0. WorkerTalks(i, m, r)
    BY DEF TalkInv, Talks
  <2>1. \A t \in work'[i][m].queue : t.run = r => IF t.base = 0 THEN conv'[r] = <<>> ELSE Waits(t.base)
    <3>1. CASE Held(i, m, r) \/ ~Held(i, m, r)'
      <4>1. ASSUME NEW t \in work'[i][m].queue, t.run = r PROVE t \in work[i][m].queue
        <5>1. Held(i, m, r)' /\ Held(i, m, r)
          BY <3>1, <4>1 DEF Held
        <5>2. ~Claim(i, m)
          BY <1>0, <5>1, NoneAssumption DEF Claim, At, Held, OwnInv, Own, Hands
        <5>3. CASE work'[i][m] = work[i][m]
          BY <4>1, <5>3
        <5>4. CASE Took(i, m) \/ WentOn(i, m) \/ Finished(i, m)
          BY <4>1, <5>4 DEF Took, WentOn, Finished
        <5>5. CASE work'[i][m] = Rest
          BY <4>1, <5>5 DEF Rest
        <5> QED
          BY <1>0, <5>2, <5>3, <5>4, <5>5, WorkMoves
      <4> QED
        BY <1>1, <2>0, <4>1 DEF WorkerTalks
    <3>2. CASE ~Held(i, m, r) /\ Held(i, m, r)'
      <4>1. \A t \in work'[i][m].queue : t.base = run[t.run].cur /\ run[t.run].state = "pending"
        BY <1>0, <3>2, HeldNew
      <4>2. ASSUME NEW t \in work'[i][m].queue, t.run = r PROVE Begun(r, t.base)
        BY <1>0, <4>1, <4>2 DEF RowTalks
      <4> QED
        BY <1>1, <4>2
    <3> QED
      BY <3>1, <3>2
  <2>2. ASSUME work'[i][m].run = r
        PROVE  /\ work'[i][m].pc = "prompt" => conv'[r] = <<>> /\ work'[i][m].base = 0
               /\ work'[i][m].pc \in Reading => Waits(work'[i][m].base)
               /\ work'[i][m].pc = "settle" =>
                    Says(r, api[r][work'[i][m].base + 1], work'[i][m].base + 1)
    <3>1. CASE work'[i][m] = work[i][m]
      BY <1>1, <2>0, <2>2, <3>1 DEF WorkerTalks
    <3>2. CASE Took(i, m)
      <4>1. PICK t \in work[i][m].queue :
              /\ work'[i][m].pc = IF t.base = 0 THEN "prompt" ELSE "iterate"
              /\ work'[i][m].run = t.run /\ work'[i][m].base = t.base
        BY <3>2 DEF Took
      <4> QED
        BY <1>1, <2>0, <2>2, <4>1 DEF WorkerTalks, Reading
    <3>3. CASE WentOn(i, m)
      <4>1. ~CreatePrompt(i, m) /\ ~(m = "streaming" /\ StreamRespond(i, m))
        <5>1. ASSUME CreatePrompt(i, m) PROVE FALSE
          <6>1. [kind |-> "prompt", iter |-> 0] \in Message
            BY Names DEF Message
          <6> QED
            BY <1>0, <2>2, <3>3, <5>1, <6>1, Said1 DEF CreatePrompt, WentOn
        <5>2. ASSUME StreamRespond(i, m) PROVE FALSE
          <6>1. [kind |-> api[r][work[i][m].base + 1], iter |-> work[i][m].base + 1] \in Message
            BY <1>0, <2>2, <3>3, <5>2, WorkerTask
               DEF Message, Assigned, WorkersAssigned, StreamRespond, At, WentOn
          <6> QED
            BY <1>0, <2>2, <3>3, <5>2, <6>1, Said1 DEF StreamRespond, WentOn
        <5> QED
          BY <5>1, <5>2
      <4>2. work[i][m].run = r /\ (work[i][m].pc \in Reading => Ready(r, work[i][m].base))
            /\ work'[i][m].base = work[i][m].base
        BY <2>0, <2>2, <3>3 DEF WentOn, WorkerTalks
      <4>3. \/ work'[i][m].pc = "fail"
            \/ work[i][m].pc \in Reading /\ work'[i][m].pc \in Reading
        BY <3>3, <4>1 DEF WentOn, Onto, Reading, RecordBatch, BeginStream, At
      <4> QED
        BY <1>1, <4>2, <4>3 DEF Reading
    <3>4. CASE Finished(i, m) \/ work'[i][m].pc = "idle"
      BY <2>2, <3>4 DEF Finished, Reading
    <3>5. \/ work'[i][m] = work[i][m] \/ Took(i, m) \/ WentOn(i, m) \/ Finished(i, m)
          \/ work'[i][m].pc = "idle"
      BY <1>0, WorkMoves DEF Rest
    <3> QED
      BY <3>1, <3>2, <3>3, <3>4, <3>5
  <2>3. ASSUME work'[i][m].run = r, work'[i][m].pc = "settle"
        PROVE  api'[r][work'[i][m].base + 1] = api[r][work'[i][m].base + 1]
    <3>0. work'[i][m] = work[i][m] \/ WentOn(i, m)
      <4>1. ~Took(i, m)
        BY <2>3 DEF Took
      <4>2. work'[i][m].pc # "idle" /\ ~Finished(i, m)
        BY <2>3 DEF Finished
      <4> QED
        BY <1>0, <4>1, <4>2, WorkMoves DEF Rest
    <3>1. work[i][m].run = r /\ work[i][m].pc \in {"respond", "settle"} /\ work'[i][m].base = work[i][m].base
      BY <2>3, <3>0 DEF WentOn, Onto, StreamRespond, At
    <3>2. api[r][work[i][m].base + 1] \in Answers /\ work[i][m].base + 1 \in Iters
      BY <1>0, <3>1, WorkerTask DEF Assigned, WorkersAssigned, Answers
    <3> QED
      BY <1>0, <3>1, <3>2 DEF AnswersKept, Answers, Replies
  <2> QED
    BY <1>1, <2>1, <2>2, <2>3 DEF WorkerTalks, Begun, Fresh, Ready, Says, Last
<1>3. ASSUME NEW n \in Iters, status'[r][n] = "in_progress" PROVE Ready(r, n - 1)'
  <2>1. ASSUME NEW i \in Instances, RecordBatch(i, "batch"), work[i]["batch"].run = r,
               work[i]["batch"].base + 1 = n
        PROVE  Ready(r, n - 1)
    <3>1. work[i]["batch"].pc = "record" /\ "batch" \in Modes
      BY <2>1, Names DEF RecordBatch, At
    <3>2. n - 1 = work[i]["batch"].base
      BY <1>0, <2>1, <3>1, WorkerTask
    <3> QED
      BY <2>1, <3>1, <3>2 DEF TalkInv, Talks, WorkerTalks, Reading
  <2>2. Ready(r, n - 1)
    BY <1>0, <1>3, <2>1, StatusNew DEF TalkInv, Talks
  <2> QED
    BY <1>1, <2>2 DEF Ready, Last
<1>4. ASSUME NEW i \in Instances PROVE PollerTalks(i, r)'
  <2>0. PollerTalks(i, r) /\ PollerOwns(i)
    BY DEF TalkInv, Talks, OwnInv, Own, Polling
  <2>1. CASE poll'[i] = poll[i]
    <3>1. poll[i].run = r /\ poll[i].pc = "settle" => api'[r][poll[i].iter] = api[r][poll[i].iter]
      BY <1>0, PollerTask DEF Assigned, PollersAssigned, Replies, AnswersKept
    <3> QED
      BY <1>1, <2>0, <2>1, <3>1 DEF PollerTalks, Says, Ready, Last
  <2>2. CASE poll'[i].pc \notin {"fetch", "respond", "settle"}
    BY <2>2 DEF PollerTalks
  <2>3. ASSUME poll'[i].run = r, poll'[i].run = poll[i].run, poll'[i].iter = poll[i].iter, MarkEnded(i),
               poll'[i].pc = "fetch"
        PROVE  PollerTalks(i, r)'
    <3>1. poll[i].iter \in Iters /\ status[r][poll[i].iter] = "in_progress"
      BY <1>0, <2>0, <2>3, PollerTask DEF MarkEnded, Polls, PollerOwns, Handling
    <3> QED
      BY <1>1, <2>3, <3>1 DEF PollerTalks, TalkInv, Talks, Ready, Last
  <2>4. ASSUME poll'[i].run = r, poll'[i].run = poll[i].run, poll'[i].iter = poll[i].iter,
               poll[i].pc = "fetch", poll'[i].pc = "respond"
        PROVE  PollerTalks(i, r)'
    BY <1>1, <2>0, <2>4 DEF PollerTalks, Ready, Last
  <2>5. ASSUME poll'[i].run = r, poll'[i].run = poll[i].run, PollRespond(i) PROVE FALSE
    <3>1. [kind |-> api[r][poll[i].iter], iter |-> poll[i].iter] \in Message
      BY <1>0, <2>5, PollerTask DEF Message, Assigned, PollersAssigned, PollRespond, Polls
    <3> QED
      BY <1>0, <2>5, <3>1, Said1 DEF PollRespond
  <2>6. CASE poll'[i].run # r
    BY <2>6 DEF PollerTalks
  <2> QED
    BY <1>0, <2>1, <2>2, <2>3, <2>4, <2>5, <2>6, PollMoves
<1>5. RowTalks(r)'
  BY RowTalksStep
<1> QED
  BY <1>2, <1>3, <1>4, <1>5 DEF Talks

\* What is said is said in turn, and who says it is alone with the run.
LEMMA SpokenStep ==
    ASSUME TalkInv, TalkKept, Next, NEW r \in Runs, conv'[r] # conv[r]
    PROVE  Talks(r)' /\ WellFormed(conv'[r])
<1>0. /\ run \in [Runs -> Row] /\ Types /\ Assigned /\ OwnInv /\ OwnershipKept
      /\ conv \in [Runs -> Seq(Message)] /\ RowTalks(r) /\ WellFormed(conv[r])
      /\ work \in [Instances -> [Modes -> Worker]] /\ poll \in [Instances -> Poller]
  BY WellFormedAll DEF TalkInv, OwnInv, IndInv, TypeOK, Types, Assigned, TalkKept, Talks
<1>1. ASSUME NEW i \in Instances, NEW m \in Modes, ~Held(i, m, r)' PROVE WorkerTalks(i, m, r)'
  BY <1>1 DEF WorkerTalks, Held
<1>2. ASSUME NEW kind \in {"prompt", "tools", "text", "tool_result"}, NEW n \in 0 .. MaxIter, Said(r, kind, n),
             kind = "prompt" <=> Fresh(r),
             kind \in {"tools", "text"} => \E k : Ready(r, k),
             kind = "tool_result" => Says(r, "tools", n)
      PROVE  WellFormed(conv'[r]) /\ Says(r, kind, n)' /\ (kind \in {"prompt", "tool_result"} => Ready(r, n)')
  <2> DEFINE msg == [kind |-> kind, iter |-> n]
  <2>1. msg \in Message /\ msg.kind = kind /\ msg.iter = n
    BY DEF Message
  <2>2. conv'[r] = Append(conv[r], msg) /\ conv[r] \in Seq(Message)
    BY <1>0, <1>2, <2>1, Said1
  <2>3. WellFormed(Append(conv[r], msg))
    <3> HIDE DEF msg
    <3> QED
      BY <1>0, <1>2, <2>1, <2>2, AppendWellFormed DEF Fresh, Ready, Says, Last
  <2> QED
    BY <1>0, <1>2, <2>1, <2>2, <2>3, Said1
<1>3. CASE Continuing(r)
  <2>1. /\ run[r].state = "pending_tools" /\ run[r].cur > 0 /\ Said(r, "tool_result", run[r].cur)
        /\ UNCHANGED <<work, poll, status>>
        /\ run'[r].state = "pending" /\ run'[r].cur = run[r].cur /\ run[r].cur \in 0 .. MaxIter
    <3>1. Continue(r, run[r].cur) /\ UNCHANGED <<work, poll, status>> /\ run[r].cur > 0
      BY <1>0, <1>3, ContinuesCurrent DEF Continue, Continuing, RowTalks
    <3> QED
      BY <1>0, <3>1 DEF Continue, Continued, Row
  <2>2. Free(r) /\ \A n \in Iters : ~Engaged(r, n)
    BY <1>0, <2>1, Idle
  <2>3. Says(r, "tools", run[r].cur) /\ ~Fresh(r)
    BY <1>0, <2>1 DEF RowTalks, Says, Fresh
  <2>4. WellFormed(conv'[r]) /\ Ready(r, run[r].cur)'
    BY <1>2, <2>1, <2>3
  <2>5. RowTalks(r)'
    BY <2>1, <2>4, BoundsAssumption DEF RowTalks, Begun
  <2>6. \A i \in Instances, m \in Modes : WorkerTalks(i, m, r)'
    BY <1>1, <2>1, <2>2 DEF Free, Held
  <2>7. \A i \in Instances : PollerTalks(i, r)'
    BY <1>0, <2>1, <2>2, PollerEngaged DEF PollerTalks, OwnInv, Own
  <2>8. \A n \in Iters : status'[r][n] # "in_progress"
    BY <2>1, <2>2 DEF Engaged
  <2> QED
    BY <2>4, <2>5, <2>6, <2>7, <2>8 DEF Talks
<1>4. ASSUME NEW i \in Instances, NEW m \in Modes, work[i][m].run = r,
             CreatePrompt(i, m) \/ (m = "streaming" /\ StreamRespond(i, m))
      PROVE  Talks(r)' /\ WellFormed(conv'[r])
  <2>0. Held(i, m, r) /\ work[i][m].pc \in {"prompt", "respond"} /\ UNCHANGED <<run, status, poll, api>>
    BY <1>4 DEF Held, CreatePrompt, StreamRespond, At
  <2>1. \A n \in Iters : ~Engaged(r, n)
    BY <1>0, <2>0 DEF OwnInv, Own, Waiting
  <2>2. run'[r].state \notin {"absent", "pending", "pending_tools"}
    BY <1>0, <2>0, Idle DEF Free
  <2>3. PICK pc \in {"iterate", "settle"} :
          /\ Goto(i, m, pc)
          /\ pc = "iterate" <=> work[i][m].pc = "prompt"
    BY <1>4 DEF CreatePrompt, StreamRespond, At
  <2>4. /\ work'[i][m].pc = pc /\ work'[i][m].run = r /\ work'[i][m].base = work[i][m].base
        /\ work'[i][m].queue = work[i][m].queue
        /\ \A j \in Instances, k \in Modes : j # i \/ k # m => work'[j][k] = work[j][k]
    BY <1>0, <1>4, <2>3, GotoTypes, Names
  <2>5. WellFormed(conv'[r]) /\ (pc = "iterate" => Ready(r, work[i][m].base)')
        /\ (pc = "settle" => Says(r, api[r][work[i][m].base + 1], work[i][m].base + 1)')
    <3>1. CASE work[i][m].pc = "prompt"
      <4>1. Said(r, "prompt", 0) /\ Fresh(r) /\ work[i][m].base = 0 /\ pc = "iterate"
        BY <1>4, <2>3, <3>1 DEF CreatePrompt, StreamRespond, At, TalkInv, Talks, WorkerTalks
      <4>2. 0 \in 0 .. MaxIter /\ "prompt" \in {"prompt", "tools", "text", "tool_result"}
        BY BoundsAssumption
      <4>3. WellFormed(conv'[r]) /\ Ready(r, 0)'
        BY <1>2, <4>1, <4>2
      <4> QED
        BY <2>4, <4>1, <4>3
    <3>2. CASE work[i][m].pc = "respond"
      <4>1. PICK kind \in {"tools", "text"}, n \in 0 .. MaxIter :
              kind = api[r][work[i][m].base + 1] /\ n = work[i][m].base + 1
        BY <1>0, <1>4, <3>2, WorkerTask DEF Assigned, WorkersAssigned
      <4>2. Said(r, kind, n) /\ Ready(r, work[i][m].base) /\ pc = "settle"
        BY <1>4, <2>3, <3>2, <4>1 DEF CreatePrompt, StreamRespond, At, TalkInv, Talks, WorkerTalks, Reading
      <4>3. ~Fresh(r)
        BY <4>2 DEF Fresh, Ready
      <4>4. WellFormed(conv'[r]) /\ Says(r, kind, n)'
        BY <1>2, <4>2, <4>3
      <4> QED
        BY <2>0, <2>4, <4>1, <4>2, <4>4
    <3> QED
      BY <2>0, <3>1, <3>2
  <2>6. WorkerTalks(i, m, r)'
    <3>1. \A t \in work'[i][m].queue : t.run # r
      BY <1>0, <1>4, <2>4 DEF OwnInv, Own, Hands
    <3> QED
      BY <2>0, <2>4, <2>5, <3>1 DEF WorkerTalks, Reading, Says, Last
  <2>7. ASSUME NEW j \in Instances, NEW k \in Modes PROVE WorkerTalks(j, k, r)'
    <3>1. CASE j = i /\ k = m
      BY <2>6, <3>1
    <3>2. CASE j # i \/ k # m
      <4>1. ~Held(j, k, r)
        BY <1>0, <2>0, <3>2, HeldOnce DEF OwnInv, Own
      <4> QED
        BY <1>1, <2>4, <3>2, <4>1 DEF Held
    <3> QED
      BY <3>1, <3>2
  <2>8. \A n \in Iters : status'[r][n] # "in_progress"
    BY <2>0, <2>1 DEF Engaged
  <2>9. ASSUME NEW j \in Instances PROVE PollerTalks(j, r)'
    <3>1. poll[j].pc = "idle" \/ poll[j].run # r
      BY <1>0, <2>1, PollerEngaged DEF OwnInv, Own
    <3> QED
      BY <2>0, <3>1 DEF PollerTalks
  <2> QED
    BY <2>2, <2>5, <2>7, <2>8, <2>9 DEF Talks, RowTalks
<1>5. ASSUME NEW i \in Instances, poll[i].run = r, PollRespond(i)
      PROVE  Talks(r)' /\ WellFormed(conv'[r])
  <2>0. poll[i].pc = "respond" /\ PollGoto(i, "settle") /\ UNCHANGED <<run, status, work, api>>
    BY <1>5 DEF PollRespond, Polls
  <2>1. poll[i].iter \in Iters /\ poll[i].iter \in 0 .. MaxIter /\ Engaged(r, poll[i].iter)
    BY <1>0, <1>5, <2>0, PollerEngaged, PollerTask DEF OwnInv, Own
  <2>2. run'[r].state \notin {"absent", "pending", "pending_tools"}
    BY <1>0, <2>0, <2>1, Idle
  <2>3. api[r][poll[i].iter] \in {"tools", "text"}
    BY <1>0, <1>5, <2>0 DEF Assigned, PollersAssigned
  <2>4. /\ poll'[i].pc = "settle" /\ poll'[i].run = r /\ poll'[i].iter = poll[i].iter
        /\ \A j \in Instances : j # i => poll'[j] = poll[j]
    BY <1>0, <1>5, <2>0, PollGotoTypes, Names
  <2>5. WellFormed(conv'[r]) /\ Says(r, api[r][poll[i].iter], poll[i].iter)'
    <3>1. PICK kind \in {"tools", "text"}, n \in 0 .. MaxIter : kind = api[r][poll[i].iter] /\ n = poll[i].iter
      BY <2>1, <2>3
    <3>2. Said(r, kind, n) /\ Ready(r, poll[i].iter - 1)
      BY <1>5, <2>0, <3>1 DEF PollRespond, TalkInv, Talks, PollerTalks
    <3>3. ~Fresh(r)
      BY <3>2 DEF Fresh, Ready
    <3>4. WellFormed(conv'[r]) /\ Says(r, kind, n)'
      BY <1>2, <3>2, <3>3
    <3> QED
      BY <2>0, <2>4, <3>1, <3>4
  <2>6. ASSUME NEW j \in Instances, NEW k \in Modes PROVE WorkerTalks(j, k, r)'
    <3>1. CASE Held(j, k, r)
      <4>1. work[j][k].run = r /\ work[j][k].base + 1 = poll[i].iter /\ work[j][k].pc \in {"advance", "fail"}
        BY <1>0, <2>1, <3>1 DEF OwnInv, Own, Waiting
      <4>2. work[j][k].pc = "fail"
        BY <1>0, <2>3, <4>1 DEF OwnInv, Own, Unanswered
      <4>3. \A t \in work[j][k].queue : t.run # r
        BY <1>0, <4>1 DEF OwnInv, Own, Hands
      <4> QED
        BY <2>0, <4>2, <4>3 DEF WorkerTalks, Reading
    <3>2. CASE ~Held(j, k, r)
      BY <1>1, <2>0, <3>2 DEF Held
    <3> QED
      BY <3>1, <3>2
  <2>7. ASSUME NEW n \in Iters, status'[r][n] = "in_progress" PROVE FALSE
    <3>1. n = poll[i].iter
      BY <1>0, <2>0, <2>1, <2>7 DEF Engaged, OneEngaged, OwnInv, Own
    <3> QED
      BY <1>0, <1>5, <2>0, <2>7, <3>1 DEF OwnInv, Own, Polling, PollerOwns, Handling
  <2>8. ASSUME NEW j \in Instances PROVE PollerTalks(j, r)'
    <3>1. CASE j = i
      BY <2>0, <2>4, <2>5, <3>1 DEF PollerTalks, Says, Last
    <3>2. CASE j # i
      <4>1. poll[j].pc = "idle" \/ poll[j].run # r
        BY <1>0, <1>5, <2>0, <3>2, PolledOnce DEF OwnInv, Own
      <4> QED
        BY <2>4, <3>2, <4>1 DEF PollerTalks
    <3> QED
      BY <3>1, <3>2
  <2> QED
    BY <2>2, <2>5, <2>6, <2>7, <2>8 DEF Talks, RowTalks
<1> QED
  BY <1>0, <1>3, <1>4, <1>5, ConvMoves

\* Every step keeps the conversations and what is known of them.
LEMMA TalkInvStep ==
    ASSUME TalkInv, [Next]_vars, TalkKept
    PROVE  TalkInv'
<1>0. OwnershipKept /\ OwnInv /\ OwnInv'
  BY OwnInvStep DEF TalkKept, TalkInv
<1>1. CASE UNCHANGED vars
  <2>1. Down' /\ Current'
    BY <1>1 DEF vars, TalkInv, Down, Current, Held, Free, Engaged, IsTerminal
  <2>4. WellFormedConversation'
    BY <1>1 DEF vars, TalkInv, WellFormedConversation, ToolUseAnswered
  <2>3. Ahead' /\ Handed'
    BY <1>1 DEF vars, TalkInv, Ahead, Handed, IsTerminal
  <2>2. \A r \in Runs : Talks(r)'
    BY <1>1 DEF vars, TalkInv, Talks, RowTalks, WorkerTalks, PollerTalks, Begun, Fresh, Ready, Says, Last
  <2> QED
    BY <1>0, <2>1, <2>2, <2>3, <2>4 DEF TalkInv
<1>2. CASE Next
  <2>1. Down' /\ Current' /\ Ahead' /\ Handed'
    BY <1>0, <1>2, DownStep, CurrentStep, AheadStep, HandedStep DEF TalkInv
  <2>2. conv \in [Runs -> Seq(Message)] /\ conv' \in [Runs -> Seq(Message)]
    BY <1>0 DEF OwnInv, IndInv, TypeOK, Types
  <2>3. ASSUME NEW r \in Runs PROVE Talks(r)' /\ WellFormed(conv'[r])
    <3>1. CASE conv'[r] = conv[r]
      BY <1>2, <2>2, <3>1, TalksStep, WellFormedAll DEF TalkInv
    <3>2. CASE conv'[r] # conv[r]
      BY <1>2, <3>2, SpokenStep
    <3> QED
      BY <3>1, <3>2
  <2>4. WellFormedConversation'
    <3>1. ASSUME NEW r \in Runs
          PROVE  \A k \in 1 .. Len(conv'[r]) - 1 : k \in 1 .. Len(conv'[r]) /\ k < Len(conv'[r])
      BY <2>2
    <3> QED
      BY <2>3, <3>1 DEF WellFormedConversation, ToolUseAnswered, WellFormed
  <2> QED
    BY <1>0, <2>1, <2>3, <2>4 DEF TalkInv
<1> QED
  BY <1>1, <1>2

\* Nothing has been said when the database is empty.
LEMMA TalkInvInit == Init => TalkInv
<1> SUFFICES ASSUME Init PROVE TalkInv
  OBVIOUS
<1>1. /\ OwnInv /\ \A i \in Instances : up[i] /\ poll[i] = Quiet
      /\ \A r \in Runs : /\ run[r].state = "absent" /\ run[r].cur = 0 /\ conv[r] = <<>>
                         /\ \A n \in Iters : status[r][n] = "absent"
      /\ \A i \in Instances, m \in Modes : work[i][m] = Rest
      /\ \A r \in Runs, n \in Iters : api[r][n] = "none"
      /\ \A i \in Instances : hand[i] = Unused
  BY OwnInvInit DEF Init
<1>2. Down /\ Current /\ Ahead /\ Handed
  BY <1>1, NoneAssumption DEF Down, Current, Ahead, Handed, Unused, Rest, Quiet, Engaged, Handling
<1>3. ASSUME NEW r \in Runs PROVE Talks(r)
  BY <1>1, <1>3, NoneAssumption
     DEF Talks, RowTalks, WorkerTalks, PollerTalks, Begun, Fresh, Rest, Quiet
<1>4. WellFormedConversation
  BY <1>1 DEF WellFormedConversation, ToolUseAnswered
<1> QED
  BY <1>1, <1>2, <1>3, <1>4 DEF TalkInv

\* In every reachable state it is clear who speaks next in a conversation, the handlers of
\* completions among them: several may hold a run, each between reading its iteration and
\* storing the results, and what each of them holds is the iteration the run waits in.
THEOREM TalkInvHolds ==
    ASSUME TalkKept
    PROVE  Spec => []TalkInv
  BY TalkInvInit, TalkInvStep, PTL DEF Spec

\* The conversation sent to Claude is one prompt, then turns of tool use each followed at
\* once by the results of that iteration, then the final text, though the messages come
\* from workers, pollers and continuations of several processes whose statements look at
\* no conversation: who may append is settled by the claim and by the state of the run.
\* A handler stores the results of the iteration it has read, in whichever the run waits by
\* then; that these are the same rests on the hypothesis that no handler is as late as the
\* model's next reply, see TalkKept.
THEOREM ConversationIsWellFormed ==
    ASSUME TalkKept
    PROVE  Spec => []WellFormedConversation
<1>1. TalkInv => WellFormedConversation
  BY DEF TalkInv
<1> QED
  BY <1>1, TalkInvHolds, PTL

-----------------------------------------------------------------------------
(* Somebody still moves every run.                                         *)

Seized == {"batch_submitting", "streaming", "batch_pending", "batch_processing"}

\* A run in work has an owner.  If that one is down its row is still there for the
\* cleanup; if it is up it holds the run, or has its batch with the API or its poller.
Owned(r) ==
    /\ run[r].state \in {"absent", "pending"} => run[r].claimed = None
    /\ run[r].state \in Seized => run[r].claimed # None
    /\ run[r].claimed # None /\ ~IsTerminal(r) => row[run[r].claimed]
    /\ run[r].state \in {"batch_submitting", "streaming"} /\ up[run[r].claimed] => ~Free(r)
    /\ run[r].state \in {"batch_pending", "batch_processing"} /\ up[run[r].claimed] =>
          \E n \in Iters : Engaged(r, n)

\* A batch stays in progress until its poller has an answer, which every batch gets.
Asked ==
    /\ \A i \in Instances, m \in Modes, r \in Runs, n \in Iters :
          work[i][m].run = r /\ work[i][m].base + 1 = n /\ work[i][m].pc = "advance" =>
              status[r][n] = "in_progress"
    /\ \A i \in Instances, r \in Runs, n \in Iters : poll[i].run = r /\ poll[i].iter = n =>
          /\ poll[i].pc # "cancel"
          /\ poll[i].pc \in {"ended", "fetch"} => api[r][n] \in {"tools", "text", "errored"}
    /\ \A r \in Runs, n \in Iters :
          /\ api[r][n] \notin {"canceling", "lost"}
          /\ status[r][n] = "in_progress" => api[r][n] # "none"

Present == \A i \in Instances : up[i] => row[i]

BusyInv == TalkInv /\ Present /\ Asked /\ \A r \in Runs : Owned(r)

\* No live instance is taken for a dead one, nor a new one for its predecessor, and
\* every batch has a result for its request.  Nor does a handler of completions come late.
ProgressKept ==
    OwnershipKept /\ Faults \cap {"stall", "restart", "lost_result", "late_notify"} = {}

\* The row of an instance goes when it is deleted.
LEMMA RowSteps ==
    ASSUME Next, ProgressKept
    PROVE  UNCHANGED row \/ \E i \in Instances : DeleteInstance(i)
<1>1. ASSUME NEW r \in Runs, CreateRun(r) \/ Noted(r) \/ AgeClaim(r)
      PROVE  UNCHANGED row
  BY <1>1 DEF CreateRun, AgeClaim, Noted, DropNote, HandStep, HandleNote, CheckStuck, ReadListed,
              ContinueRun, HandError
<1>2. ASSUME NEW r \in Runs, NEW n \in Iters, EndBatch(r, n) \/ CancelBatch(r, n) \/ FinishTools(r, n)
      PROVE  UNCHANGED row
  BY <1>2 DEF EndBatch, CancelBatch, FinishTools
<1>3. ASSUME NEW i \in Instances, NEW m \in Modes, Claim(i, m) \/ WorkerStep(i, m) \/ WorkerError(i, m)
      PROVE  UNCHANGED row
  BY <1>3 DEF Claim, WorkerStep, WorkerError, Take, CreatePrompt, CreateIteration, SubmitBatch,
              RecordBatch, AdvanceRun, BeginStream, StreamReply, StreamRespond, StreamSettle, FailRun
<1>4. ASSUME NEW i \in Instances, PollerStep(i) \/ PollError(i)
      PROVE  UNCHANGED row
  BY <1>4 DEF PollerStep, PollError, ListIterations, GetBatch, ReadRun, MarkProcessing, MarkCanceling,
              MarkEnded, FetchResult, PollRespond, PollSettle, PollFail
<1>5. ASSUME NEW i \in Instances, ScanStuck(i) \/ RescueRun(i) \/ Crash(i) \/ Restart(i)
      PROVE  UNCHANGED row
  BY <1>5 DEF ScanStuck, RescueRun, Crash, Restart, ProgressKept
<1> QED
  BY <1>1, <1>2, <1>3, <1>4, <1>5 DEF Next, Noted

\* Where nobody cancels, what the API knows of a request becomes a running batch or its answer.
LEMMA ApiSteps ==
    ASSUME OwnInv, Next, ProgressKept, NEW r \in Runs, NEW n \in Iters, api'[r][n] # api[r][n]
    PROVE  api'[r][n] \in {"running", "tools", "text", "errored"}
<1>0. Types /\ Assigned
  BY DEF OwnInv, IndInv, TypeOK, Types, Assigned
<1>1. ASSUME NEW q, NEW k, NEW v, api' = [api EXCEPT ![q][k] = v]
      PROVE  api'[r][n] = v
  BY <1>0, <1>1 DEF Types
<1>2. UNCHANGED api => FALSE
  OBVIOUS
<1>3. ASSUME NEW q \in Runs, NEW k \in Iters, EndBatch(q, k)
      PROVE  api'[r][n] \in {"running", "tools", "text", "errored"}
  <2>1. PICK v \in BatchReplies(k) : api' = [api EXCEPT ![q][k] = v]
    BY <1>3 DEF EndBatch
  <2>2. v \in {"tools", "text", "errored"}
    BY DEF BatchReplies, ProgressKept
  <2> QED
    BY <1>1, <2>1, <2>2
<1>4. ASSUME NEW i \in Instances, NEW m \in Modes, StreamReply(i, m)
      PROVE  api'[r][n] \in {"running", "tools", "text", "errored"}
  <2>1. PICK v \in {"text", "tools"} : api' = [api EXCEPT ![work[i][m].run][work[i][m].base + 1] = v]
    BY <1>4 DEF StreamReply
  <2> QED
    BY <1>1, <2>1
<1>5. ASSUME NEW i \in Instances, NEW m \in Modes, SubmitBatch(i, m)
      PROVE  api'[r][n] = "running"
  BY <1>1, <1>5 DEF SubmitBatch
<1>6. ASSUME NEW q \in Runs, CreateRun(q) \/ Noted(q) \/ AgeClaim(q)
      PROVE  FALSE
  BY <1>2, <1>6, NoteSteps DEF CreateRun, AgeClaim
<1>7. ASSUME NEW i \in Instances, NEW m \in Modes, Claim(i, m) \/ WorkerStep(i, m) \/ WorkerError(i, m)
      PROVE  SubmitBatch(i, m) \/ StreamReply(i, m)
  BY <1>2, <1>7 DEF Claim, WorkerStep, WorkerError, Take, CreatePrompt, CreateIteration, FailRun,
              RecordBatch, AdvanceRun, BeginStream, StreamRespond, StreamSettle
<1>8. ASSUME NEW i \in Instances, PollerStep(i) \/ PollError(i) PROVE FALSE
  BY <1>2, <1>8 DEF PollerStep, PollError, ListIterations, GetBatch, ReadRun, MarkProcessing,
               MarkCanceling, MarkEnded, FetchResult, PollRespond, PollSettle, PollFail
<1>9. ASSUME NEW i \in Instances, ScanStuck(i) \/ RescueRun(i) \/ Crash(i) \/ DeleteInstance(i) \/ Restart(i)
       PROVE  FALSE
  BY <1>2, <1>9 DEF ScanStuck, RescueRun, Crash, DeleteInstance, Restart
<1>10. ASSUME NEW q \in Runs, NEW k \in Iters, CancelBatch(q, k) \/ FinishTools(q, k) PROVE FALSE
  BY <1>2, <1>10 DEF CancelBatch, FinishTools, ProgressKept
<1> QED
  BY <1>3, <1>4, <1>5, <1>6, <1>7, <1>8, <1>9, <1>10 DEF Next, Noted

\* A claim makes the worker hold what it claims.
LEMMA ClaimHeld ==
    ASSUME OwnInv, NEW i \in Instances, NEW m \in Modes, Claim(i, m), NEW r \in Runs,
           run'[r].state # run[r].state
    PROVE  Held(i, m, r)' /\ run'[r].claimed = i
<1>0. run \in [Runs -> Row] /\ work \in [Instances -> [Modes -> Worker]]
  BY DEF OwnInv, IndInv, TypeOK, Types
<1>1. PICK S \in (SUBSET Claimable(i, m)) \ {{}} :
        /\ run' = [q \in Runs |->
                   IF q \in S
                   THEN [run[q] EXCEPT !.claimed = i, !.aged = FALSE,
                           !.state = IF m = "batch" THEN "batch_submitting" ELSE "streaming"]
                   ELSE run[q]]
        /\ work' = [work EXCEPT ![i][m].queue = {[run |-> q, base |-> run[q].cur] : q \in S}]
  BY DEF Claim
<1> DEFINE Q == {[run |-> q, base |-> run[q].cur] : q \in S}
<1>2. r \in S
  BY <1>1
<1>3. run'[r].claimed = i
  BY <1>0, <1>1, <1>2 DEF Row
<1>4. \E t \in Q : t.run = r
  <2>1. [run |-> r, base |-> run[r].cur] \in Q
    BY <1>2
  <2> HIDE DEF Q
  <2> QED
    BY <2>1
<1>5. work'[i][m].queue = Q
  <2>1. work' = [work EXCEPT ![i][m] = [work[i][m] EXCEPT !.queue = Q]]
    BY <1>1
  <2> HIDE DEF Q
  <2>2. work[i][m] \in Worker /\ work'[i][m] = [work[i][m] EXCEPT !.queue = Q]
    BY <1>0, <2>1
  <2> QED
    BY <2>2 DEF Worker
<1> HIDE DEF Q
<1> QED
  BY <1>3, <1>4, <1>5 DEF Held

\* An iteration leaves the API by the hand of its poller.
LEMMA StatusLost ==
    ASSUME OwnInv, Next, NEW r \in Runs, NEW n \in Iters,
           status[r][n] = "in_progress", status'[r][n] # "in_progress"
    PROVE  \E i \in Instances : /\ poll[i].run = r /\ poll[i].iter = n
                                /\ MarkEnded(i) \/ MarkCanceling(i)
<1>0. Types /\ Assigned /\ status \in [Runs -> [Iters -> Statuses]]
  BY DEF OwnInv, IndInv, TypeOK, Types, Assigned
<1>1. UNCHANGED status => FALSE
  OBVIOUS
<1>2. ASSUME NEW i \in Instances, NEW m \in Modes, CreateIteration(i, m) PROVE FALSE
  <2>1. work[i][m].run \in Runs /\ work[i][m].base + 1 \in Iters
    BY <1>0, <1>2, WorkerTask DEF CreateIteration, At
  <2> QED
    BY <1>0, <1>2, <2>1 DEF CreateIteration
<1>3. ASSUME NEW i \in Instances, NEW m \in Modes, RecordBatch(i, m) PROVE FALSE
  <2>1. work[i][m].run \in Runs /\ work[i][m].base + 1 \in Iters
    BY <1>0, <1>3, WorkerTask DEF RecordBatch, At
  <2> QED
    BY <1>0, <1>3, <2>1 DEF RecordBatch
<1>4. ASSUME NEW i \in Instances, MarkEnded(i) \/ MarkCanceling(i) PROVE poll[i].run = r /\ poll[i].iter = n
  <2>1. poll[i].run \in Runs /\ poll[i].iter \in Iters
    BY <1>0, <1>4, PollerTask DEF MarkEnded, MarkCanceling, Polls
  <2> QED
    BY <1>0, <1>4, <2>1 DEF MarkEnded, MarkCanceling
<1>5. ASSUME NEW q \in Runs, CreateRun(q) \/ Noted(q) \/ AgeClaim(q)
      PROVE  FALSE
  BY <1>1, <1>5, NoteSteps DEF CreateRun, AgeClaim
<1>6. ASSUME NEW q \in Runs, NEW k \in Iters, EndBatch(q, k) \/ CancelBatch(q, k) \/ FinishTools(q, k)
      PROVE  FALSE
  BY <1>1, <1>6 DEF EndBatch, CancelBatch, FinishTools
<1>7. ASSUME NEW i \in Instances, NEW m \in Modes, Claim(i, m) \/ WorkerStep(i, m) \/ WorkerError(i, m)
      PROVE  FALSE
  BY <1>1, <1>2, <1>3, <1>7
     DEF Claim, WorkerStep, WorkerError, Take, CreatePrompt, FailRun, SubmitBatch,
         AdvanceRun, BeginStream, StreamReply, StreamRespond, StreamSettle
<1>8. ASSUME NEW i \in Instances, PollerStep(i) \/ PollError(i) PROVE MarkEnded(i) \/ MarkCanceling(i)
  BY <1>1, <1>8 DEF PollerStep, PollError, ListIterations, GetBatch, ReadRun, MarkProcessing,
               FetchResult, PollRespond, PollSettle, PollFail
<1>9. ASSUME NEW i \in Instances, ScanStuck(i) \/ RescueRun(i) \/ Crash(i) \/ DeleteInstance(i) \/ Restart(i)
       PROVE  FALSE
  BY <1>1, <1>9 DEF ScanStuck, RescueRun, Crash, DeleteInstance, Restart
<1> QED
  BY <1>4, <1>5, <1>6, <1>7, <1>8, <1>9 DEF Next, Noted

\* A poller that handles an end goes on with it until it has written the run.
LEMMA PollLost ==
    ASSUME OwnInv, OwnershipKept, Next, NEW i \in Instances, poll[i].pc \in Handling
    PROVE  \/ poll'[i].pc \in Handling /\ poll'[i].run = poll[i].run /\ poll'[i].iter = poll[i].iter
           \/ Crash(i) \/ PollSettle(i) \/ PollFail(i)
           \/ /\ poll[i].pc = "fetch"
              /\ api[poll[i].run][poll[i].iter] \notin {"tools", "text", "errored"}
<1>0. poll \in [Instances -> Poller] /\ poll[i].pc # "idle"
  BY DEF OwnInv, IndInv, TypeOK, Types, Handling
<1> DEFINE Goes ==
           \/ poll'[i].pc \in Handling /\ poll'[i].run = poll[i].run /\ poll'[i].iter = poll[i].iter
           \/ Crash(i) \/ PollSettle(i) \/ PollFail(i)
           \/ /\ poll[i].pc = "fetch"
              /\ api[poll[i].run][poll[i].iter] \notin {"tools", "text", "errored"}
<1>1. ASSUME poll'[i] = poll[i] PROVE Goes
  BY <1>1
<1>2. ASSUME NEW j \in Instances, Crash(j) PROVE Crash(i) \/ poll'[i] = poll[i]
  BY <1>0, <1>2 DEF Crash
<1>3. ASSUME NEW j \in Instances, ListIterations(j) \/ GetBatch(j) PROVE poll'[i] = poll[i]
  <2>1. j # i
    BY <1>0, <1>3 DEF ListIterations, GetBatch, Polls
  <2> QED
    BY <1>0, <1>3, <2>1 DEF ListIterations, GetBatch
<1>4. ASSUME NEW j \in Instances, j # i, PollNext(j) PROVE poll'[i] = poll[i]
  BY <1>0, <1>4, PollNextTypes
<1>5. ASSUME NEW j \in Instances, NEW pc \in PollerPCs, PollGoto(j, pc)
      PROVE  /\ j # i => poll'[i] = poll[i]
             /\ j = i => poll'[i].pc = pc /\ poll'[i].run = poll[i].run /\ poll'[i].iter = poll[i].iter
  BY <1>0, <1>5, PollGotoTypes
<1> HIDE DEF Goes
<1>6. ASSUME NEW j \in Instances, PollerStep(j) PROVE Goes
  <2>0. {"mark", "fetch", "respond", "settle", "fail"} \subseteq PollerPCs
    BY Names
  <2>1. CASE j # i
    <3>1. \/ ListIterations(j) \/ GetBatch(j) \/ PollNext(j)
          \/ \E pc \in PollerPCs : PollGoto(j, pc)
      BY <1>6, <2>0 DEF PollerStep, ReadRun, MarkProcessing, MarkCanceling, MarkEnded,
                        FetchResult, PollRespond, PollSettle, PollFail
    <3> QED
      BY <1>1, <1>3, <1>4, <1>5, <2>1, <3>1
  <2>2. CASE j = i
    <3>1. FetchResult(i) \/ PollRespond(i) \/ PollSettle(i) \/ PollFail(i)
      BY <1>6, <2>2 DEF PollerStep, ListIterations, GetBatch, ReadRun, MarkProcessing, MarkCanceling,
                        MarkEnded, Polls, Handling
    <3>2. CASE FetchResult(i)
      BY <1>5, <2>0, <3>2 DEF FetchResult, Polls, Goes, Handling
    <3>3. CASE PollRespond(i)
      BY <1>5, <2>0, <3>3 DEF PollRespond, Goes, Handling
    <3> QED
      BY <3>1, <3>2, <3>3 DEF Goes
  <2> QED
    BY <2>1, <2>2
<1>7. ASSUME NEW r \in Runs, CreateRun(r) \/ Noted(r) \/ AgeClaim(r)
      PROVE  UNCHANGED poll
  BY <1>7, NoteSteps DEF CreateRun, AgeClaim
<1>8. ASSUME NEW r \in Runs, NEW n \in Iters, EndBatch(r, n) \/ CancelBatch(r, n) \/ FinishTools(r, n)
      PROVE  UNCHANGED poll
  BY <1>8 DEF EndBatch, CancelBatch, FinishTools
<1>9. ASSUME NEW j \in Instances, NEW m \in Modes, Claim(j, m) \/ WorkerStep(j, m) \/ WorkerError(j, m)
       PROVE  UNCHANGED poll
  BY <1>9 DEF Claim, WorkerStep, WorkerError, Take, CreatePrompt, CreateIteration, SubmitBatch,
               RecordBatch, AdvanceRun, BeginStream, StreamReply, StreamRespond, StreamSettle, FailRun
<1>10. ASSUME NEW j \in Instances, ScanStuck(j) \/ RescueRun(j) \/ DeleteInstance(j) \/ Restart(j)
       PROVE  UNCHANGED poll
  BY <1>10 DEF ScanStuck, RescueRun, DeleteInstance, Restart
<1>11. \A j \in Instances : ~PollError(j)
  BY NoRescue, Names
<1>12. ASSUME NEW j \in Instances, Crash(j) PROVE Goes
  BY <1>1, <1>2, <1>12 DEF Goes
<1>13. Goes
  BY <1>1, <1>6, <1>7, <1>8, <1>9, <1>10, <1>11, <1>12 DEF Next, Noted
<1> QED
  BY <1>13 DEF Goes

\* The rows of the instances that are up stay.
LEMMA PresentStep ==
    ASSUME OwnInv, Present, ProgressKept, Next
    PROVE  Present'
<1>1. ASSUME NEW i \in Instances, up'[i] PROVE row'[i]
  <2>1. up[i] /\ row[i]
    BY <1>1, UpSteps DEF ProgressKept, Present
  <2>2. ASSUME NEW j \in Instances, DeleteInstance(j) PROVE row'[i] = row[i]
    <3>1. ~up[j] /\ row' = [row EXCEPT ![j] = FALSE]
      BY <2>2 DEF DeleteInstance, ProgressKept
    <3> QED
      BY <2>1, <3>1 DEF OwnInv, IndInv, TypeOK, Types
  <2> QED
    BY <2>1, <2>2, RowSteps
<1> QED
  BY <1>1 DEF Present

\* What the API answers is what its pollers find.
LEMMA AskedStep ==
    ASSUME OwnInv, Asked, ProgressKept, Next
    PROVE  Asked'
<1>0. /\ OwnershipKept /\ Types /\ Assigned /\ Exclusive
      /\ poll \in [Instances -> Poller]
      /\ api \in [Runs -> [Iters -> ApiValues]]
  BY DEF OwnInv, IndInv, TypeOK, Types, Assigned, ProgressKept, ApiValues
<1> DEFINE Answer == {"tools", "text", "errored"}
<1>1. \A r \in Runs, n \in Iters : api[r][n] \in Answer => api'[r][n] = api[r][n]
  BY <1>0, AnswersStep DEF AnswersKept, Replies
<1>2. ASSUME NEW i \in Instances, NEW m \in Modes, NEW r \in Runs, NEW n \in Iters,
             work'[i][m].run = r, work'[i][m].base + 1 = n, work'[i][m].pc = "advance"
      PROVE  status'[r][n] = "in_progress"
  <2>1. CASE work'[i][m] = work[i][m]
    <3>1. work[i][m].run = r /\ work[i][m].base + 1 = n /\ work[i][m].pc = "advance"
      BY <1>2, <2>1
    <3>2. status[r][n] = "in_progress"
      BY <3>1 DEF Asked
    <3>3. api[r][n] \notin Answer
      BY <3>1 DEF OwnInv, Own, Unanswered
    <3>4. ASSUME NEW j \in Instances, poll[j].run = r, poll[j].iter = n, MarkEnded(j) \/ MarkCanceling(j)
          PROVE  FALSE
      BY <3>3, <3>4 DEF MarkEnded, MarkCanceling, Polls, Asked
    <3>5. ~\E j \in Instances : /\ poll[j].run = r /\ poll[j].iter = n
                                /\ MarkEnded(j) \/ MarkCanceling(j)
      BY <3>4
    <3> QED
      BY <3>2, <3>5, StatusLost
  <2>2. CASE RecordBatch(i, m) /\ WentOn(i, m)
    <3>1. work[i][m].run = r /\ work[i][m].base + 1 = n
      BY <1>2, <2>2 DEF WentOn
    <3> QED
      BY <1>0, <2>2, <3>1 DEF RecordBatch, Types
  <2>3. ~Took(i, m) /\ ~Finished(i, m)
    BY <1>2 DEF Took, Finished
  <2>4. WentOn(i, m) => RecordBatch(i, m)
    BY <1>2 DEF WentOn, Onto
  <2> QED
    BY <1>0, <1>2, <2>1, <2>2, <2>3, <2>4, WorkMoves DEF Rest
<1>3. ASSUME NEW i \in Instances, NEW r \in Runs, NEW n \in Iters, poll'[i].run = r, poll'[i].iter = n
      PROVE  /\ poll'[i].pc # "cancel"
             /\ poll'[i].pc \in {"ended", "fetch"} => api'[r][n] \in Answer
  <2>1. CASE poll'[i] = poll[i]
    BY <1>1, <1>3, <2>1 DEF Asked
  <2>2. CASE GetBatch(i)
    <3>1. PICK p \in poll[i].list :
            poll' = [poll EXCEPT ![i] =
                   [pc |-> CASE api[p[1]][p[2]] = "running"   -> "seen"
                             [] api[p[1]][p[2]] = "canceling" -> "cancel"
                             [] OTHER                         -> "ended",
                    run |-> p[1], iter |-> p[2], list |-> poll[i].list \ {p}]]
      BY <2>2 DEF GetBatch
    <3>2. p[1] = r /\ p[2] = n
      BY <1>0, <1>3, <3>1
    <3>3. status[r][n] = "in_progress"
      BY <3>2 DEF OwnInv, Own, Polling, PollerOwns
    <3>4. api[r][n] \in {"running"} \cup Answer
      BY <1>0, <3>3, Names DEF Asked
    <3>5. /\ api[r][n] = "running" => poll'[i].pc = "seen"
          /\ api[r][n] \in Answer => poll'[i].pc = "ended"
      BY <1>0, <3>1, <3>2
    <3>6. UNCHANGED api
      BY <2>2 DEF GetBatch
    <3> QED
      BY <3>4, <3>5, <3>6
  <2>3. CASE MarkEnded(i) /\ poll'[i].run = poll[i].run /\ poll'[i].iter = poll[i].iter
              /\ poll'[i].pc = "fetch"
    BY <1>1, <1>3, <2>3 DEF Asked, MarkEnded, Polls
  <2> QED
    BY <1>0, <2>1, <2>2, <2>3, PollMoves
<1>4. ASSUME NEW r \in Runs, NEW n \in Iters
      PROVE  api'[r][n] \notin {"canceling", "lost"}
  BY <1>0, ApiSteps DEF Asked
<1>5. ASSUME NEW r \in Runs, NEW n \in Iters, status'[r][n] = "in_progress"
      PROVE  api'[r][n] # "none"
  <2>1. api[r][n] # "none" => api'[r][n] # "none"
    BY ApiSteps
  <2>2. CASE status[r][n] = "in_progress"
    BY <2>1, <2>2 DEF Asked
  <2>3. CASE status[r][n] # "in_progress"
    <3>1. PICK i \in Instances : RecordBatch(i, "batch") /\ work[i]["batch"].run = r
                                 /\ work[i]["batch"].base + 1 = n
      BY <1>5, <2>3, StatusNew
    <3>2. api[r][n] # "none"
      BY <3>1, Names DEF OwnInv, Own, Unanswered, RecordBatch, At
    <3> QED
      BY <2>1, <3>2
  <2> QED
    BY <2>2, <2>3
<1> QED
  BY <1>2, <1>3, <1>4, <1>5 DEF Asked

\* What settles or fails a run that has not ended moves it on.
LEMMA SettleMoves ==
    ASSUME OwnInv, NEW r \in Runs, NEW n, ~IsTerminal(r),
           Settle(r, n) \/ Write(r, FailedRow(r))
    PROVE  run'[r].state \in {"pending_tools", "completed", "failed"}
<1>0. run \in [Runs -> Row] /\ run[r].final = FALSE
  BY DEF OwnInv, IndInv, TypeOK, Types, RowsConsistent, Consistent, IsTerminal, Row
<1>1. Consistent(FailedRow(r)) /\ FailedRow(r).state = "failed"
  BY <1>0 DEF Consistent, FailedRow, Row, Terminal
<1>2. Consistent(SettledRow(r, n)) /\ SettledRow(r, n).state \in {"pending_tools", "completed"}
  BY <1>0 DEF Consistent, SettledRow, Row, Terminal
<1>3. ASSUME NEW new, Write(r, new), Consistent(new) PROVE run'[r] = new
  BY <1>0, <1>3 DEF Write
<1>4. CASE Settle(r, n)
  BY <1>2, <1>3, <1>4 DEF Settle
<1> QED
  BY <1>1, <1>3, <1>4

\* The ways of a run from state to state, and who leads it.
LEMMA StateMoves ==
    ASSUME OwnInv, OwnershipKept, Next, NEW r \in Runs, run'[r].state # run[r].state
    PROVE  \/ run[r].state = "absent" /\ run'[r].state = "pending"
           \/ Claimed(r) \/ Unclaimed(r)
           \/ /\ run'[r].state = "batch_pending"
              /\ \E i \in Instances : AdvanceRun(i, "batch") /\ work[i]["batch"].run = r
           \/ /\ run'[r].state = "batch_processing"
              /\ \E i \in Instances : MarkProcessing(i) /\ poll[i].run = r
           \/ run'[r].state \in {"pending_tools", "completed", "failed"}
<1> DEFINE Led ==
           \/ run[r].state = "absent" /\ run'[r].state = "pending"
           \/ Claimed(r) \/ Unclaimed(r)
           \/ /\ run'[r].state = "batch_pending"
              /\ \E i \in Instances : AdvanceRun(i, "batch") /\ work[i]["batch"].run = r
           \/ /\ run'[r].state = "batch_processing"
              /\ \E i \in Instances : MarkProcessing(i) /\ poll[i].run = r
           \/ run'[r].state \in {"pending_tools", "completed", "failed"}
<1>0. run \in [Runs -> Row] /\ Types /\ Assigned
  BY DEF OwnInv, IndInv, TypeOK, Types, Assigned
<1>1. ASSUME NEW new, Write(r, new) PROVE run'[r] = new
  BY <1>0, <1>1 DEF Write
<1>2. ASSUME CreateRun(r) PROVE Led
  BY <1>0, <1>2 DEF CreateRun, Row
<1>3. ASSUME Continuing(r) PROVE Led
  BY <1>0, <1>3 DEF Continuing, Continue, Continued, Row, Unclaimed
<1>4. ASSUME NEW i \in Instances, NEW m \in Modes, Claim(i, m), run[r].state = "pending" PROVE Led
  <2>1. run'[r].claimed = i
    BY <1>4, ClaimHeld
  <2>2. run'[r].state \in {"batch_submitting", "streaming"}
    BY <1>0, <1>4 DEF Claim, Row
  <2> QED
    BY <1>4, <2>1, <2>2 DEF Claimed
<1>5. ASSUME NEW i \in Instances, work[i]["batch"].run = r, AdvanceRun(i, "batch") PROVE Led
  <2>1. Write(r, AdvancedRow(r, work[i]["batch"].base + 1))
    BY <1>5 DEF AdvanceRun
  <2>2. run'[r] = AdvancedRow(r, work[i]["batch"].base + 1)
    BY <1>1, <2>1
  <2>3. run'[r].state = "batch_pending"
    BY <1>0, <2>2 DEF AdvancedRow, Row
  <2> QED
    BY <1>5, <2>3
<1>6. ASSUME NEW i \in Instances, work[i]["streaming"].run = r, StreamSettle(i, "streaming") PROVE Led
  <2>1. Write(r, SettledRow(r, work[i]["streaming"].base + 1))
    BY <1>6 DEF StreamSettle, Settle
  <2>2. run'[r] = SettledRow(r, work[i]["streaming"].base + 1)
    BY <1>1, <2>1
  <2> QED
    BY <1>0, <2>2 DEF SettledRow, Row
<1>7. ASSUME NEW i \in Instances, poll[i].run = r, PollSettle(i) PROVE Led
  <2>1. run'[r] = SettledRow(r, poll[i].iter)
    BY <1>1, <1>7 DEF PollSettle, Settle
  <2> QED
    BY <1>0, <2>1 DEF SettledRow, Row
<1>8. ASSUME Write(r, FailedRow(r)) PROVE Led
  BY <1>0, <1>1, <1>8 DEF FailedRow, Row
<1>9. ASSUME NEW i \in Instances, poll[i].run = r, MarkProcessing(i) PROVE Led
  <2>1. run'[r] = [run[r] EXCEPT !.state = "batch_processing"]
    BY <1>1, <1>9 DEF MarkProcessing
  <2> QED
    BY <1>0, <1>9, <2>1 DEF Row
<1>10. ASSUME NEW i \in Instances, DeleteInstance(i), run[r].claimed = i, ~IsTerminal(r) PROVE Led
  <2>1. run'[r] = FailedRow(r)
    BY <1>10 DEF DeleteInstance
  <2> QED
    BY <1>0, <2>1 DEF FailedRow, Row
<1>11. ASSUME NEW i \in Instances, NEW m \in Modes, work[i][m].run = r, FailRun(i, m) PROVE Led
  BY <1>8, <1>11 DEF FailRun
<1>12. ASSUME NEW i \in Instances, poll[i].run = r, PollFail(i) PROVE Led
  BY <1>8, <1>12 DEF PollFail
<1> HIDE DEF Led
<1>13. ASSUME CreateRun(r) \/ Continuing(r) PROVE Led
  BY <1>2, <1>3, <1>13
<1>14. ASSUME NEW i \in Instances, NEW m \in Modes, work[i][m].run = r,
              (m = "batch" /\ AdvanceRun(i, m)) \/ (m = "streaming" /\ StreamSettle(i, m)) \/ FailRun(i, m)
       PROVE  Led
  BY <1>5, <1>6, <1>11, <1>14
<1>15. Mover(r)
  BY StateSteps
<1>16. Led
  BY <1>4, <1>7, <1>9, <1>10, <1>12, <1>13, <1>14, <1>15 DEF Mover
<1> QED
  BY <1>16 DEF Led

\* A worker lets go of its run by moving it on, or by stopping.
LEMMA LetsGo ==
    ASSUME OwnInv, OwnershipKept, Next, NEW r \in Runs, ~IsTerminal(r),
           NEW i \in Instances, NEW m \in Modes, Held(i, m, r), ~Held(i, m, r)'
    PROVE  Crash(i) \/ run'[r].state \notin {"batch_submitting", "streaming"}
<1>0. /\ Types /\ Assigned /\ run \in [Runs -> Row]
      /\ work[i][m].pc = "idle" => work[i][m].run = None
  BY DEF OwnInv, IndInv, TypeOK, Types, Assigned, Own, Hands
<1>1. ~Took(i, m) /\ ~WentOn(i, m) /\ work'[i][m] # work[i][m]
  <2>1. ASSUME Took(i, m) PROVE FALSE
    <3>1. PICK t \in work[i][m].queue :
            work'[i][m].run = t.run /\ work'[i][m].queue = work[i][m].queue \ {t}
      BY <2>1 DEF Took
    <3>2. work[i][m].run # r
      BY <1>0, <2>1, NoneAssumption DEF Took
    <3> QED
      BY <3>1, <3>2 DEF Held
  <2> QED
    BY <2>1 DEF WentOn, Held
<1>2. ~Claim(i, m)
  <2>1. Claim(i, m) => work[i][m].run = None /\ work[i][m].queue = {}
    BY <1>0 DEF Claim, At
  <2> QED
    BY <2>1, NoneAssumption DEF Held
<1>3. ASSUME Finished(i, m) PROVE run'[r].state \notin {"batch_submitting", "streaming"}
  <2>1. work[i][m].run = r
    BY <1>3 DEF Finished, Held
  <2>2. CASE AdvanceRun(i, m)
    <3> DEFINE new == AdvancedRow(r, work[i][m].base + 1)
    <3>1. new.final = run[r].final /\ new.state = "batch_pending"
      BY <1>0 DEF AdvancedRow, Row
    <3>2. Write(r, new)
      BY <2>1, <2>2 DEF AdvanceRun
    <3> HIDE DEF new
    <3>3. run'[r] = new
      BY <3>1, <3>2, WriteOpen DEF Terminal
    <3> QED
      BY <3>1, <3>3
  <2>3. CASE StreamSettle(i, m) \/ FailRun(i, m)
    <3>1. Settle(r, work[i][m].base + 1) \/ Write(r, FailedRow(r))
      BY <2>1, <2>3 DEF StreamSettle, FailRun
    <3> QED
      BY <3>1, SettleMoves
  <2> QED
    BY <1>3, <2>2, <2>3 DEF Finished
<1> QED
  BY <1>1, <1>2, <1>3, WorkMoves

\* The owner of a run in work goes on with it, moves it on, or stops and leaves its row.
LEMMA OwnedStep ==
    ASSUME OwnInv, Present, Asked, ProgressKept, Next, NEW r \in Runs, Owned(r)
    PROVE  Owned(r)'
<1>0. /\ OwnershipKept /\ Types /\ Assigned /\ run \in [Runs -> Row]
      /\ row \in [Instances -> BOOLEAN] /\ up \in [Instances -> BOOLEAN]
      /\ poll \in [Instances -> Poller]
  BY DEF OwnInv, IndInv, TypeOK, Types, Assigned, ProgressKept
<1>1. SameClaim(r) \/ Claimed(r) \/ Unclaimed(r)
  BY <1>0, ClaimMoves
<1>2. run'[r].state \in {"absent", "pending"} => run'[r].claimed = None
  <2>1. ASSUME run[r].state \in {"absent", "pending"}, run'[r].state \in {"absent", "pending"}
        PROVE  run'[r].claimed = None
    BY <1>1, <2>1 DEF Owned, SameClaim, Claimed, Unclaimed
  <2>2. ASSUME run[r].state \notin {"absent", "pending"}, run'[r].state \in {"absent", "pending"}
        PROVE  run'[r].claimed = None
    BY <1>0, <2>2, StateMoves DEF Claimed, Unclaimed
  <2> QED
    BY <2>1, <2>2
<1>3. run'[r].state \in Seized => run'[r].claimed # None
  <2>1. ASSUME run[r].state \in Seized, run'[r].state \in Seized PROVE run'[r].claimed # None
    BY <1>0, <2>1, ClaimSteps DEF Owned, SameClaim, Seized
  <2>2. ASSUME run[r].state \notin Seized, run'[r].state \in Seized PROVE run'[r].claimed # None
    <3>1. CASE Claimed(r)
      BY <3>1, NoneAssumption DEF Claimed
    <3>2. CASE \E i \in Instances : AdvanceRun(i, "batch") /\ work[i]["batch"].run = r
      <4>1. PICK i \in Instances : AdvanceRun(i, "batch") /\ work[i]["batch"].run = r
        BY <3>2
      <4>2. Held(i, "batch", r) /\ "batch" \in Modes
        BY <4>1, Names DEF Held
      <4>3. run[r].claimed = i /\ (IsTerminal(r) \/ run[r].state = "batch_submitting")
        BY <4>2 DEF OwnInv, Own, Claims, ClaimedState
      <4>4. run[r].state \in Terminal
        BY <2>2, <4>3 DEF Seized, IsTerminal
      <4> QED
        BY <1>0, <2>2, <4>4, RowsStep DEF RowsKept, IsTerminal, OwnInv, IndInv, Seized, Terminal
    <3>3. CASE \E i \in Instances : MarkProcessing(i) /\ poll[i].run = r
      <4>1. PICK i \in Instances : MarkProcessing(i) /\ poll[i].run = r
        BY <3>3
      <4>2. run[r].claimed = i /\ poll[i].iter \in Iters /\ Engaged(r, poll[i].iter)
        BY <1>0, <4>1, PollerEngaged DEF MarkProcessing, Polls, OwnInv, Own
      <4>3. run'[r].claimed = run[r].claimed
        BY <1>0, <4>2, EngagedClaims DEF SameClaim
      <4> QED
        BY <4>2, <4>3, NoneAssumption
    <3> QED
      BY <1>0, <2>2, <3>1, <3>2, <3>3, StateMoves DEF Seized, Unclaimed
  <2> QED
    BY <2>1, <2>2
<1>4. run'[r].claimed # None /\ ~IsTerminal(r)' => row'[run'[r].claimed]
  <2> SUFFICES ASSUME run'[r].claimed # None, run'[r].state \notin Terminal
               PROVE  row'[run'[r].claimed]
    BY DEF IsTerminal
  <2>1. CASE Claimed(r)
    <3>1. PICK i \in Instances, m \in Modes : Claim(i, m) /\ run'[r].claimed = i
      BY <2>1 DEF Claimed
    <3> QED
      BY <3>1 DEF Claim, At, Present
  <2>2. CASE SameClaim(r)
    <3>1. ~IsTerminal(r)
      BY <1>0, RowsStep DEF RowsKept, IsTerminal, OwnInv, IndInv
    <3>2. row[run[r].claimed] /\ run[r].claimed \in Instances
      BY <1>0, <2>2, <3>1 DEF Owned, SameClaim, Row
    <3>3. ASSUME NEW i \in Instances, DeleteInstance(i), run[r].claimed = i PROVE FALSE
      <4>1. run'[r] = FailedRow(r)
        BY <3>1, <3>3 DEF DeleteInstance
      <4> QED
        BY <1>0, <4>1 DEF FailedRow, Row, Terminal
    <3>4. ASSUME NEW i \in Instances, DeleteInstance(i) PROVE row'[run[r].claimed]
      BY <1>0, <3>2, <3>3, <3>4 DEF DeleteInstance
    <3> QED
      BY <2>2, <3>2, <3>4, RowSteps DEF SameClaim
  <2> QED
    BY <1>1, <2>1, <2>2 DEF Unclaimed
<1>5. run'[r].state \in {"batch_submitting", "streaming"} /\ up'[run'[r].claimed] => ~Free(r)'
  <2> SUFFICES ASSUME run'[r].state \in {"batch_submitting", "streaming"}, up'[run'[r].claimed]
               PROVE  ~Free(r)'
    OBVIOUS
  <2>1. CASE run'[r].state # run[r].state
    <3>1. Claimed(r)
      BY <1>0, <2>1, StateMoves DEF Unclaimed
    <3>2. PICK i \in Instances, m \in Modes : Claim(i, m)
      BY <3>1 DEF Claimed
    <3>3. Held(i, m, r)'
      BY <2>1, <3>2, ClaimHeld
    <3> QED
      BY <3>3 DEF Free
  <2>2. CASE run'[r].state = run[r].state
    <3>1. run'[r].claimed = run[r].claimed /\ run[r].claimed \in Instances
      BY <1>0, <2>2, ClaimSteps DEF SameClaim, Owned, Seized, Row
    <3>2. ~Free(r)
      BY <2>2, <3>1, UpSteps DEF Owned, ProgressKept
    <3>3. PICK i \in Instances, m \in Modes : Held(i, m, r)
      BY <3>2 DEF Free
    <3>4. run[r].claimed = i
      BY <3>3 DEF OwnInv, Own, Claims
    <3>5. ~Crash(i)
      BY <1>0, <3>1, <3>4 DEF Crash
    <3>6. ~IsTerminal(r)
      BY <2>2 DEF IsTerminal, Terminal
    <3>7. Held(i, m, r)'
      BY <1>0, <3>3, <3>5, <3>6, LetsGo
    <3> QED
      BY <3>7 DEF Free
  <2> QED
    BY <2>1, <2>2
<1>6. run'[r].state \in {"batch_pending", "batch_processing"} /\ up'[run'[r].claimed] =>
          \E n \in Iters : Engaged(r, n)'
  <2> SUFFICES ASSUME run'[r].state \in {"batch_pending", "batch_processing"}, up'[run'[r].claimed]
               PROVE  \E n \in Iters : Engaged(r, n)'
    OBVIOUS
  <2>1. CASE run'[r].state # run[r].state
    <3>1. CASE \E i \in Instances : AdvanceRun(i, "batch") /\ work[i]["batch"].run = r
      <4>1. PICK i \in Instances : AdvanceRun(i, "batch") /\ work[i]["batch"].run = r
        BY <3>1
      <4>2. /\ work[i]["batch"].base + 1 \in Iters /\ "batch" \in Modes
            /\ work[i]["batch"].pc = "advance" /\ UNCHANGED status
        BY <1>0, <4>1, WorkerTask, Names DEF AdvanceRun, At
      <4>3. status'[r][work[i]["batch"].base + 1] = "in_progress"
        BY <4>1, <4>2 DEF Asked
      <4> QED
        BY <4>2, <4>3 DEF Engaged
    <3>2. CASE \E i \in Instances : MarkProcessing(i) /\ poll[i].run = r
      <4>1. PICK i \in Instances : MarkProcessing(i) /\ poll[i].run = r
        BY <3>2
      <4>2. poll[i].pc = "mark" /\ UNCHANGED status /\ PollerOwns(i)
        BY <4>1 DEF MarkProcessing, Polls, OwnInv, Own, Polling
      <4>3. poll[i].iter \in Iters /\ status'[r][poll[i].iter] = "in_progress"
        BY <1>0, <4>1, <4>2, PollerTask DEF PollerOwns, Handling
      <4> QED
        BY <4>3 DEF Engaged
    <3> QED
      BY <1>0, <2>1, <3>1, <3>2, StateMoves DEF Claimed, Unclaimed
  <2>2. CASE run'[r].state = run[r].state
    <3>1. run'[r].claimed = run[r].claimed /\ run[r].claimed \in Instances
      BY <1>0, <2>2, ClaimSteps DEF SameClaim, Owned, Seized, Row
    <3>2. PICK n \in Iters : Engaged(r, n)
      BY <2>2, <3>1, UpSteps DEF Owned, ProgressKept
    <3>3. ~IsTerminal(r)
      BY <2>2 DEF IsTerminal, Terminal
    <3>4. CASE status[r][n] = "in_progress"
      <4>1. CASE status'[r][n] = "in_progress"
        BY <4>1 DEF Engaged
      <4>2. CASE status'[r][n] # "in_progress"
        <5>1. PICK i \in Instances : /\ poll[i].run = r /\ poll[i].iter = n
                                     /\ MarkEnded(i) \/ MarkCanceling(i)
          BY <3>4, <4>2, StatusLost
        <5>2. MarkEnded(i)
          BY <5>1 DEF MarkCanceling, Polls, Asked
        <5>3. poll'[i].pc = "fetch" /\ poll'[i].run = r /\ poll'[i].iter = n
          BY <1>0, <5>1, <5>2, PollGotoTypes, Names DEF MarkEnded
        <5> QED
          BY <5>3 DEF Engaged, Handling
      <4> QED
        BY <4>1, <4>2
    <3>5. CASE \E i \in Instances : poll[i].pc \in Handling /\ poll[i].run = r /\ poll[i].iter = n
      <4>1. PICK i \in Instances : poll[i].pc \in Handling /\ poll[i].run = r /\ poll[i].iter = n
        BY <3>5
      <4>2. ~Crash(i)
        <5>1. run[r].claimed = i
          BY <1>0, <4>1, PollerEngaged DEF Handling, OwnInv, Own
        <5> QED
          BY <1>0, <3>1, <5>1 DEF Crash
      <4>3. ~PollSettle(i) /\ ~PollFail(i)
        <5>1. PollSettle(i) \/ PollFail(i) => Settle(r, n) \/ Write(r, FailedRow(r))
          BY <4>1 DEF PollSettle, PollFail
        <5> QED
          BY <3>3, <5>1, SettleMoves
      <4>4. poll[i].pc = "fetch" => api[r][n] \in {"tools", "text", "errored"}
        BY <4>1 DEF Asked
      <4>5. poll'[i].pc \in Handling /\ poll'[i].run = r /\ poll'[i].iter = n
        BY <1>0, <4>1, <4>2, <4>3, <4>4, PollLost
      <4> QED
        BY <4>5 DEF Engaged
    <3> QED
      BY <3>2, <3>4, <3>5 DEF Engaged
  <2> QED
    BY <2>1, <2>2
<1> QED
  BY <1>2, <1>3, <1>4, <1>5, <1>6 DEF Owned

\* Every step keeps somebody to move each run.
LEMMA BusyInvStep ==
    ASSUME BusyInv, [Next]_vars, ProgressKept
    PROVE  BusyInv'
<1>0. TalkKept /\ OwnInv /\ Present /\ Asked /\ \A r \in Runs : Owned(r)
  BY DEF ProgressKept, TalkKept, BusyInv, TalkInv
<1>1. TalkInv'
  BY <1>0, TalkInvStep DEF BusyInv
<1>2. CASE UNCHANGED vars
  <2>1. Present' /\ Asked'
    BY <1>0, <1>2 DEF vars, Present, Asked
  <2>2. ASSUME NEW r \in Runs PROVE Owned(r)'
    BY <1>0, <1>2 DEF vars, Owned, Free, Held, Engaged, IsTerminal
  <2> QED
    BY <1>1, <2>1, <2>2 DEF BusyInv
<1>3. CASE Next
  <2>1. Present' /\ Asked'
    BY <1>0, <1>3, PresentStep, AskedStep
  <2>2. ASSUME NEW r \in Runs PROVE Owned(r)'
    BY <1>0, <1>3, OwnedStep
  <2> QED
    BY <1>1, <2>1, <2>2 DEF BusyInv
<1> QED
  BY <1>2, <1>3

\* There is no run yet, and every instance is up.
LEMMA BusyInvInit == Init => BusyInv
<1> SUFFICES ASSUME Init PROVE BusyInv
  OBVIOUS
<1>1. TalkInv
  BY TalkInvInit
<1>2. Present
  BY DEF Init, Present
<1>3. Asked
  <2>1. \A i \in Instances, m \in Modes : work[i][m].pc = "idle"
    BY DEF Init, Rest
  <2>2. \A i \in Instances : poll[i].pc = "idle"
    BY DEF Init, Quiet
  <2>3. \A r \in Runs, n \in Iters : api[r][n] = "none" /\ status[r][n] = "absent"
    BY DEF Init
  <2> QED
    BY <2>1, <2>2, <2>3 DEF Asked
<1>4. ASSUME NEW r \in Runs PROVE Owned(r)
  <2>1. run[r].state = "absent" /\ run[r].claimed = None
    BY DEF Init
  <2> QED
    BY <2>1 DEF Owned, Seized
<1> QED
  BY <1>1, <1>2, <1>3, <1>4 DEF BusyInv

\* In every reachable state a run in work has an owner that goes on with it, or whose
\* row the cleanup will find.
THEOREM BusyInvHolds ==
    ASSUME ProgressKept
    PROVE  Spec => []BusyInv
  BY BusyInvInit, BusyInvStep, PTL DEF Spec

\* Someone will still move every unfinished run, however the instances crash, whenever
\* the tools and batches end and whatever notification is lost: no rescuer is
\* needed where only dead instances lose their row and every batch has a result.
THEOREM NobodyIsForgotten ==
    ASSUME ProgressKept
    PROVE  Spec => []NoRunForgotten
<1>1. ASSUME BusyInv, NEW r \in Runs, run[r].state \notin Terminal \cup {"absent"}
      PROVE  Driven(r)
  <2>0. OwnInv /\ Owned(r) /\ run \in [Runs -> Row] /\ RowTalks(r)
    BY <1>1 DEF BusyInv, TalkInv, Talks, OwnInv, IndInv, TypeOK, Types
  <2>1. run[r].state \in {"pending", "pending_tools"} \cup Seized
    BY <1>1, <2>0 DEF Row, RunStates, InFlight, Seized
  <2>2. CASE run[r].state \in {"pending", "pending_tools"}
    BY <2>0, <2>2 DEF Owned, RowTalks, Driven
  <2>3. CASE run[r].state \in Seized
    <3>1. run[r].claimed # None /\ row[run[r].claimed]
      BY <1>1, <2>0, <2>3 DEF Owned, IsTerminal
    <3>2. CASE ~up[run[r].claimed]
      BY <3>1, <3>2 DEF Driven
    <3>3. CASE up[run[r].claimed] /\ run[r].state \in {"batch_submitting", "streaming"}
      <4>1. PICK i \in Instances, m \in Modes : Held(i, m, r)
        BY <2>0, <3>3 DEF Owned, Free
      <4>2. <<i, m>> \in Holders(r)
        BY <4>1 DEF Holders, Held
      <4> QED
        BY <4>2 DEF Driven
    <3>4. CASE up[run[r].claimed] /\ run[r].state \in {"batch_pending", "batch_processing"}
      <4>1. PICK n \in Iters : Engaged(r, n)
        BY <2>0, <3>4 DEF Owned
      <4>2. CASE status[r][n] = "in_progress"
        BY <3>1, <3>4, <4>2 DEF Driven
      <4>3. CASE \E i \in Instances : poll[i].pc \in Handling /\ poll[i].run = r /\ poll[i].iter = n
        BY <4>3 DEF Driven, Handling
      <4> QED
        BY <4>1, <4>2, <4>3 DEF Engaged
    <3> QED
      BY <2>3, <3>2, <3>3, <3>4 DEF Seized
  <2> QED
    BY <2>1, <2>2, <2>3
<1>2. BusyInv => NoRunForgotten
  BY <1>1 DEF NoRunForgotten
<1> QED
  BY <1>2, BusyInvHolds, PTL

-----------------------------------------------------------------------------
(* Every run goes through the agent loop.                                  *)

\* The model asks for tools in its first turns only.
Limited == \A r \in Runs, n \in Iters : api[r][n] = "tools" => n <= MaxTurns

\* A run to be claimed is nobody's.
Unowned == \A r \in Runs : run[r].state \in {"absent", "pending"} => run[r].claimed = None

LoopInv == EndInv /\ TalkInv /\ Limited /\ Unowned

\* As for a run's end and for its conversation.
LoopKept == FinalityKept /\ "late_notify" \notin Faults

\* What the API answers is one of its answers.
LEMMA LimitedStep ==
    ASSUME TypeOK, Limited, Next
    PROVE  Limited'
<1>0. api \in [Runs -> [Iters -> Replies \cup {"none", "running", "canceling"}]] /\ Types /\ Assigned
  BY DEF TypeOK, Types, Assigned
<1>1. ASSUME NEW r \in Runs, NEW n \in Iters, NEW reply,
             reply = "tools" => n <= MaxTurns, api' = [api EXCEPT ![r][n] = reply]
      PROVE  Limited'
  BY <1>0, <1>1 DEF Limited
<1>2. ASSUME UNCHANGED api PROVE Limited'
  BY <1>2 DEF Limited
<1>3. ASSUME NEW r \in Runs, CreateRun(r) \/ Noted(r) \/ AgeClaim(r)
      PROVE  Limited'
  BY <1>2, <1>3, NotedMoves DEF CreateRun, AgeClaim, TypeOK, Assigned
<1>4. ASSUME NEW r \in Runs, NEW n \in Iters, EndBatch(r, n) \/ CancelBatch(r, n) \/ FinishTools(r, n)
      PROVE  Limited'
  <2>1. CASE EndBatch(r, n)
    <3>1. PICK reply \in BatchReplies(n) : api' = [api EXCEPT ![r][n] = reply]
      BY <2>1 DEF EndBatch
    <3>2. reply = "tools" => n <= MaxTurns
      BY DEF BatchReplies
    <3> QED
      BY <1>1, <3>1, <3>2
  <2>2. CASE CancelBatch(r, n)
    BY <1>1, <2>2 DEF CancelBatch
  <2> QED
    BY <1>2, <1>4, <2>1, <2>2 DEF FinishTools
<1>5. ASSUME NEW i \in Instances, NEW m \in Modes, SubmitBatch(i, m) PROVE Limited'
  <2>1. work[i][m].run \in Runs /\ work[i][m].base + 1 \in Iters
    BY <1>0, <1>5, WorkerTask DEF SubmitBatch, At
  <2>2. api' = [api EXCEPT ![work[i][m].run][work[i][m].base + 1] = "running"]
    BY <1>5 DEF SubmitBatch
  <2>3. "running" = "tools" => work[i][m].base + 1 <= MaxTurns
    OBVIOUS
  <2> QED
    BY <1>1, <2>1, <2>2, <2>3
<1>6. ASSUME NEW i \in Instances, NEW m \in Modes, StreamReply(i, m) PROVE Limited'
  <2> DEFINE n == work[i][m].base + 1
  <2>1. work[i][m].run \in Runs /\ n \in Iters
    BY <1>0, <1>6, WorkerTask DEF StreamReply, At
  <2>2. PICK reply \in {"text"} \cup (IF n <= MaxTurns THEN {"tools"} ELSE {}) :
          api' = [api EXCEPT ![work[i][m].run][n] = reply]
    BY <1>6 DEF StreamReply
  <2>3. reply = "tools" => n <= MaxTurns
    BY <2>2
  <2> QED
    BY <1>1, <2>1, <2>2, <2>3
<1>7. ASSUME NEW i \in Instances, NEW m \in Modes, Claim(i, m) \/ WorkerStep(i, m) \/ WorkerError(i, m)
      PROVE  Limited'
  BY <1>2, <1>5, <1>6, <1>7
     DEF Claim, WorkerStep, WorkerError, Take, CreatePrompt, CreateIteration, RecordBatch, AdvanceRun,
         BeginStream, StreamRespond, StreamSettle, FailRun
<1>8. ASSUME NEW i \in Instances, PollerStep(i) \/ PollError(i) PROVE Limited'
  BY <1>2, <1>8 DEF PollerStep, PollError, ListIterations, GetBatch, ReadRun, MarkProcessing,
                    MarkCanceling, MarkEnded, FetchResult, PollRespond, PollSettle, PollFail
<1>9. ASSUME NEW i \in Instances, ScanStuck(i) \/ RescueRun(i) \/ Crash(i) \/ DeleteInstance(i) \/ Restart(i)
      PROVE  Limited'
  BY <1>2, <1>9 DEF ScanStuck, RescueRun, Crash, DeleteInstance, Restart
<1> QED
  BY <1>3, <1>4, <1>7, <1>8, <1>9 DEF Next, Noted

\* A run becomes claimable when it is created and when its tools are done, without an owner.
LEMMA UnownedStep ==
    ASSUME OwnInv, OwnershipKept, Unowned, Next
    PROVE  Unowned'
<1> SUFFICES ASSUME NEW r \in Runs, run'[r].state \in {"absent", "pending"}
             PROVE  run'[r].claimed = None
  BY DEF Unowned
<1>1. SameClaim(r) \/ Claimed(r) \/ Unclaimed(r)
  BY ClaimMoves
<1>2. ~Claimed(r)
  BY DEF Claimed
<1>3. CASE run'[r].state = run[r].state
  BY <1>1, <1>2, <1>3 DEF Unowned, SameClaim, Unclaimed
<1>4. CASE run'[r].state # run[r].state
  BY <1>1, <1>2, <1>4, StateMoves DEF Unowned, SameClaim, Unclaimed
<1> QED
  BY <1>3, <1>4

LEMMA LoopInvStep ==
    ASSUME LoopInv, [Next]_vars, LoopKept
    PROVE  LoopInv'
<1>0. OwnershipKept /\ TalkKept /\ EndInv /\ TalkInv /\ OwnInv /\ TypeOK
  BY DEF LoopInv, EndInv, OwnInv, IndInv, LoopKept, FinalityKept, TalkKept
<1>1. EndInv' /\ TalkInv'
  BY <1>0, EndInvStep, TalkInvStep DEF LoopKept
<1>2. CASE UNCHANGED vars
  BY <1>1, <1>2 DEF LoopInv, Limited, Unowned, vars
<1>3. CASE Next
  BY <1>0, <1>1, <1>3, LimitedStep, UnownedStep DEF LoopInv
<1> QED
  BY <1>2, <1>3

LEMMA LoopInvInit == Init => LoopInv
<1> SUFFICES ASSUME Init PROVE LoopInv
  OBVIOUS
<1>1. Limited /\ Unowned
  BY DEF Init, Limited, Unowned
<1> QED
  BY <1>1, EndInvInit, TalkInvInit DEF LoopInv

\* In every reachable state each run is where one process doing the loop would have it,
\* what the handlers of completions are about to store included.
THEOREM LoopInvHolds ==
    ASSUME LoopKept
    PROVE  Spec => []LoopInv
  BY LoopInvInit, LoopInvStep, PTL DEF Spec

\* What a state of the row is to the loop.
LEMMA Phases ==
    /\ Phase("absent") = "absent" /\ Phase("pending") = "queued" /\ Phase("pending_tools") = "waiting"
    /\ \A state \in InFlight \ {"pending_tools"} : Phase(state) = "working"
    /\ \A state \in Terminal : Phase(state) = state
  BY DEF Phase, InFlight, Terminal

\* Where the loop is while a worker or a poller is at the run.
LEMMA LoopWorker ==
    ASSUME LoopInv, NEW r \in Runs, NEW i \in Instances, NEW m \in Modes,
           work[i][m].run = r, work[i][m].pc # "idle"
    PROVE  /\ ~IsTerminal(r) /\ run[r].state = ClaimedState(m) /\ Phase(run[r].state) = "working"
           /\ work[i][m].base \in 0 .. MaxIter /\ work[i][m].base < MaxIter
           /\ Suits(work[i][m].pc, m)
<1>1. Held(i, m, r) /\ ~IsTerminal(r)
  BY DEF LoopInv, EndInv, Ended, Free, Held
<1>2. run[r].state = ClaimedState(m) /\ Suits(work[i][m].pc, m)
  BY <1>1 DEF LoopInv, EndInv, OwnInv, Own, Claims, Hands
<1>3. Types /\ Assigned
  BY DEF LoopInv, EndInv, OwnInv, IndInv, TypeOK, Types, Assigned
<1>4. work[i][m].base \in 0 .. MaxIter /\ work[i][m].base < MaxIter
  BY <1>3 DEF Types, Worker, Assigned, WorkersAssigned
<1>5. Phase(run[r].state) = "working"
  BY <1>2, Phases DEF ClaimedState, InFlight
<1> QED
  BY <1>1, <1>2, <1>4, <1>5

LEMMA LoopPoller ==
    ASSUME LoopInv, NEW r \in Runs, NEW i \in Instances, poll[i].run = r, poll[i].pc # "idle", up[i]
    PROVE  /\ ~IsTerminal(r) /\ run[r].state \in Batching /\ Phase(run[r].state) = "working"
           /\ poll[i].iter \in Iters /\ run[r].claimed = i
           /\ poll[i].pc \in {"mark", "respond", "settle", "fail"} => Free(r) /\ run[r].cur = poll[i].iter
<1>0. OwnInv /\ Own /\ Types /\ Assigned
  BY DEF LoopInv, EndInv, OwnInv, IndInv, TypeOK, Types, Assigned
<1>1. poll[i].iter \in Iters /\ Engaged(r, poll[i].iter) /\ run[r].claimed = i
  BY <1>0, PollerEngaged DEF Own
<1>2. ~IsTerminal(r)
  BY <1>1 DEF LoopInv, EndInv, Ended
<1>3. run[r].state \in Batching
  BY <1>0, <1>1, <1>2 DEF Own, Submitted
<1>4. Phase(run[r].state) = "working"
  BY <1>3, Phases DEF Batching, InFlight
<1>5. poll[i].pc \in {"mark", "respond", "settle", "fail"} => Free(r)
  BY <1>0, <1>2 DEF Own, Polling, PollerOwns
<1>6. poll[i].pc \in {"mark", "respond", "settle", "fail"} => run[r].cur = poll[i].iter
  BY <1>1, <1>2, <1>5 DEF LoopInv, TalkInv, Current
<1> QED
  BY <1>1, <1>2, <1>3, <1>4, <1>5, <1>6

\* A turn is begun when the one before it is answered.
LEMMA LoopBegins ==
    ASSUME LoopInv, Next, NEW r \in Runs, run'[r].cur # run[r].cur
    PROVE  Loop(r)!Begin
<1>0. OwnInv /\ run \in [Runs -> Row]
  BY DEF LoopInv, EndInv, OwnInv, IndInv, TypeOK, Types
<1>1. PICK i \in Instances, m \in Modes :
        /\ work[i][m].run = r /\ run'[r].cur = work[i][m].base + 1
        /\ AdvanceRun(i, m) \/ BeginStream(i, m)
  BY <1>0, CurMoves
<1> DEFINE base == work[i][m].base
<1>2. work[i][m].pc \in {"advance", "begin"} /\ UNCHANGED conv
  BY <1>1 DEF AdvanceRun, BeginStream, At
<1>3. ~IsTerminal(r) /\ run[r].state = ClaimedState(m) /\ Phase(run[r].state) = "working"
  BY <1>1, <1>2, LoopWorker
<1>4. run[r].cur = base
  BY <1>0, <1>1, <1>2 DEF OwnInv, IndInv, Exclusive, ExclusivePreparation, NotMoved, Preparing
<1>5. Ready(r, base)
  BY <1>1, <1>2 DEF LoopInv, TalkInv, Talks, WorkerTalks, Reading
<1>6. Phase(run'[r].state) = "working"
  <2>1. CASE AdvanceRun(i, m)
    <3>1. Write(r, AdvancedRow(r, base + 1))
      BY <1>1, <2>1 DEF AdvanceRun
    <3>2. AdvancedRow(r, base + 1).final = run[r].final /\ AdvancedRow(r, base + 1).state = "batch_pending"
      BY <1>0 DEF AdvancedRow, Row
    <3>3. run'[r].state = "batch_pending"
      BY <1>0, <1>3, <3>1, <3>2, WriteOpen DEF Terminal
    <3> QED
      BY <3>3, Phases DEF InFlight
  <2>2. CASE BeginStream(i, m)
    <3>1. run'[r].state = run[r].state
      BY <1>0, <1>1, <2>2 DEF BeginStream, Row
    <3> QED
      BY <1>3, <3>1
  <2> QED
    BY <1>1, <2>1, <2>2
<1> QED
  BY <1>1, <1>2, <1>3, <1>4, <1>5, <1>6 DEF Loop!Begin, Loop!Open, Loop!Last, Ready, Last

\* A message is the prompt, one of the model's answers or the results it asked for.
LEMMA LoopSpeaks ==
    ASSUME LoopInv, Next, NEW r \in Runs, conv'[r] # conv[r]
    PROVE  Loop(r)!Prompt \/ Loop(r)!Reply \/ Loop(r)!Continue
<1>0. OwnInv /\ run \in [Runs -> Row] /\ Types /\ Assigned /\ conv \in [Runs -> Seq(Message)]
  BY DEF LoopInv, EndInv, OwnInv, IndInv, TypeOK, Types, Assigned
<1>1. ASSUME NEW kind, NEW n, Said(r, kind, n)
      PROVE  conv'[r] = Append(conv[r], [kind |-> kind, iter |-> n])
  BY <1>0, <1>1 DEF Said
<1>2. ASSUME NEW kind \in {"tools", "text"}, NEW n \in Iters, api[r][n] = kind, Said(r, kind, n),
             run[r].cur = n, Ready(r, n - 1), Phase(run[r].state) = "working", UNCHANGED run
      PROVE  Loop(r)!Reply
  <2>1. kind = "tools" => n <= MaxTurns
    BY <1>2 DEF LoopInv, Limited
  <2>2. n > 0
    BY BoundsAssumption DEF Iters
  <2> QED
    BY <1>1, <1>2, <2>1, <2>2 DEF Loop!Reply, Loop!Open, Loop!Says, Loop!Last, Ready, Last
<1>3. CASE Continuing(r)
  <2>1. /\ run[r].state = "pending_tools" /\ Said(r, "tool_result", run[r].cur)
        /\ run'[r].state = "pending" /\ run'[r].cur = run[r].cur
    <3>1. Continue(r, run[r].cur)
      BY <1>3, ContinuesCurrent DEF LoopInv
    <3> QED
      BY <1>0, <3>1 DEF Continue, Continued, Row
  <2> QED
    BY <1>1, <2>1, Phases DEF Loop!Continue, Loop!Says
<1>4. ASSUME NEW i \in Instances, NEW m \in Modes, work[i][m].run = r, CreatePrompt(i, m)
      PROVE  Loop(r)!Prompt
  <2>1. work[i][m].pc = "prompt" /\ Said(r, "prompt", 0) /\ UNCHANGED run
    BY <1>4 DEF CreatePrompt, At
  <2>2. Phase(run[r].state) = "working"
    BY <1>4, <2>1, LoopWorker
  <2>3. conv[r] = <<>>
    BY <1>4, <2>1 DEF LoopInv, TalkInv, Talks, WorkerTalks, Fresh
  <2> QED
    BY <1>1, <2>1, <2>2, <2>3 DEF Loop!Prompt, Loop!Says
<1>5. ASSUME NEW i \in Instances, NEW m \in Modes, work[i][m].run = r, StreamRespond(i, m)
      PROVE  Loop(r)!Reply
  <2> DEFINE n == work[i][m].base + 1
  <2>1. work[i][m].pc = "respond" /\ Said(r, api[r][n], n) /\ UNCHANGED run
    BY <1>5 DEF StreamRespond, At
  <2>2. Phase(run[r].state) = "working" /\ n \in Iters /\ n - 1 = work[i][m].base
    BY <1>5, <2>1, LoopWorker, BoundsAssumption DEF Iters
  <2>3. api[r][n] \in {"tools", "text"}
    BY <1>0, <1>5, <2>1 DEF Assigned, WorkersAssigned
  <2>4. Ready(r, n - 1) /\ run[r].cur = n
    BY <1>5, <2>1, <2>2 DEF LoopInv, TalkInv, Talks, WorkerTalks, Reading, Current
  <2> QED
    BY <1>2, <2>1, <2>2, <2>3, <2>4
<1>6. ASSUME NEW i \in Instances, poll[i].run = r, PollRespond(i) PROVE Loop(r)!Reply
  <2> DEFINE n == poll[i].iter
  <2>1. poll[i].pc = "respond" /\ up[i] /\ Said(r, api[r][n], n) /\ UNCHANGED run
    BY <1>6 DEF PollRespond, Polls
  <2>2. Phase(run[r].state) = "working" /\ n \in Iters /\ run[r].cur = n
    BY <1>6, <2>1, LoopPoller
  <2>3. api[r][n] \in {"tools", "text"}
    BY <1>0, <1>6, <2>1 DEF Assigned, PollersAssigned
  <2>4. Ready(r, n - 1)
    BY <1>6, <2>1 DEF LoopInv, TalkInv, Talks, PollerTalks
  <2> QED
    BY <1>2, <2>1, <2>2, <2>3, <2>4
<1> QED
  BY <1>0, <1>3, <1>4, <1>5, <1>6, ConvMoves

\* What the model said last settles the run.
LEMMA LoopSettles ==
    ASSUME LoopInv, NEW r \in Runs, NEW n \in Iters, api[r][n] \in {"tools", "text"},
           Settle(r, n), UNCHANGED conv, Says(r, api[r][n], n), run[r].cur = n,
           ~IsTerminal(r), Phase(run[r].state) = "working"
    PROVE  Loop(r)!Settle
<1>0. run \in [Runs -> Row] /\ run[r].final = FALSE
  BY DEF LoopInv, EndInv, OwnInv, IndInv, TypeOK, Types, RowsConsistent, Consistent, IsTerminal, Row
<1>1. /\ Consistent(SettledRow(r, n)) /\ SettledRow(r, n).cur = run[r].cur
      /\ SettledRow(r, n).state = IF api[r][n] = "tools" THEN "pending_tools" ELSE "completed"
  BY <1>0 DEF Consistent, SettledRow, Row, Terminal
<1>2. run'[r] = SettledRow(r, n)
  BY <1>0, <1>1 DEF Settle, Write
<1>3. Phase(run'[r].state) = IF api[r][n] = "tools" THEN "waiting" ELSE "completed"
  BY <1>1, <1>2, Phases DEF Terminal
<1> QED
  BY <1>1, <1>2, <1>3 DEF Loop!Settle, Loop!Last, Says, Last

\* A run that is in flight may fail.
LEMMA LoopFails ==
    ASSUME LoopInv, NEW r \in Runs, Write(r, FailedRow(r)) \/ run'[r] = FailedRow(r),
           UNCHANGED conv, run[r].state \in InFlight
    PROVE  Loop(r)!Fail
<1>0. run \in [Runs -> Row]
  BY DEF LoopInv, EndInv, OwnInv, IndInv, TypeOK, Types
<1>1. Consistent(FailedRow(r)) /\ FailedRow(r).state = "failed" /\ FailedRow(r).cur = run[r].cur
  BY <1>0 DEF Consistent, FailedRow, Row, Terminal
<1>2. run'[r] = FailedRow(r)
  BY <1>0, <1>1 DEF Write
<1>3. Phase(run'[r].state) = "failed" /\ Phase(run[r].state) \in {"working", "waiting"}
  BY <1>1, <1>2, Phases DEF Terminal
<1> QED
  BY <1>1, <1>2, <1>3 DEF Loop!Fail

\* A state written without a message and without a new turn is the loop's next one, or
\* none to it.
LEMMA LoopMoves ==
    ASSUME LoopInv, LoopKept, Next, NEW r \in Runs,
           run'[r].state # run[r].state, run'[r].cur = run[r].cur, conv'[r] = conv[r]
    PROVE  Loop(r)!Next \/ UNCHANGED Loop(r)!vars
<1>0. /\ OwnInv /\ OwnershipKept /\ run \in [Runs -> Row] /\ Types /\ Assigned
      /\ conv \in [Runs -> Seq(Message)] /\ work \in [Instances -> [Modes -> Worker]]
  BY DEF LoopKept, FinalityKept, LoopInv, EndInv, OwnInv, IndInv, TypeOK, Types, Assigned
<1>1. ASSUME NEW new, Write(r, new) PROVE run'[r] = new
  BY <1>0, <1>1 DEF Write
<1>2. CASE CreateRun(r)
  <2>1. run[r].state = "absent" /\ run'[r].state = "pending"
    BY <1>0, <1>2 DEF CreateRun, Row
  <2> QED
    BY <2>1, Phases DEF Loop!Next, Loop!Create
<1>3. ~Continuing(r)
  <2> SUFFICES ASSUME Continuing(r) PROVE FALSE
    OBVIOUS
  <2>1. Said(r, "tool_result", run[r].cur) /\ [kind |-> "tool_result", iter |-> run[r].cur] \in Message
    BY <1>0, ContinuesCurrent DEF LoopInv, Continue, Message, Row
  <2> QED
    BY <1>0, <2>1, Said1
<1>4. ASSUME NEW i \in Instances, NEW m \in Modes, Claim(i, m), run[r].state = "pending"
      PROVE  Loop(r)!Next
  <2>0. run \in [Runs -> Row]
    BY <1>0
  <2>1. run'[r].state \in {"batch_submitting", "streaming"}
    BY <1>4, <2>0 DEF Claim, Row
  <2>2. Phase(run[r].state) = "queued" /\ Phase(run'[r].state) = "working"
    BY <1>4, <2>1, Phases DEF InFlight
  <2> QED
    BY <2>2 DEF Loop!Next, Loop!Claim
<1>5. ASSUME NEW i \in Instances, NEW m \in Modes, work[i][m].run = r, AdvanceRun(i, m) PROVE FALSE
  <2>1. work[i][m].pc = "advance" /\ Write(r, AdvancedRow(r, work[i][m].base + 1))
    BY <1>5 DEF AdvanceRun, At
  <2>2. run[r].cur = work[i][m].base /\ work[i][m].base \in 0 .. MaxIter
    BY <1>0, <1>5, <2>1, LoopWorker
       DEF OwnInv, IndInv, Exclusive, ExclusivePreparation, NotMoved, Preparing
  <2>3. run'[r].cur = work[i][m].base + 1
    BY <1>0, <1>1, <2>1 DEF AdvancedRow, Row
  <2> QED
    BY <2>2, <2>3, BoundsAssumption
<1>6. ASSUME NEW i \in Instances, NEW m \in Modes, work[i][m].run = r, StreamSettle(i, m)
      PROVE  Loop(r)!Next
  <2> DEFINE n == work[i][m].base + 1
  <2>1. work[i][m].pc = "settle" /\ Settle(r, n) /\ UNCHANGED conv
    BY <1>6 DEF StreamSettle, At
  <2>2. ~IsTerminal(r) /\ Phase(run[r].state) = "working" /\ n \in Iters
    BY <1>6, <2>1, LoopWorker, BoundsAssumption DEF Iters
  <2>3. api[r][n] \in {"tools", "text"}
    BY <1>0, <1>6, <2>1 DEF Assigned, WorkersAssigned
  <2>4. Says(r, api[r][n], n) /\ run[r].cur = n
    BY <1>6, <2>1 DEF LoopInv, TalkInv, Talks, WorkerTalks, Current
  <2> HIDE DEF n
  <2>5. Loop(r)!Settle
    BY <2>1, <2>2, <2>3, <2>4, LoopSettles
  <2> QED
    BY <2>5 DEF Loop!Next
<1>7. ASSUME NEW i \in Instances, NEW m \in Modes, work[i][m].run = r, FailRun(i, m)
      PROVE  Loop(r)!Next
  <2>1. work[i][m].pc = "fail" /\ Write(r, FailedRow(r)) /\ UNCHANGED conv
    BY <1>7 DEF FailRun, At
  <2>2. run[r].state \in InFlight
    BY <1>7, <2>1, LoopWorker DEF ClaimedState, InFlight
  <2>3. Loop(r)!Fail
    BY <2>1, <2>2, LoopFails
  <2> QED
    BY <2>3 DEF Loop!Next
<1>8. ASSUME NEW i \in Instances, poll[i].run = r, MarkProcessing(i) PROVE UNCHANGED Loop(r)!vars
  <2>1. poll[i].pc = "mark" /\ up[i] /\ Write(r, [run[r] EXCEPT !.state = "batch_processing"])
    BY <1>8 DEF MarkProcessing, Polls
  <2>2. run'[r].state = "batch_processing"
    BY <1>0, <1>1, <2>1 DEF Row
  <2>3. Phase(run'[r].state) = "working" /\ Phase(run[r].state) = "working"
    BY <1>8, <2>1, <2>2, LoopPoller, Phases DEF InFlight
  <2> QED
    BY <2>3 DEF Loop!vars
<1>9. ASSUME NEW i \in Instances, poll[i].run = r, PollSettle(i) PROVE Loop(r)!Next
  <2> DEFINE n == poll[i].iter
  <2>1. poll[i].pc = "settle" /\ up[i] /\ Settle(r, n) /\ UNCHANGED conv
    BY <1>9 DEF PollSettle, Polls
  <2>2. ~IsTerminal(r) /\ Phase(run[r].state) = "working" /\ n \in Iters /\ run[r].cur = n
    BY <1>9, <2>1, LoopPoller
  <2>3. api[r][n] \in {"tools", "text"}
    BY <1>0, <1>9, <2>1 DEF Assigned, PollersAssigned
  <2>4. Says(r, api[r][n], n)
    BY <1>9, <2>1 DEF LoopInv, TalkInv, Talks, PollerTalks
  <2> HIDE DEF n
  <2>5. Loop(r)!Settle
    BY <2>1, <2>2, <2>3, <2>4, LoopSettles
  <2> QED
    BY <2>5 DEF Loop!Next
<1>10. ASSUME NEW i \in Instances, poll[i].run = r, PollFail(i) PROVE Loop(r)!Next
  <2>1. poll[i].pc = "fail" /\ up[i] /\ Write(r, FailedRow(r)) /\ UNCHANGED conv
    BY <1>10 DEF PollFail, Polls
  <2>2. run[r].state \in InFlight
    BY <1>10, <2>1, LoopPoller DEF Batching, InFlight
  <2>3. Loop(r)!Fail
    BY <2>1, <2>2, LoopFails
  <2> QED
    BY <2>3 DEF Loop!Next
<1>11. ASSUME NEW i \in Instances, DeleteInstance(i), run[r].claimed = i, ~IsTerminal(r)
       PROVE  Loop(r)!Next
  <2>1. run'[r] = FailedRow(r) /\ UNCHANGED conv
    BY <1>11 DEF DeleteInstance
  <2>2. run[r].state \notin {"absent", "pending"}
    BY <1>11, NoneAssumption DEF LoopInv, Unowned
  <2>3. run[r].state \in InFlight
    BY <1>0, <1>11, <2>2 DEF IsTerminal, Row, RunStates
  <2>4. Loop(r)!Fail
    BY <2>1, <2>3, LoopFails
  <2> QED
    BY <2>4 DEF Loop!Next
<1>12. Mover(r)
  BY <1>0, StateSteps
<1>13. ASSUME NEW i \in Instances, NEW m \in Modes, work[i][m].run = r,
              (m = "batch" /\ AdvanceRun(i, m)) \/ (m = "streaming" /\ StreamSettle(i, m)) \/ FailRun(i, m)
       PROVE  Loop(r)!Next
  BY <1>5, <1>6, <1>7, <1>13
<1>14. ASSUME NEW i \in Instances, poll[i].run = r, MarkProcessing(i) \/ PollSettle(i) \/ PollFail(i)
       PROVE  Loop(r)!Next \/ UNCHANGED Loop(r)!vars
  BY <1>8, <1>9, <1>10, <1>14
<1> QED
  BY <1>2, <1>3, <1>4, <1>11, <1>12, <1>13, <1>14 DEF Mover

\* Every step of the instances is a step of the loop of each run, or none.
LEMMA LoopStep ==
    ASSUME LoopInv, [Next]_vars, LoopKept, NEW r \in Runs
    PROVE  [Loop(r)!Next]_(Loop(r)!vars)
<1>1. CASE UNCHANGED vars
  BY <1>1 DEF vars, Loop!vars
<1>2. ASSUME Next, run'[r].cur # run[r].cur PROVE Loop(r)!Next
  BY <1>2, LoopBegins DEF Loop!Next
<1>3. ASSUME Next, conv'[r] # conv[r] PROVE Loop(r)!Next
  BY <1>3, LoopSpeaks DEF Loop!Next
<1>4. ASSUME Next, run'[r].cur = run[r].cur, conv'[r] = conv[r], run'[r].state # run[r].state
      PROVE  Loop(r)!Next \/ UNCHANGED Loop(r)!vars
  BY <1>4, LoopMoves
<1>5. ASSUME run'[r].cur = run[r].cur, conv'[r] = conv[r], run'[r].state = run[r].state
      PROVE  UNCHANGED Loop(r)!vars
  BY <1>5 DEF Loop!vars
<1> QED
  BY <1>1, <1>2, <1>3, <1>4, <1>5

LEMMA LoopInit ==
    ASSUME Init, NEW r \in Runs
    PROVE  Loop(r)!Init
  BY Phases DEF Init, Loop!Init

\* Whatever the instances do at the same time and wherever they stop, each run goes
\* through the agent loop as if one process did it alone: RunLifecycle implements
\* AgentLoop once per run, where runs are not rescued, no statement fails half way, only
\* dead instances lose their row, and a handler that has read a turn stores its results
\* before the model has answered the next one.
THEOREM AgentLoopImplemented ==
    ASSUME LoopKept
    PROVE  Spec => ImplementsLoop
<1>1. Init => \A r \in Runs : Loop(r)!Init
  BY LoopInit
<1>2. LoopInv /\ [Next]_vars => [\A r \in Runs : [Loop(r)!Next]_(Loop(r)!vars)]_vars
  BY LoopStep
<1> QED
  BY <1>1, <1>2, LoopInvHolds, PTL DEF Spec, ImplementsLoop

\* The same as a behaviour of AgentLoop, run by run, under the same hypotheses.
THEOREM EachRunLoops ==
    ASSUME LoopKept, NEW r \in Runs
    PROVE  Spec => Loop(r)!Spec
<1>1. Init => Loop(r)!Init
  BY LoopInit
<1>2. LoopInv /\ [Next]_vars => [Loop(r)!Next]_(Loop(r)!vars)
  BY LoopStep
<1> QED
  BY <1>1, <1>2, LoopInvHolds, PTL DEF Spec, Loop!Spec
=============================================================================
