--------------------------- MODULE Cluster_proofs ---------------------------
(***************************************************************************)
(* Proofs about RunWaiters, for any number of callers and of runs and any  *)
(* loss of notifications: who waits will be told, and is told the truth.   *)
(* With what Membership_proofs says of the instances they hold of the two  *)
(* side by side: what is checked of the composition is true of its parts.  *)
(***************************************************************************)
EXTENDS MCCluster, Membership_proofs

-----------------------------------------------------------------------------
(* The inductive invariant.                                                *)

\* A run is announced after it has ended, and read after that.
AnnouncedEnded ==
    /\ \A r \in inbox : rowState[r] # "live"
    /\ handler.run = Nothing => ~handler.taken /\ handler.tell = {}
    /\ handler.run # Nothing =>
          /\ rowState[handler.run] # "live" /\ handler.read # "live"
          /\ rowState[handler.run] \in {handler.read, "deleted"}
    /\ \A w \in handler.tell : wants[w] = handler.run

\* A channel holds what the run has come to, unless it was deleted since.
ChannelTrue ==
    \A w \in Waiters : chan[w] # Nothing =>
        /\ rowState[wants[w]] # "live" /\ chan[w] # "live"
        /\ rowState[wants[w]] \in {chan[w], "deleted"}

\* Until its run has ended a caller is in the table; after that it is still there when
\* the notification comes to be handled, or its wake-up has gone out.
InTable ==
    \A w \in Waiters : LET r == wants[w] IN
        /\ stage[w] \in {"registered", "waiting"} /\ rowState[r] = "live" => w \in table[r]
        /\ stage[w] = "waiting" /\ rowState[r] \in FinalStates =>
              \/ r \in missed
              \/ r \in inbox /\ w \in table[r]
              \/ handler.run = r /\ (~handler.taken => w \in table[r])
                                 /\ (handler.taken => w \in handler.tell \/ chan[w] # Nothing)
              \/ chan[w] # Nothing

WaiterInv ==
    WaiterTypeOK /\ AnnouncedEnded /\ ChannelTrue /\ InTable /\ NoWaiterLeaks /\ AnswerIsTrue

-----------------------------------------------------------------------------
(* One lemma for each part.                                                *)

\* Every step keeps the types.
LEMMA WaiterTypeStep == WaiterTypeOK /\ [WaiterNext]_waiterVars => WaiterTypeOK'
<1> SUFFICES ASSUME WaiterTypeOK, [WaiterNext]_waiterVars PROVE WaiterTypeOK'
  OBVIOUS
<1> USE NothingAssumption DEF callVars, RowStates, FinalStates, Idle
<1>1. CASE UNCHANGED waiterVars
  BY <1>1 DEF WaiterTypeOK, Stages, Outcomes, waiterVars
<1>2. CASE LineBreaks
  BY <1>2 DEF WaiterTypeOK, Stages, Outcomes, LineBreaks
<1>3. CASE LineReconnects
  BY <1>3 DEF WaiterTypeOK, Stages, Outcomes, LineReconnects
<1>4. CASE EndNotify
  BY <1>4 DEF WaiterTypeOK, Stages, Outcomes, EndNotify
<1>5. ASSUME NEW r \in AwaitedRuns, Finalize(r) PROVE WaiterTypeOK'
  BY <1>5 DEF WaiterTypeOK, Stages, Outcomes, Finalize
<1>6. ASSUME NEW r \in AwaitedRuns, DeleteRun(r) PROVE WaiterTypeOK'
  BY <1>6 DEF WaiterTypeOK, Stages, Outcomes, DeleteRun
<1>7. ASSUME NEW r \in AwaitedRuns, DropFinalized(r) PROVE WaiterTypeOK'
  BY <1>7 DEF WaiterTypeOK, Stages, Outcomes, DropFinalized
<1>8. ASSUME NEW r \in AwaitedRuns, HandleFinalized(r) PROVE WaiterTypeOK'
  BY <1>8 DEF WaiterTypeOK, Stages, Outcomes, HandleFinalized
<1>9. ASSUME NEW r \in AwaitedRuns, TakeWaiters(r) PROVE WaiterTypeOK'
  BY <1>9 DEF WaiterTypeOK, Stages, Outcomes, TakeWaiters
<1>10. ASSUME NEW w \in Waiters, RegisterWaiter(w) PROVE WaiterTypeOK'
  BY <1>10 DEF WaiterTypeOK, Stages, Outcomes, RegisterWaiter
<1>11. ASSUME NEW w \in Waiters, ReadAwaited(w) PROVE WaiterTypeOK'
  BY <1>11 DEF WaiterTypeOK, Stages, Outcomes, ReadAwaited, Return, Built
<1>12. ASSUME NEW w \in Waiters, ReadFails(w) PROVE WaiterTypeOK'
  BY <1>12 DEF WaiterTypeOK, Stages, Outcomes, ReadFails, Return
<1>13. ASSUME NEW w \in Waiters, Tell(w) PROVE WaiterTypeOK'
  BY <1>13 DEF WaiterTypeOK, Stages, Outcomes, Tell
<1>14. ASSUME NEW w \in Waiters, Receive(w) PROVE WaiterTypeOK'
  BY <1>14 DEF WaiterTypeOK, Stages, Outcomes, Receive, Return, Built
<1>15. ASSUME NEW w \in Waiters, TimeOut(w) PROVE WaiterTypeOK'
  BY <1>15 DEF WaiterTypeOK, Stages, Outcomes, TimeOut, Return
<1> QED
  BY <1>1, <1>2, <1>3, <1>4, <1>5, <1>6, <1>7, <1>8, <1>9, <1>10, <1>11, <1>12, <1>13, <1>14, <1>15 DEF WaiterNext

\* Every step keeps the announcements true.
LEMMA AnnouncedStep == WaiterTypeOK /\ AnnouncedEnded /\ NoWaiterLeaks /\ [WaiterNext]_waiterVars => AnnouncedEnded'
<1> SUFFICES ASSUME WaiterTypeOK /\ AnnouncedEnded /\ NoWaiterLeaks, [WaiterNext]_waiterVars PROVE AnnouncedEnded'
  OBVIOUS
<1> USE NothingAssumption DEF callVars, RowStates, FinalStates, Idle
<1>1. CASE UNCHANGED waiterVars
  BY <1>1 DEF WaiterTypeOK, AnnouncedEnded, NoWaiterLeaks, waiterVars
<1>2. CASE LineBreaks
  BY <1>2 DEF WaiterTypeOK, AnnouncedEnded, NoWaiterLeaks, LineBreaks
<1>3. CASE LineReconnects
  BY <1>3 DEF WaiterTypeOK, AnnouncedEnded, NoWaiterLeaks, LineReconnects
<1>4. CASE EndNotify
  BY <1>4 DEF WaiterTypeOK, AnnouncedEnded, NoWaiterLeaks, EndNotify
<1>5. ASSUME NEW r \in AwaitedRuns, Finalize(r) PROVE AnnouncedEnded'
  BY <1>5 DEF WaiterTypeOK, AnnouncedEnded, NoWaiterLeaks, Finalize
<1>6. ASSUME NEW r \in AwaitedRuns, DeleteRun(r) PROVE AnnouncedEnded'
  BY <1>6 DEF WaiterTypeOK, AnnouncedEnded, NoWaiterLeaks, DeleteRun
<1>7. ASSUME NEW r \in AwaitedRuns, DropFinalized(r) PROVE AnnouncedEnded'
  BY <1>7 DEF WaiterTypeOK, AnnouncedEnded, NoWaiterLeaks, DropFinalized
<1>8. ASSUME NEW r \in AwaitedRuns, HandleFinalized(r) PROVE AnnouncedEnded'
  BY <1>8 DEF WaiterTypeOK, AnnouncedEnded, NoWaiterLeaks, HandleFinalized
<1>9. ASSUME NEW r \in AwaitedRuns, TakeWaiters(r) PROVE AnnouncedEnded'
  BY <1>9 DEF WaiterTypeOK, AnnouncedEnded, NoWaiterLeaks, TakeWaiters
<1>10. ASSUME NEW w \in Waiters, RegisterWaiter(w) PROVE AnnouncedEnded'
  BY <1>10 DEF WaiterTypeOK, AnnouncedEnded, NoWaiterLeaks, RegisterWaiter
<1>11. ASSUME NEW w \in Waiters, ReadAwaited(w) PROVE AnnouncedEnded'
  BY <1>11 DEF WaiterTypeOK, AnnouncedEnded, NoWaiterLeaks, ReadAwaited, Return, Built
<1>12. ASSUME NEW w \in Waiters, ReadFails(w) PROVE AnnouncedEnded'
  BY <1>12 DEF WaiterTypeOK, AnnouncedEnded, NoWaiterLeaks, ReadFails, Return
<1>13. ASSUME NEW w \in Waiters, Tell(w) PROVE AnnouncedEnded'
  BY <1>13 DEF WaiterTypeOK, AnnouncedEnded, NoWaiterLeaks, Tell
<1>14. ASSUME NEW w \in Waiters, Receive(w) PROVE AnnouncedEnded'
  BY <1>14 DEF WaiterTypeOK, AnnouncedEnded, NoWaiterLeaks, Receive, Return, Built
<1>15. ASSUME NEW w \in Waiters, TimeOut(w) PROVE AnnouncedEnded'
  BY <1>15 DEF WaiterTypeOK, AnnouncedEnded, NoWaiterLeaks, TimeOut, Return
<1> QED
  BY <1>1, <1>2, <1>3, <1>4, <1>5, <1>6, <1>7, <1>8, <1>9, <1>10, <1>11, <1>12, <1>13, <1>14, <1>15 DEF WaiterNext

\* Every step keeps the channels true.
LEMMA ChannelStep == WaiterTypeOK /\ AnnouncedEnded /\ ChannelTrue /\ [WaiterNext]_waiterVars => ChannelTrue'
<1> SUFFICES ASSUME WaiterTypeOK /\ AnnouncedEnded /\ ChannelTrue, [WaiterNext]_waiterVars PROVE ChannelTrue'
  OBVIOUS
<1> USE NothingAssumption DEF callVars, RowStates, FinalStates, Idle
<1>1. CASE UNCHANGED waiterVars
  BY <1>1 DEF WaiterTypeOK, AnnouncedEnded, ChannelTrue, waiterVars
<1>2. CASE LineBreaks
  BY <1>2 DEF WaiterTypeOK, AnnouncedEnded, ChannelTrue, LineBreaks
<1>3. CASE LineReconnects
  BY <1>3 DEF WaiterTypeOK, AnnouncedEnded, ChannelTrue, LineReconnects
<1>4. CASE EndNotify
  BY <1>4 DEF WaiterTypeOK, AnnouncedEnded, ChannelTrue, EndNotify
<1>5. ASSUME NEW r \in AwaitedRuns, Finalize(r) PROVE ChannelTrue'
  BY <1>5 DEF WaiterTypeOK, AnnouncedEnded, ChannelTrue, Finalize
<1>6. ASSUME NEW r \in AwaitedRuns, DeleteRun(r) PROVE ChannelTrue'
  BY <1>6 DEF WaiterTypeOK, AnnouncedEnded, ChannelTrue, DeleteRun
<1>7. ASSUME NEW r \in AwaitedRuns, DropFinalized(r) PROVE ChannelTrue'
  BY <1>7 DEF WaiterTypeOK, AnnouncedEnded, ChannelTrue, DropFinalized
<1>8. ASSUME NEW r \in AwaitedRuns, HandleFinalized(r) PROVE ChannelTrue'
  BY <1>8 DEF WaiterTypeOK, AnnouncedEnded, ChannelTrue, HandleFinalized
<1>9. ASSUME NEW r \in AwaitedRuns, TakeWaiters(r) PROVE ChannelTrue'
  BY <1>9 DEF WaiterTypeOK, AnnouncedEnded, ChannelTrue, TakeWaiters
<1>10. ASSUME NEW w \in Waiters, RegisterWaiter(w) PROVE ChannelTrue'
  BY <1>10 DEF WaiterTypeOK, AnnouncedEnded, ChannelTrue, RegisterWaiter
<1>11. ASSUME NEW w \in Waiters, ReadAwaited(w) PROVE ChannelTrue'
  BY <1>11 DEF WaiterTypeOK, AnnouncedEnded, ChannelTrue, ReadAwaited, Return, Built
<1>12. ASSUME NEW w \in Waiters, ReadFails(w) PROVE ChannelTrue'
  BY <1>12 DEF WaiterTypeOK, AnnouncedEnded, ChannelTrue, ReadFails, Return
<1>13. ASSUME NEW w \in Waiters, Tell(w) PROVE ChannelTrue'
  BY <1>13 DEF WaiterTypeOK, AnnouncedEnded, ChannelTrue, Tell
<1>14. ASSUME NEW w \in Waiters, Receive(w) PROVE ChannelTrue'
  BY <1>14 DEF WaiterTypeOK, AnnouncedEnded, ChannelTrue, Receive, Return, Built
<1>15. ASSUME NEW w \in Waiters, TimeOut(w) PROVE ChannelTrue'
  BY <1>15 DEF WaiterTypeOK, AnnouncedEnded, ChannelTrue, TimeOut, Return
<1> QED
  BY <1>1, <1>2, <1>3, <1>4, <1>5, <1>6, <1>7, <1>8, <1>9, <1>10, <1>11, <1>12, <1>13, <1>14, <1>15 DEF WaiterNext

\* Every step keeps the wake-ups coming.
LEMMA InTableStep == WaiterTypeOK /\ AnnouncedEnded /\ ChannelTrue /\ InTable /\ [WaiterNext]_waiterVars => InTable'
<1> SUFFICES ASSUME WaiterTypeOK /\ AnnouncedEnded /\ ChannelTrue /\ InTable, [WaiterNext]_waiterVars PROVE InTable'
  OBVIOUS
<1> USE NothingAssumption DEF callVars, RowStates, FinalStates, Idle
<1>1. CASE UNCHANGED waiterVars
  BY <1>1 DEF WaiterTypeOK, AnnouncedEnded, InTable, waiterVars
<1>2. CASE LineBreaks
  BY <1>2 DEF WaiterTypeOK, AnnouncedEnded, InTable, LineBreaks
<1>3. CASE LineReconnects
  BY <1>3 DEF WaiterTypeOK, AnnouncedEnded, InTable, LineReconnects
<1>4. CASE EndNotify
  BY <1>4 DEF WaiterTypeOK, AnnouncedEnded, InTable, EndNotify
<1>5. ASSUME NEW r \in AwaitedRuns, Finalize(r) PROVE InTable'
  BY <1>5 DEF WaiterTypeOK, AnnouncedEnded, InTable, Finalize
<1>6. ASSUME NEW r \in AwaitedRuns, DeleteRun(r) PROVE InTable'
  BY <1>6 DEF WaiterTypeOK, AnnouncedEnded, InTable, DeleteRun
<1>7. ASSUME NEW r \in AwaitedRuns, DropFinalized(r) PROVE InTable'
  BY <1>7 DEF WaiterTypeOK, AnnouncedEnded, InTable, DropFinalized
<1>8. ASSUME NEW r \in AwaitedRuns, HandleFinalized(r) PROVE InTable'
  BY <1>8 DEF WaiterTypeOK, AnnouncedEnded, InTable, HandleFinalized
<1>9. ASSUME NEW r \in AwaitedRuns, TakeWaiters(r) PROVE InTable'
  BY <1>9 DEF WaiterTypeOK, AnnouncedEnded, InTable, TakeWaiters
<1>10. ASSUME NEW w \in Waiters, RegisterWaiter(w) PROVE InTable'
  BY <1>10 DEF WaiterTypeOK, AnnouncedEnded, InTable, RegisterWaiter
<1>11. ASSUME NEW w \in Waiters, ReadAwaited(w) PROVE InTable'
  BY <1>11 DEF WaiterTypeOK, AnnouncedEnded, InTable, ReadAwaited, Return, Built
<1>12. ASSUME NEW w \in Waiters, ReadFails(w) PROVE InTable'
  BY <1>12 DEF WaiterTypeOK, AnnouncedEnded, InTable, ReadFails, Return
<1>13. ASSUME NEW w \in Waiters, Tell(w) PROVE InTable'
  BY <1>13 DEF WaiterTypeOK, AnnouncedEnded, InTable, Tell
<1>14. ASSUME NEW w \in Waiters, Receive(w) PROVE InTable'
  BY <1>14 DEF WaiterTypeOK, AnnouncedEnded, InTable, Receive, Return, Built
<1>15. ASSUME NEW w \in Waiters, TimeOut(w) PROVE InTable'
  BY <1>15 DEF WaiterTypeOK, AnnouncedEnded, InTable, TimeOut, Return
<1> QED
  BY <1>1, <1>2, <1>3, <1>4, <1>5, <1>6, <1>7, <1>8, <1>9, <1>10, <1>11, <1>12, <1>13, <1>14, <1>15 DEF WaiterNext

\* Every step keeps the table without returned callers.
LEMMA LeakStep == WaiterTypeOK /\ NoWaiterLeaks /\ [WaiterNext]_waiterVars => NoWaiterLeaks'
<1> SUFFICES ASSUME WaiterTypeOK /\ NoWaiterLeaks, [WaiterNext]_waiterVars PROVE NoWaiterLeaks'
  OBVIOUS
<1> USE NothingAssumption DEF callVars, RowStates, FinalStates, Idle
<1>1. CASE UNCHANGED waiterVars
  BY <1>1 DEF WaiterTypeOK, NoWaiterLeaks, Stages, waiterVars
<1>2. CASE LineBreaks
  BY <1>2 DEF WaiterTypeOK, NoWaiterLeaks, Stages, LineBreaks
<1>3. CASE LineReconnects
  BY <1>3 DEF WaiterTypeOK, NoWaiterLeaks, Stages, LineReconnects
<1>4. CASE EndNotify
  BY <1>4 DEF WaiterTypeOK, NoWaiterLeaks, Stages, EndNotify
<1>5. ASSUME NEW r \in AwaitedRuns, Finalize(r) PROVE NoWaiterLeaks'
  BY <1>5 DEF WaiterTypeOK, NoWaiterLeaks, Stages, Finalize
<1>6. ASSUME NEW r \in AwaitedRuns, DeleteRun(r) PROVE NoWaiterLeaks'
  BY <1>6 DEF WaiterTypeOK, NoWaiterLeaks, Stages, DeleteRun
<1>7. ASSUME NEW r \in AwaitedRuns, DropFinalized(r) PROVE NoWaiterLeaks'
  BY <1>7 DEF WaiterTypeOK, NoWaiterLeaks, Stages, DropFinalized
<1>8. ASSUME NEW r \in AwaitedRuns, HandleFinalized(r) PROVE NoWaiterLeaks'
  BY <1>8 DEF WaiterTypeOK, NoWaiterLeaks, Stages, HandleFinalized
<1>9. ASSUME NEW r \in AwaitedRuns, TakeWaiters(r) PROVE NoWaiterLeaks'
  BY <1>9 DEF WaiterTypeOK, NoWaiterLeaks, Stages, TakeWaiters
<1>10. ASSUME NEW w \in Waiters, RegisterWaiter(w) PROVE NoWaiterLeaks'
  BY <1>10 DEF WaiterTypeOK, NoWaiterLeaks, Stages, RegisterWaiter
<1>11. ASSUME NEW w \in Waiters, ReadAwaited(w) PROVE NoWaiterLeaks'
  BY <1>11 DEF WaiterTypeOK, NoWaiterLeaks, Stages, ReadAwaited, Return, Built
<1>12. ASSUME NEW w \in Waiters, ReadFails(w) PROVE NoWaiterLeaks'
  BY <1>12 DEF WaiterTypeOK, NoWaiterLeaks, Stages, ReadFails, Return
<1>13. ASSUME NEW w \in Waiters, Tell(w) PROVE NoWaiterLeaks'
  BY <1>13 DEF WaiterTypeOK, NoWaiterLeaks, Stages, Tell
<1>14. ASSUME NEW w \in Waiters, Receive(w) PROVE NoWaiterLeaks'
  BY <1>14 DEF WaiterTypeOK, NoWaiterLeaks, Stages, Receive, Return, Built
<1>15. ASSUME NEW w \in Waiters, TimeOut(w) PROVE NoWaiterLeaks'
  BY <1>15 DEF WaiterTypeOK, NoWaiterLeaks, Stages, TimeOut, Return
<1> QED
  BY <1>1, <1>2, <1>3, <1>4, <1>5, <1>6, <1>7, <1>8, <1>9, <1>10, <1>11, <1>12, <1>13, <1>14, <1>15 DEF WaiterNext

\* Every step keeps the answers true.
LEMMA AnswerStep == WaiterTypeOK /\ ChannelTrue /\ AnswerIsTrue /\ [WaiterNext]_waiterVars => AnswerIsTrue'
<1> SUFFICES ASSUME WaiterTypeOK /\ ChannelTrue /\ AnswerIsTrue, [WaiterNext]_waiterVars PROVE AnswerIsTrue'
  OBVIOUS
<1> USE NothingAssumption DEF callVars, RowStates, FinalStates, Idle
<1>1. CASE UNCHANGED waiterVars
  BY <1>1 DEF WaiterTypeOK, ChannelTrue, AnswerIsTrue, Outcomes, waiterVars
<1>2. CASE LineBreaks
  BY <1>2 DEF WaiterTypeOK, ChannelTrue, AnswerIsTrue, Outcomes, LineBreaks
<1>3. CASE LineReconnects
  BY <1>3 DEF WaiterTypeOK, ChannelTrue, AnswerIsTrue, Outcomes, LineReconnects
<1>4. CASE EndNotify
  BY <1>4 DEF WaiterTypeOK, ChannelTrue, AnswerIsTrue, Outcomes, EndNotify
<1>5. ASSUME NEW r \in AwaitedRuns, Finalize(r) PROVE AnswerIsTrue'
  BY <1>5 DEF WaiterTypeOK, ChannelTrue, AnswerIsTrue, Outcomes, Finalize
<1>6. ASSUME NEW r \in AwaitedRuns, DeleteRun(r) PROVE AnswerIsTrue'
  BY <1>6 DEF WaiterTypeOK, ChannelTrue, AnswerIsTrue, Outcomes, DeleteRun
<1>7. ASSUME NEW r \in AwaitedRuns, DropFinalized(r) PROVE AnswerIsTrue'
  BY <1>7 DEF WaiterTypeOK, ChannelTrue, AnswerIsTrue, Outcomes, DropFinalized
<1>8. ASSUME NEW r \in AwaitedRuns, HandleFinalized(r) PROVE AnswerIsTrue'
  BY <1>8 DEF WaiterTypeOK, ChannelTrue, AnswerIsTrue, Outcomes, HandleFinalized
<1>9. ASSUME NEW r \in AwaitedRuns, TakeWaiters(r) PROVE AnswerIsTrue'
  BY <1>9 DEF WaiterTypeOK, ChannelTrue, AnswerIsTrue, Outcomes, TakeWaiters
<1>10. ASSUME NEW w \in Waiters, RegisterWaiter(w) PROVE AnswerIsTrue'
  BY <1>10 DEF WaiterTypeOK, ChannelTrue, AnswerIsTrue, Outcomes, RegisterWaiter
<1>11. ASSUME NEW w \in Waiters, ReadAwaited(w) PROVE AnswerIsTrue'
  BY <1>11 DEF WaiterTypeOK, ChannelTrue, AnswerIsTrue, Outcomes, ReadAwaited, Return, Built
<1>12. ASSUME NEW w \in Waiters, ReadFails(w) PROVE AnswerIsTrue'
  BY <1>12 DEF WaiterTypeOK, ChannelTrue, AnswerIsTrue, Outcomes, ReadFails, Return
<1>13. ASSUME NEW w \in Waiters, Tell(w) PROVE AnswerIsTrue'
  BY <1>13 DEF WaiterTypeOK, ChannelTrue, AnswerIsTrue, Outcomes, Tell
<1>14. ASSUME NEW w \in Waiters, Receive(w) PROVE AnswerIsTrue'
  BY <1>14 DEF WaiterTypeOK, ChannelTrue, AnswerIsTrue, Outcomes, Receive, Return, Built
<1>15. ASSUME NEW w \in Waiters, TimeOut(w) PROVE AnswerIsTrue'
  BY <1>15 DEF WaiterTypeOK, ChannelTrue, AnswerIsTrue, Outcomes, TimeOut, Return
<1> QED
  BY <1>1, <1>2, <1>3, <1>4, <1>5, <1>6, <1>7, <1>8, <1>9, <1>10, <1>11, <1>12, <1>13, <1>14, <1>15 DEF WaiterNext

-----------------------------------------------------------------------------
(* Theorems about who waits.                                               *)

\* The inductive invariant holds however callers, notifications, connections and
\* deletions interleave (client.go:554-647, 1011-1136).
THEOREM WaiterInvHolds == WaiterSpec => []WaiterInv
<1>1. WaiterInit => WaiterInv
  BY NothingAssumption
     DEF WaiterInit, WaiterInv, WaiterTypeOK, AnnouncedEnded, ChannelTrue, InTable, NoWaiterLeaks,
         AnswerIsTrue, RowStates, FinalStates, Stages, Outcomes, Idle
<1>2. WaiterInv /\ [WaiterNext]_waiterVars => WaiterInv'
  BY WaiterTypeStep, AnnouncedStep, ChannelStep, InTableStep, LeakStep, AnswerStep DEF WaiterInv
<1> QED
  BY <1>1, <1>2, PTL DEF WaiterSpec

\* A caller whose run has ended has its wake-up on the way unless a notification was
\* lost: its channel was in the table before its first read (client.go:558-578).
THEOREM WakeUpsComing == WaiterSpec => []WakeUpOnItsWay
<1>1. WaiterInv => WakeUpOnItsWay
  BY DEF WaiterInv, InTable, WakeUpOnItsWay
<1> QED
  BY <1>1, WaiterInvHolds, PTL

\* What WaitForRun returned is true of the run, whoever answered first.
THEOREM AnswersTrue == WaiterSpec => []AnswerIsTrue
<1>1. WaiterInv => AnswerIsTrue
  BY DEF WaiterInv
<1> QED
  BY <1>1, WaiterInvHolds, PTL

\* A call that has returned is in no list of the table (client.go:562-575).
THEOREM NoneLeaks == WaiterSpec => []NoWaiterLeaks
<1>1. WaiterInv => NoWaiterLeaks
  BY DEF WaiterInv
<1> QED
  BY <1>1, WaiterInvHolds, PTL

\* Type correctness of the rows, the table, the handler and the calls.
THEOREM WaiterTypeCorrect == WaiterSpec => []WaiterTypeOK
<1>1. WaiterInv => WaiterTypeOK
  BY DEF WaiterInv
<1> QED
  BY <1>1, WaiterInvHolds, PTL

-----------------------------------------------------------------------------
(* The instances and who waits, side by side.                              *)

\* The composition adds no behaviour to the instances (client.go:302-1009): what it does
\* is a behaviour of Membership, so what is proved of that is true here.
THEOREM ClusterHasMembers == ClusterSpec => MemberSpec
<1>1. ClusterInit => MemberInit
  BY DEF ClusterInit
<1>2. [ClusterNext]_clusterVars => [MemberNext]_memberVars
  BY DEF ClusterNext, clusterVars
<1> QED
  BY <1>1, <1>2, PTL DEF ClusterSpec, MemberSpec

\* Nor does it to the callers of WaitForRun (client.go:554-647).
THEOREM ClusterHasWaiters == ClusterSpec => WaiterSpec
<1>1. ClusterInit => WaiterInit
  BY DEF ClusterInit
<1>2. [ClusterNext]_clusterVars => [WaiterNext]_waiterVars
  BY DEF ClusterNext, clusterVars
<1> QED
  BY <1>1, <1>2, PTL DEF ClusterSpec, WaiterSpec

\* Type correctness of the composition.
THEOREM ClusterTypeCorrect == ClusterSpec => []ClusterTypeOK
<1>1. MemberTypeOK /\ WaiterTypeOK => ClusterTypeOK
  BY DEF ClusterTypeOK
<1> QED
  BY <1>1, ClusterHasMembers, ClusterHasWaiters, MemberTypeCorrect, WaiterTypeCorrect, PTL

\* All that is checked of the composition's states, for every value of its constants.
THEOREM ClusterIsSafe ==
    ClusterSpec => [](/\ OneLeader /\ OneSweeper /\ MembersCanWork
                      /\ WakeUpOnItsWay /\ AnswerIsTrue /\ NoWaiterLeaks)
  BY ClusterHasMembers, ClusterHasWaiters, LeadersApart, SweepersApart, RegisteredCanWork,
     WakeUpsComing, AnswersTrue, NoneLeaks, PTL
=============================================================================
