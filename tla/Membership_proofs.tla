-------------------------- MODULE Membership_proofs --------------------------
(***************************************************************************)
(* Proofs about Membership, for any number of instances, any TTLs and any  *)
(* faults: leases told of do not overlap, and who runs can work.           *)
(***************************************************************************)
EXTENDS Membership, TLAPS

-----------------------------------------------------------------------------
(* The inductive invariant.                                                *)

\* An instance trusts its lease no longer than the row does.
TrustInv ==
    \A i \in Members : trust[i] > 0 => lease.holder = i /\ lease.left >= trust[i]

\* Only an instance with loops sweeps; while it runs, what it was shown of its lease
\* is still true.  Stop releases the lease under a sweep that goes on.
SweepInv ==
    \A i \in sweep :
        /\ life[i] \in {"up", "stopping", "released"}
        /\ life[i] = "up" /\ seen[i] > 0 => lease.holder = i /\ lease.left >= seen[i]

MemberInv == MemberTypeOK /\ TrustInv /\ SweepInv /\ MembersCanWork

-----------------------------------------------------------------------------
(* One lemma for each part.                                                *)

\* A deletion of rows keeps the types of what it changes.
LEMMA UnregisterTypes ==
    ASSUME MemberTypeOK, NEW gone, Unregister(gone)
    PROVE  beat' \in [Members -> 0 .. NoRow] /\ toolKnown' \in BOOLEAN /\ capable' \subseteq Members
<1>1. beat' \in [Members -> 0 .. NoRow] /\ capable' \subseteq Members
  BY ConfigAssumption DEF validate, MemberTypeOK, Unregister, NoRow
<1>2. toolKnown' \in BOOLEAN
  <2>1. CASE gone \cap capable # {}
    BY <2>1, Zenon DEF Unregister
  <2>2. CASE ~(gone \cap capable # {})
    BY <2>2, Zenon DEF Unregister, MemberTypeOK
  <2> QED
    BY <2>1, <2>2
<1> QED
  BY <1>1, <1>2

\* A deletion of rows leaves only instances that can work.
LEMMA UnregisterWork ==
    ASSUME MemberTypeOK, MembersCanWork, NEW gone, Unregister(gone),
           \A i \in Members : life'[i] = "up" => life[i] = "up"
    PROVE  MembersCanWork'
  BY DEF MemberTypeOK, MembersCanWork, Running, Registered, Unregister, NoRow

\* Every step keeps the types.
LEMMA MemberTypeStep == MemberTypeOK /\ [MemberNext]_memberVars => MemberTypeOK'
<1> SUFFICES ASSUME MemberTypeOK, [MemberNext]_memberVars PROVE MemberTypeOK'
  OBVIOUS
<1> USE ConfigAssumption, MembersAssumption DEF loopVars, validate
<1>1. CASE UNCHANGED memberVars
  BY <1>1 DEF MemberTypeOK, Lives, NoRow, memberVars
<1>2. CASE Tick
  BY <1>2 DEF MemberTypeOK, Lives, NoRow, Tick, Less, NoRow, Registered, Running, Stale
<1>3. ASSUME NEW i \in Members, RegisterInstance(i) PROVE MemberTypeOK'
  BY <1>3 DEF MemberTypeOK, Lives, NoRow, RegisterInstance
<1>4. ASSUME NEW i \in Members, UpsertTool(i) PROVE MemberTypeOK'
  BY <1>4 DEF MemberTypeOK, Lives, NoRow, UpsertTool
<1>5. ASSUME NEW i \in Members, RegisterInstanceTool(i) PROVE MemberTypeOK'
  BY <1>5 DEF MemberTypeOK, Lives, NoRow, RegisterInstanceTool
<1>6. ASSUME NEW i \in Members, StartFails(i) PROVE MemberTypeOK'
  BY <1>6 DEF MemberTypeOK, Lives, NoRow, StartFails
<1>7. ASSUME NEW i \in Members, CancelLoops(i) PROVE MemberTypeOK'
  BY <1>7 DEF MemberTypeOK, Lives, NoRow, CancelLoops
<1>8. ASSUME NEW i \in Members, ReleaseLeader(i) PROVE MemberTypeOK'
  BY <1>8 DEF MemberTypeOK, Lives, NoRow, ReleaseLeader
<1>9. ASSUME NEW i \in Members, UnregisterInstance(i) PROVE MemberTypeOK'
  <2>1. beat' \in [Members -> 0 .. NoRow] /\ toolKnown' \in BOOLEAN /\ capable' \subseteq Members
    <3>1. CASE UNCHANGED <<beat, toolKnown, capable>>
      BY <3>1, Zenon DEF MemberTypeOK
    <3>2. CASE Unregister({i})
      BY <3>2, UnregisterTypes
    <3> QED
      BY <1>9, <3>1, <3>2 DEF UnregisterInstance
  <2> QED
    BY <1>9, <2>1 DEF MemberTypeOK, Lives, UnregisterInstance
<1>10. ASSUME NEW i \in Members, Die(i) PROVE MemberTypeOK'
  BY <1>10 DEF MemberTypeOK, Lives, NoRow, Die
<1>11. ASSUME NEW i \in Members, UpdateHeartbeat(i) PROVE MemberTypeOK'
  BY <1>11 DEF MemberTypeOK, Lives, NoRow, UpdateHeartbeat
<1>12. ASSUME NEW i \in Members, RefreshLeader(i) PROVE MemberTypeOK'
  BY <1>12 DEF MemberTypeOK, Lives, NoRow, RefreshLeader
<1>13. ASSUME NEW i \in Members, TryAcquireLeader(i) PROVE MemberTypeOK'
  BY <1>13 DEF MemberTypeOK, Lives, NoRow, TryAcquireLeader
<1>14. ASSUME NEW i \in Members, LeaderError(i) PROVE MemberTypeOK'
  BY <1>14 DEF MemberTypeOK, Lives, NoRow, LeaderError
<1>15. ASSUME NEW i \in Members, LearnLeader(i) PROVE MemberTypeOK'
  BY <1>15 DEF MemberTypeOK, Lives, NoRow, LearnLeader
<1>16. ASSUME NEW i \in Members, AskLeader(i) PROVE MemberTypeOK'
  BY <1>16 DEF MemberTypeOK, Lives, NoRow, AskLeader
<1>17. ASSUME NEW i \in Members, EndSweep(i) PROVE MemberTypeOK'
  BY <1>17 DEF MemberTypeOK, Lives, NoRow, EndSweep
<1>18. ASSUME NEW i \in Members, BeginCleanup(i) PROVE MemberTypeOK'
  BY <1>18 DEF MemberTypeOK, Lives, NoRow, BeginCleanup
<1>19. ASSUME NEW i \in Members, DeleteStaleInstances(i) PROVE MemberTypeOK'
  BY <1>19, UnregisterTypes DEF MemberTypeOK, DeleteStaleInstances
<1> QED
  BY <1>1, <1>2, <1>3, <1>4, <1>5, <1>6, <1>7, <1>8, <1>9, <1>10, <1>11, <1>12, <1>13, <1>14, <1>15, <1>16, <1>17, <1>18, <1>19 DEF MemberNext, MemberStep

\* Every step keeps the trusted leases apart.
LEMMA TrustStep == MemberTypeOK /\ TrustInv /\ [MemberNext]_memberVars => TrustInv'
<1> SUFFICES ASSUME MemberTypeOK /\ TrustInv, [MemberNext]_memberVars PROVE TrustInv'
  OBVIOUS
<1> USE ConfigAssumption, MembersAssumption DEF loopVars, validate
<1>1. CASE UNCHANGED memberVars
  BY <1>1 DEF MemberTypeOK, TrustInv, memberVars
<1>2. CASE Tick
  BY <1>2 DEF MemberTypeOK, TrustInv, Tick, Less, NoRow, Registered, Running, Stale
<1>3. ASSUME NEW i \in Members, RegisterInstance(i) PROVE TrustInv'
  BY <1>3 DEF MemberTypeOK, TrustInv, RegisterInstance
<1>4. ASSUME NEW i \in Members, UpsertTool(i) PROVE TrustInv'
  BY <1>4 DEF MemberTypeOK, TrustInv, UpsertTool
<1>5. ASSUME NEW i \in Members, RegisterInstanceTool(i) PROVE TrustInv'
  BY <1>5 DEF MemberTypeOK, TrustInv, RegisterInstanceTool
<1>6. ASSUME NEW i \in Members, StartFails(i) PROVE TrustInv'
  BY <1>6 DEF MemberTypeOK, TrustInv, StartFails
<1>7. ASSUME NEW i \in Members, CancelLoops(i) PROVE TrustInv'
  BY <1>7 DEF MemberTypeOK, TrustInv, CancelLoops
<1>8. ASSUME NEW i \in Members, ReleaseLeader(i) PROVE TrustInv'
  BY <1>8 DEF MemberTypeOK, TrustInv, ReleaseLeader
<1>9. ASSUME NEW i \in Members, UnregisterInstance(i) PROVE TrustInv'
  BY <1>9 DEF MemberTypeOK, TrustInv, UnregisterInstance, Unregister
<1>10. ASSUME NEW i \in Members, Die(i) PROVE TrustInv'
  BY <1>10 DEF MemberTypeOK, TrustInv, Die
<1>11. ASSUME NEW i \in Members, UpdateHeartbeat(i) PROVE TrustInv'
  BY <1>11 DEF MemberTypeOK, TrustInv, UpdateHeartbeat
<1>12. ASSUME NEW i \in Members, RefreshLeader(i) PROVE TrustInv'
  BY <1>12 DEF MemberTypeOK, TrustInv, RefreshLeader
<1>13. ASSUME NEW i \in Members, TryAcquireLeader(i) PROVE TrustInv'
  BY <1>13 DEF MemberTypeOK, TrustInv, TryAcquireLeader
<1>14. ASSUME NEW i \in Members, LeaderError(i) PROVE TrustInv'
  BY <1>14 DEF MemberTypeOK, TrustInv, LeaderError
<1>15. ASSUME NEW i \in Members, LearnLeader(i) PROVE TrustInv'
  BY <1>15 DEF MemberTypeOK, TrustInv, LearnLeader
<1>16. ASSUME NEW i \in Members, AskLeader(i) PROVE TrustInv'
  BY <1>16 DEF MemberTypeOK, TrustInv, AskLeader
<1>17. ASSUME NEW i \in Members, EndSweep(i) PROVE TrustInv'
  BY <1>17 DEF MemberTypeOK, TrustInv, EndSweep
<1>18. ASSUME NEW i \in Members, BeginCleanup(i) PROVE TrustInv'
  BY <1>18 DEF MemberTypeOK, TrustInv, BeginCleanup
<1>19. ASSUME NEW i \in Members, DeleteStaleInstances(i) PROVE TrustInv'
  BY <1>19 DEF MemberTypeOK, TrustInv, DeleteStaleInstances, Unregister, Stale
<1> QED
  BY <1>1, <1>2, <1>3, <1>4, <1>5, <1>6, <1>7, <1>8, <1>9, <1>10, <1>11, <1>12, <1>13, <1>14, <1>15, <1>16, <1>17, <1>18, <1>19 DEF MemberNext, MemberStep

\* Every step keeps the sweeps apart.
LEMMA SweepStep == MemberTypeOK /\ SweepInv /\ [MemberNext]_memberVars => SweepInv'
<1> SUFFICES ASSUME MemberTypeOK /\ SweepInv, [MemberNext]_memberVars PROVE SweepInv'
  OBVIOUS
<1> USE ConfigAssumption, MembersAssumption DEF loopVars, validate
<1>1. CASE UNCHANGED memberVars
  BY <1>1 DEF MemberTypeOK, SweepInv, Lives, Running, memberVars
<1>2. CASE Tick
  BY <1>2 DEF MemberTypeOK, SweepInv, Lives, Running, Tick, Less, NoRow, Registered, Running, Stale
<1>3. ASSUME NEW i \in Members, RegisterInstance(i) PROVE SweepInv'
  BY <1>3 DEF MemberTypeOK, SweepInv, Lives, Running, RegisterInstance
<1>4. ASSUME NEW i \in Members, UpsertTool(i) PROVE SweepInv'
  BY <1>4 DEF MemberTypeOK, SweepInv, Lives, Running, UpsertTool
<1>5. ASSUME NEW i \in Members, RegisterInstanceTool(i) PROVE SweepInv'
  BY <1>5 DEF MemberTypeOK, SweepInv, Lives, Running, RegisterInstanceTool
<1>6. ASSUME NEW i \in Members, StartFails(i) PROVE SweepInv'
  BY <1>6 DEF MemberTypeOK, SweepInv, Lives, Running, StartFails
<1>7. ASSUME NEW i \in Members, CancelLoops(i) PROVE SweepInv'
  BY <1>7 DEF MemberTypeOK, SweepInv, Lives, Running, CancelLoops
<1>8. ASSUME NEW i \in Members, ReleaseLeader(i) PROVE SweepInv'
  BY <1>8 DEF MemberTypeOK, SweepInv, Lives, Running, ReleaseLeader
<1>9. ASSUME NEW i \in Members, UnregisterInstance(i) PROVE SweepInv'
  BY <1>9 DEF MemberTypeOK, SweepInv, Lives, Running, UnregisterInstance, Unregister
<1>10. ASSUME NEW i \in Members, Die(i) PROVE SweepInv'
  BY <1>10 DEF MemberTypeOK, SweepInv, Lives, Running, Die
<1>11. ASSUME NEW i \in Members, UpdateHeartbeat(i) PROVE SweepInv'
  BY <1>11 DEF MemberTypeOK, SweepInv, Lives, Running, UpdateHeartbeat
<1>12. ASSUME NEW i \in Members, RefreshLeader(i) PROVE SweepInv'
  BY <1>12 DEF MemberTypeOK, SweepInv, Lives, Running, RefreshLeader
<1>13. ASSUME NEW i \in Members, TryAcquireLeader(i) PROVE SweepInv'
  BY <1>13 DEF MemberTypeOK, SweepInv, Lives, Running, TryAcquireLeader
<1>14. ASSUME NEW i \in Members, LeaderError(i) PROVE SweepInv'
  BY <1>14 DEF MemberTypeOK, SweepInv, Lives, Running, LeaderError
<1>15. ASSUME NEW i \in Members, LearnLeader(i) PROVE SweepInv'
  BY <1>15 DEF MemberTypeOK, SweepInv, Lives, Running, LearnLeader
<1>16. ASSUME NEW i \in Members, AskLeader(i) PROVE SweepInv'
  BY <1>16 DEF MemberTypeOK, SweepInv, Lives, Running, AskLeader
<1>17. ASSUME NEW i \in Members, EndSweep(i) PROVE SweepInv'
  BY <1>17 DEF MemberTypeOK, SweepInv, Lives, Running, EndSweep
<1>18. ASSUME NEW i \in Members, BeginCleanup(i) PROVE SweepInv'
  BY <1>18 DEF MemberTypeOK, SweepInv, Lives, Running, BeginCleanup
<1>19. ASSUME NEW i \in Members, DeleteStaleInstances(i) PROVE SweepInv'
  BY <1>19 DEF MemberTypeOK, SweepInv, Lives, Running, DeleteStaleInstances, Unregister, Stale
<1> QED
  BY <1>1, <1>2, <1>3, <1>4, <1>5, <1>6, <1>7, <1>8, <1>9, <1>10, <1>11, <1>12, <1>13, <1>14, <1>15, <1>16, <1>17, <1>18, <1>19 DEF MemberNext, MemberStep

\* Every step keeps the tool registrations of who runs.
LEMMA WorkStep == MemberTypeOK /\ MembersCanWork /\ [MemberNext]_memberVars => MembersCanWork'
<1> SUFFICES ASSUME MemberTypeOK /\ MembersCanWork, [MemberNext]_memberVars PROVE MembersCanWork'
  OBVIOUS
<1> USE ConfigAssumption, MembersAssumption DEF loopVars, validate
<1>1. CASE UNCHANGED memberVars
  BY <1>1 DEF MemberTypeOK, MembersCanWork, Running, Registered, NoRow, memberVars
<1>2. CASE Tick
  BY <1>2 DEF MemberTypeOK, MembersCanWork, Running, Registered, NoRow, Tick, Less, NoRow, Registered, Running, Stale
<1>3. ASSUME NEW i \in Members, RegisterInstance(i) PROVE MembersCanWork'
  BY <1>3 DEF MemberTypeOK, MembersCanWork, Running, Registered, NoRow, RegisterInstance
<1>4. ASSUME NEW i \in Members, UpsertTool(i) PROVE MembersCanWork'
  BY <1>4 DEF MemberTypeOK, MembersCanWork, Running, Registered, NoRow, UpsertTool
<1>5. ASSUME NEW i \in Members, RegisterInstanceTool(i) PROVE MembersCanWork'
  BY <1>5 DEF MemberTypeOK, MembersCanWork, Running, Registered, NoRow, RegisterInstanceTool
<1>6. ASSUME NEW i \in Members, StartFails(i) PROVE MembersCanWork'
  BY <1>6 DEF MemberTypeOK, MembersCanWork, Running, Registered, NoRow, StartFails
<1>7. ASSUME NEW i \in Members, CancelLoops(i) PROVE MembersCanWork'
  BY <1>7 DEF MemberTypeOK, MembersCanWork, Running, Registered, NoRow, CancelLoops
<1>8. ASSUME NEW i \in Members, ReleaseLeader(i) PROVE MembersCanWork'
  BY <1>8 DEF MemberTypeOK, MembersCanWork, Running, Registered, NoRow, ReleaseLeader
<1>9. ASSUME NEW i \in Members, UnregisterInstance(i) PROVE MembersCanWork'
  <2>1. \A j \in Members : life'[j] = "up" => life[j] = "up"
    BY <1>9 DEF UnregisterInstance, MemberTypeOK
  <2>2. CASE UNCHANGED <<beat, toolKnown, capable>>
    BY <2>1, <2>2 DEF MembersCanWork, Running, Registered
  <2>3. CASE Unregister({i})
    BY <2>1, <2>3, UnregisterWork
  <2> QED
    BY <1>9, <2>2, <2>3 DEF UnregisterInstance
<1>10. ASSUME NEW i \in Members, Die(i) PROVE MembersCanWork'
  BY <1>10 DEF MemberTypeOK, MembersCanWork, Running, Registered, NoRow, Die
<1>11. ASSUME NEW i \in Members, UpdateHeartbeat(i) PROVE MembersCanWork'
  BY <1>11 DEF MemberTypeOK, MembersCanWork, Running, Registered, NoRow, UpdateHeartbeat
<1>12. ASSUME NEW i \in Members, RefreshLeader(i) PROVE MembersCanWork'
  BY <1>12 DEF MemberTypeOK, MembersCanWork, Running, Registered, NoRow, RefreshLeader
<1>13. ASSUME NEW i \in Members, TryAcquireLeader(i) PROVE MembersCanWork'
  BY <1>13 DEF MemberTypeOK, MembersCanWork, Running, Registered, NoRow, TryAcquireLeader
<1>14. ASSUME NEW i \in Members, LeaderError(i) PROVE MembersCanWork'
  BY <1>14 DEF MemberTypeOK, MembersCanWork, Running, Registered, NoRow, LeaderError
<1>15. ASSUME NEW i \in Members, LearnLeader(i) PROVE MembersCanWork'
  BY <1>15 DEF MemberTypeOK, MembersCanWork, Running, Registered, NoRow, LearnLeader
<1>16. ASSUME NEW i \in Members, AskLeader(i) PROVE MembersCanWork'
  BY <1>16 DEF MemberTypeOK, MembersCanWork, Running, Registered, NoRow, AskLeader
<1>17. ASSUME NEW i \in Members, EndSweep(i) PROVE MembersCanWork'
  BY <1>17 DEF MemberTypeOK, MembersCanWork, Running, Registered, NoRow, EndSweep
<1>18. ASSUME NEW i \in Members, BeginCleanup(i) PROVE MembersCanWork'
  BY <1>18 DEF MemberTypeOK, MembersCanWork, Running, Registered, NoRow, BeginCleanup
<1>19. ASSUME NEW i \in Members, DeleteStaleInstances(i) PROVE MembersCanWork'
  BY <1>19 DEF MemberTypeOK, MembersCanWork, Running, Registered, NoRow, DeleteStaleInstances, Unregister, Stale
<1> QED
  BY <1>1, <1>2, <1>3, <1>4, <1>5, <1>6, <1>7, <1>8, <1>9, <1>10, <1>11, <1>12, <1>13, <1>14, <1>15, <1>16, <1>17, <1>18, <1>19 DEF MemberNext, MemberStep

-----------------------------------------------------------------------------
(* Theorems.                                                               *)

\* The inductive invariant holds whatever instances die, are late, lose an answer or
\* start again (client.go:302-1009): no bound on their number, and none on the TTLs.
THEOREM MemberInvHolds == MemberSpec => []MemberInv
<1>1. MemberInit => MemberInv
  <2> SUFFICES ASSUME MemberInit PROVE MemberInv
    OBVIOUS
  <2>1. MemberTypeOK
    <3>1. toolKnown \in BOOLEAN
      BY Zenon DEF MemberInit
    <3> QED
      BY <3>1, ConfigAssumption DEF validate, MemberInit, MemberTypeOK, Lives, NoRow
  <2>2. TrustInv /\ SweepInv
    BY DEF MemberInit, TrustInv, SweepInv
  <2>3. MembersCanWork
    BY DEF MemberInit, MembersCanWork, Running
  <2> QED
    BY <2>1, <2>2, <2>3 DEF MemberInv
<1>2. MemberInv /\ [MemberNext]_memberVars => MemberInv'
  BY MemberTypeStep, TrustStep, SweepStep, WorkStep DEF MemberInv
<1> QED
  BY <1>1, <1>2, PTL DEF MemberSpec

\* Type correctness of the rows, the flags and the loops.
THEOREM MemberTypeCorrect == MemberSpec => []MemberTypeOK
<1>1. MemberInv => MemberTypeOK
  BY DEF MemberInv
<1> QED
  BY <1>1, MemberInvHolds, PTL

\* Two instances believe that they lead (isLeader, client.go:968) only when the lease
\* that one of them was told of has lapsed or was released.
THEOREM LeadersApart == MemberSpec => []OneLeader
<1>1. MemberInv => OneLeader
  BY DEF MemberInv, TrustInv, OneLeader, Running
<1> QED
  BY <1>1, MemberInvHolds, PTL

\* Two rescuers sweep at once only when one of them has been at it for longer than the
\* lease it was shown had left (rescuer.go:48).
THEOREM SweepersApart == MemberSpec => []OneSweeper
<1>1. MemberInv => OneSweeper
  BY DEF MemberInv, SweepInv, OneSweeper, Running
<1> QED
  BY <1>1, MemberInvHolds, PTL

\* An instance that runs and is registered is registered for its tools: nothing that
\* deletes rows (client.go:995) or revives them leaves one without.
THEOREM RegisteredCanWork == MemberSpec => []MembersCanWork
<1>1. MemberInv => MembersCanWork
  BY DEF MemberInv
<1> QED
  BY <1>1, MemberInvHolds, PTL
=============================================================================
