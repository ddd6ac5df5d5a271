------------------------------- MODULE MCCluster -------------------------------
(***************************************************************************)
(* The instances with their leader, and the callers that wait for a run,   *)
(* checked side by side: they share no variable, so a behaviour has steps  *)
(* of one of them, chosen at its start.                                    *)
(***************************************************************************)
EXTENDS Membership, RunWaiters

CONSTANTS i1, i2, w1, w2, run1

VARIABLE part

clusterVars == <<memberVars, waiterVars, part>>

ClusterInit ==
    /\ part \in {"instances", "waiters"}
    /\ MemberInit /\ WaiterInit

ClusterNext ==
    /\ UNCHANGED part
    /\ \/ part = "instances" /\ MemberNext /\ UNCHANGED waiterVars
       \/ part = "waiters" /\ WaiterNext /\ UNCHANGED memberVars

\* An instance that is never stopped is started until that succeeds, and its
\* loops are tickers that retry for ever.  Of two instances that race for a
\* lapsed lease, neither loses every time.
MemberFairness ==
    /\ WF_memberVars(part = "instances" /\ Tick)
    /\ \A i \in Members \ MayDie :
          /\ WF_memberVars(part = "instances" /\ RegisterInstance(i))
          /\ SF_memberVars(UpsertTool(i))
          /\ SF_memberVars(RegisterInstanceTool(i))
          /\ WF_memberVars(StartFails(i))
          /\ WF_memberVars(UpdateHeartbeat(i))
          /\ WF_memberVars(RefreshLeader(i))
          /\ SF_memberVars(TryAcquireLeader(i))
          /\ WF_memberVars(LearnLeader(i))
          /\ SF_memberVars(BeginCleanup(i))
          /\ WF_memberVars(DeleteStaleInstances(i))

\* The callers' ticker fires for ever.  Nothing is assumed of notifications.
WaiterFairness == \A w \in Waiters : WF_waiterVars(ReadAwaited(w))

ClusterSpec ==
    /\ ClusterInit /\ [][ClusterNext]_clusterVars
    /\ MemberFairness
    /\ WaiterFairness

\* Every variable has its type.
ClusterTypeOK == MemberTypeOK /\ WaiterTypeOK
=============================================================================
