------------------------------ MODULE Membership ------------------------------
(***************************************************************************)
(* The instances of a cluster and its leader: Start, Stop and the          *)
(* heartbeat, leader, cleanup and rescuer loops of every client, over the  *)
(* tables agentpg_instances, agentpg_instance_tools and agentpg_leader.    *)
(*                                                                         *)
(* All times are NOW() of the one database, so a clock tick ages           *)
(* everything at once and only ages are kept.  A loop is two steps where   *)
(* the database answers first and the process acts on the answer later.    *)
(***************************************************************************)
EXTENDS Naturals, FiniteSets

CONSTANTS
    Members,       \* client instances, by instance ID
    Nobody,        \* no row in agentpg_leader
    LeaseTTL,      \* ClientConfig.LeaderTTL, in ticks
    MemberTTL,     \* ClientConfig.InstanceTTL, in ticks
    MayDie,        \* instances that may be stopped or killed
    Tardy          \* instances whose loops may be late and whose statements may fail

\* validate puts a default for every duration that is not positive.
validate == {LeaseTTL, MemberTTL} \subseteq Nat \ {0}

ASSUME ConfigAssumption == validate
ASSUME MembersAssumption ==
    Nobody \notin Members /\ MayDie \subseteq Members /\ Tardy \subseteq Members

VARIABLES
    lease,     \* leader_id, and the ticks until expires_at
    beat,      \* age of last_heartbeat_at of each instance's row, or NoRow
    toolKnown, \* the cluster's tool has its row in agentpg_tools
    capable,   \* the instances registered for it in agentpg_instance_tools
    life,      \* how far Start or Stop of each client has come
    leads,     \* Client.isLeader
    answer,    \* what the leader loop was told and has not yet written to isLeader
    trust,     \* ticks until the lease it was last told of, and did not release, expires
    sweep,     \* the rescuers that were told they lead and work through their list
    seen,      \* ticks until the lease those rescuers were told of expires
    cleaning   \* the cleanup loops that read isLeader and have not yet deleted

memberVars == <<lease, beat, toolKnown, capable, life, leads, answer, trust, sweep, seen, cleaning>>

NoRow == MemberTTL + 2
Lives == {"down", "starting", "syncing", "up", "stopping", "released"}

MemberTypeOK ==
    /\ lease \in [holder : Members \cup {Nobody}, left : 0 .. LeaseTTL]
    /\ beat \in [Members -> 0 .. NoRow]
    /\ toolKnown \in BOOLEAN
    /\ capable \subseteq Members
    /\ life \in [Members -> Lives]
    /\ leads \subseteq Members
    /\ answer \in [Members -> {"none", "granted", "refused"}]
    /\ trust \in [Members -> 0 .. LeaseTTL]
    /\ sweep \subseteq Members
    /\ seen \in [Members -> 0 .. LeaseTTL]
    /\ cleaning \subseteq Members

MemberInit ==
    /\ lease = [holder |-> Nobody, left |-> 0]
    /\ beat = [i \in Members |-> NoRow]
    /\ toolKnown = FALSE
    /\ capable = {}
    /\ life = [i \in Members |-> "down"]
    /\ leads = {}
    /\ answer = [i \in Members |-> "none"]
    /\ trust = [i \in Members |-> 0]
    /\ sweep = {}
    /\ seen = [i \in Members |-> 0]
    /\ cleaning = {}

Registered == {i \in Members : beat[i] # NoRow}
Stale == {i \in Registered : beat[i] > MemberTTL}
Running == {i \in Members : life[i] = "up"}

loopVars == <<leads, answer, trust, sweep, seen, cleaning>>

-----------------------------------------------------------------------------
(* Start and Stop.  One tool stands for the tools of the client.           *)

\* The row is inserted, or revived with its old claims: no cleanup runs.
RegisterInstance(i) ==
    /\ life[i] = "down"
    /\ life' = [life EXCEPT ![i] = "starting"]
    /\ beat' = [beat EXCEPT ![i] = 0]
    /\ UNCHANGED <<lease, toolKnown, capable, loopVars>>

UpsertTool(i) ==
    /\ life[i] = "starting"
    /\ life' = [life EXCEPT ![i] = "syncing"]
    /\ toolKnown' = TRUE
    /\ UNCHANGED <<lease, beat, capable, loopVars>>

\* The row needs the instance's and the tool's: foreign keys.  Either may have
\* been cleaned up meanwhile, and then Start fails.
RegisterInstanceTool(i) ==
    /\ life[i] = "syncing"
    /\ i \in Registered /\ toolKnown
    /\ life' = [life EXCEPT ![i] = "up"]
    /\ capable' = capable \cup {i}
    /\ UNCHANGED <<lease, beat, toolKnown, loopVars>>

\* Start returns an error and leaves the instance's row behind.
StartFails(i) ==
    /\ life[i] \in {"starting", "syncing"}
    /\ i \in Tardy \/ (life[i] = "syncing" /\ ~(i \in Registered /\ toolKnown))
    /\ life' = [life EXCEPT ![i] = "down"]
    /\ UNCHANGED <<lease, beat, toolKnown, capable, loopVars>>

\* A deleted instance row takes its tool registrations with it, and the last
\* registration of a tool takes the tool (agentpg_cleanup_orphaned_tools).
Unregister(gone) ==
    /\ beat' = [i \in Members |-> IF i \in gone THEN NoRow ELSE beat[i]]
    /\ capable' = capable \ gone
    /\ toolKnown' = IF gone \cap capable # {} THEN capable \ gone # {} ELSE toolKnown

\* Stop cancels the loops' context: they make no statement after this one.
CancelLoops(i) ==
    /\ i \in MayDie
    /\ life[i] = "up"
    /\ life' = [life EXCEPT ![i] = "stopping"]
    /\ UNCHANGED <<lease, beat, toolKnown, capable, loopVars>>

\* Stop waits for the loops, but no longer than its own context, and an error
\* does not hold it up.  isLeader stays as it is.
ReleaseLeader(i) ==
    /\ life[i] = "stopping"
    /\ life' = [life EXCEPT ![i] = "released"]
    /\ \/ UNCHANGED lease
       \/ /\ i \in leads /\ lease.holder = i
          /\ lease' = [holder |-> Nobody, left |-> 0]
    /\ trust' = [trust EXCEPT ![i] = 0]
    /\ UNCHANGED <<beat, toolKnown, capable, leads, answer, sweep, seen, cleaning>>

\* The client object may be started again, with the flag it had.
UnregisterInstance(i) ==
    /\ life[i] = "released"
    /\ life' = [life EXCEPT ![i] = "down"]
    /\ \/ UNCHANGED <<beat, toolKnown, capable>>
       \/ Unregister({i})
    /\ answer' = [answer EXCEPT ![i] = "none"]
    /\ sweep' = sweep \ {i}
    /\ cleaning' = cleaning \ {i}
    /\ UNCHANGED <<lease, leads, trust, seen>>

\* The process ends; a new one may start under the same ID.
Die(i) ==
    /\ i \in MayDie
    /\ life[i] # "down"
    /\ life' = [life EXCEPT ![i] = "down"]
    /\ leads' = leads \ {i}
    /\ answer' = [answer EXCEPT ![i] = "none"]
    /\ trust' = [trust EXCEPT ![i] = 0]
    /\ sweep' = sweep \ {i}
    /\ cleaning' = cleaning \ {i}
    /\ UNCHANGED <<lease, beat, toolKnown, capable, seen>>

-----------------------------------------------------------------------------
(* The loops.                                                              *)

\* Mutant of UpdateHeartbeat: a heartbeat brings a deleted row back.
UpsertHeartbeat(i) ==
    /\ life[i] = "up"
    /\ beat' = [beat EXCEPT ![i] = 0]
    /\ UNCHANGED <<lease, toolKnown, capable, life, loopVars>>

\* An instance whose row was deleted is told so, logs it and goes on without.
UpdateHeartbeat(i) ==
    /\ life[i] = "up"
    /\ i \in Registered
    /\ beat' = [beat EXCEPT ![i] = 0]
    /\ UNCHANGED <<lease, toolKnown, capable, life, loopVars>>

\* Mutant of RefreshLeader: any holder's lease is renewed for the caller.
RefreshAnyway(i) ==
    /\ life[i] = "up" /\ answer[i] = "none"
    /\ i \in leads
    /\ lease' = [holder |-> i, left |-> LeaseTTL]
    /\ trust' = [trust EXCEPT ![i] = LeaseTTL]
    /\ UNCHANGED <<beat, toolKnown, capable, life, leads, answer, sweep, seen, cleaning>>

\* Refreshing asks for the holder, not for the expiry: a late leader renews a
\* lapsed lease that nobody has taken.
RefreshLeader(i) ==
    /\ life[i] = "up" /\ answer[i] = "none"
    /\ i \in leads
    /\ IF lease.holder = i
       THEN /\ lease' = [lease EXCEPT !.left = LeaseTTL]
            /\ trust' = [trust EXCEPT ![i] = LeaseTTL]
            /\ UNCHANGED answer
       ELSE /\ answer' = [answer EXCEPT ![i] = "refused"]
            /\ UNCHANGED <<lease, trust>>
    /\ UNCHANGED <<beat, toolKnown, capable, life, leads, sweep, seen, cleaning>>

\* Mutant of TryAcquireLeader: a lapsed lease is not taken over.
AcquireFree(i) ==
    /\ life[i] = "up" /\ answer[i] = "none"
    /\ i \notin leads
    /\ lease.holder = Nobody
    /\ lease' = [holder |-> i, left |-> LeaseTTL]
    /\ trust' = [trust EXCEPT ![i] = LeaseTTL]
    /\ answer' = [answer EXCEPT ![i] = "granted"]
    /\ UNCHANGED <<beat, toolKnown, capable, life, leads, sweep, seen, cleaning>>

\* An instance that does not believe it leads takes a free or lapsed lease.
TryAcquireLeader(i) ==
    /\ life[i] = "up" /\ answer[i] = "none"
    /\ i \notin leads
    /\ lease.holder = Nobody \/ lease.left = 0
    /\ lease' = [holder |-> i, left |-> LeaseTTL]
    /\ trust' = [trust EXCEPT ![i] = LeaseTTL]
    /\ answer' = [answer EXCEPT ![i] = "granted"]
    /\ UNCHANGED <<beat, toolKnown, capable, life, leads, sweep, seen, cleaning>>

\* The statement fails, or it takes effect and the answer is lost.  Any error
\* of a refresh is taken for lost leadership, of an acquisition for none.
LeaderError(i) ==
    /\ i \in Tardy
    /\ life[i] = "up" /\ answer[i] = "none"
    /\ answer' = [answer EXCEPT ![i] = IF i \in leads THEN "refused" ELSE "none"]
    /\ \/ UNCHANGED lease
       \/ /\ IF i \in leads THEN lease.holder = i
                            ELSE lease.holder = Nobody \/ lease.left = 0
          /\ lease' = [holder |-> i, left |-> LeaseTTL]
    /\ UNCHANGED <<beat, toolKnown, capable, life, leads, trust, sweep, seen, cleaning>>

\* Mutant of LearnLeader: only lost leadership is written to isLeader.
LearnLost(i) ==
    /\ answer[i] # "none"
    /\ leads' = leads \ {i}
    /\ answer' = [answer EXCEPT ![i] = "none"]
    /\ UNCHANGED <<lease, beat, toolKnown, capable, life, trust, sweep, seen, cleaning>>

\* The leader loop writes isLeader.
LearnLeader(i) ==
    /\ answer[i] # "none"
    /\ leads' = IF answer[i] = "granted" THEN leads \cup {i} ELSE leads \ {i}
    /\ answer' = [answer EXCEPT ![i] = "none"]
    /\ UNCHANGED <<lease, beat, toolKnown, capable, life, trust, sweep, seen, cleaning>>

\* Mutant of AskLeader: the rescuer asks isLeader.
AskFlag(i) ==
    /\ life[i] = "up" /\ i \notin sweep
    /\ i \in leads
    /\ sweep' = sweep \cup {i}
    /\ seen' = [seen EXCEPT ![i] = lease.left]
    /\ UNCHANGED <<lease, beat, toolKnown, capable, life, leads, answer, trust, cleaning>>

\* The rescuer asks the database, not the flag, and only once per tick.
AskLeader(i) ==
    /\ life[i] = "up" /\ i \notin sweep
    /\ lease.holder = i /\ lease.left > 0
    /\ sweep' = sweep \cup {i}
    /\ seen' = [seen EXCEPT ![i] = lease.left]
    /\ UNCHANGED <<lease, beat, toolKnown, capable, life, leads, answer, trust, cleaning>>

EndSweep(i) ==
    /\ i \in sweep
    /\ sweep' = sweep \ {i}
    /\ UNCHANGED <<lease, beat, toolKnown, capable, life, leads, answer, trust, seen, cleaning>>

\* The cleanup loop asks the flag.
BeginCleanup(i) ==
    /\ life[i] = "up" /\ i \notin cleaning
    /\ i \in leads
    /\ cleaning' = cleaning \cup {i}
    /\ UNCHANGED <<lease, beat, toolKnown, capable, life, leads, answer, trust, sweep, seen>>

\* Deleting a row cascades to its tools; what its trigger does to the runs and
\* executions of the instance is RunLifecycle!DeleteInstance.
DeleteStaleInstances(i) ==
    /\ life[i] = "up" /\ i \in cleaning
    /\ cleaning' = cleaning \ {i}
    /\ Unregister(Stale)
    /\ UNCHANGED <<lease, life, leads, answer, trust, sweep, seen>>

Less(n) == IF n = 0 THEN 0 ELSE n - 1

\* Time passes.  Instances outside Tardy have started, heard the database's answers
\* and sent the heartbeat that is due before the next tick.
Tick ==
    /\ \A i \in Members \ Tardy : life[i] \notin {"starting", "syncing"}
    /\ \A i \in Running \ Tardy :
          /\ answer[i] = "none"
          /\ i \in Registered => beat[i] = 0
    /\ lease' = [lease EXCEPT !.left = Less(lease.left)]
    /\ beat' = [i \in Members |-> IF beat[i] > MemberTTL THEN beat[i] ELSE beat[i] + 1]
    /\ trust' = [i \in Members |-> Less(trust[i])]
    /\ seen' = [i \in Members |-> Less(seen[i])]
    /\ UNCHANGED <<toolKnown, capable, life, leads, answer, sweep, cleaning>>

-----------------------------------------------------------------------------
MemberStep(i) ==
    \/ RegisterInstance(i) \/ UpsertTool(i) \/ RegisterInstanceTool(i) \/ StartFails(i)
    \/ CancelLoops(i) \/ ReleaseLeader(i) \/ UnregisterInstance(i) \/ Die(i)
    \/ UpdateHeartbeat(i)
    \/ RefreshLeader(i) \/ TryAcquireLeader(i) \/ LeaderError(i) \/ LearnLeader(i)
    \/ AskLeader(i) \/ EndSweep(i)
    \/ BeginCleanup(i) \/ DeleteStaleInstances(i)

MemberNext == Tick \/ \E i \in Members : MemberStep(i)

MemberSpec == MemberInit /\ [][MemberNext]_memberVars

-----------------------------------------------------------------------------
(* Properties.                                                             *)

\* Two instances that run both believe they lead (isLeader, client.go:968) only
\* when the lease one of them was told of has lapsed or was released: the two
\* refreshes per TTL of leaderLoop are what keeps the overlap away.
OneLeader ==
    \A i, j \in leads \cap Running : trust[i] > 0 /\ trust[j] > 0 => i = j

\* Two rescuers (rescuer.go:48) work through their lists at once only when one
\* of them has been at it for longer than the lease it was shown had left.
OneSweeper ==
    \A i, j \in sweep \cap Running : seen[i] > 0 /\ seen[j] > 0 => i = j

\* An instance that runs and is registered is also registered for its tools: the
\* claim procedures pass over one that is not, for as long as it lives.
MembersCanWork ==
    \A i \in Running \cap Registered : i \in capable

\* Time and again some running instance holds an unexpired lease and knows it,
\* whatever leaders die, are late or lose an answer.
LeaderEmerges ==
    (\E i \in Members : life[i] # "down") ~>
        (\E i \in Running \cap leads : lease.holder = i /\ lease.left > 0)

\* The row of an instance that died, or whose Start or Stop failed half-way, goes
\* in the end (which is what fails its orphaned work) unless it starts again.
DeadCleaned ==
    \A i \in Members :
        (life[i] = "down" /\ i \in Registered) ~> (i \notin Registered \/ life[i] # "down")
=============================================================================
