--------------------------- MODULE MCRunLifecycle ---------------------------
(***************************************************************************)
(* Constants of RunLifecycle for TLC, and the behaviours of one run out of *)
(* two, a batch run or a streaming run, with every fault.                  *)
(***************************************************************************)
EXTENDS RunLifecycle

CONSTANTS b, s

\* b is a batch run, s a streaming run.
MCRunMode == [r \in Runs |-> IF r = b THEN "batch" ELSE "streaming"]
MCTooled == Runs \cap {b}

-----------------------------------------------------------------------------
(* Bounds: an action constraint.                                           *)

Only(r) == \A q \in Runs \ {r} : run'[q].state = "absent"

\* The batch run meets what befalls batches and rescued claims, not crashes, which the
\* streaming run meets.  A claim that a worker holds does not age, nor one after the only
\* rescue; the rescuer's instance alone continues the run, on notifications, and no batch
\* moves meanwhile; the second batch ends with a text; a notification that is still to be
\* handled when the run goes on is dropped.
BatchCase ==
    /\ Only(b)
    /\ up' = up /\ row' = row
    /\ run[b].aged \/ ~run'[b].aged \/ (Holders(b) = {} /\ run[b].rescues = 0)
    /\ \A i \in Instances :
          /\ hand'[i] # Unused => hand'[i].pc # "read" /\ i \in MayLead
          /\ hand[i] # Unused => api' = api
    /\ api'[b][2] \in {"none", "running", "text"}
    /\ note' = {} \/ run'[b].state = "pending_tools"

StreamCase == Only(s)

OneRun == BatchCase \/ StreamCase
=============================================================================
