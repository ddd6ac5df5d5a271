------------------------------ MODULE AgentLoop ------------------------------
(***************************************************************************)
(* What the instances promise of one run: it goes through the agent loop   *)
(* as if one process did all of it, one step after the other.  The model   *)
(* is asked once per turn, what it answers is stored once and decides what *)
(* comes next, and nothing is written after the end.                       *)
(***************************************************************************)
EXTENDS Naturals, Sequences

CONSTANT MaxTurns   \* the model asks for tools in turns 1..MaxTurns

VARIABLES
    phase,   \* "absent", "queued", "working", "waiting" for tools, or how it ended
    turn,    \* number of the last turn that was begun
    talk     \* the messages of the run

vars == <<phase, turn, talk>>

Init == phase = "absent" /\ turn = 0 /\ talk = <<>>

Last == talk[Len(talk)]
Says(kind, n) == talk' = Append(talk, [kind |-> kind, iter |-> n])

\* The messages up to turn n wait for the model's answer.
Open(n) == talk # <<>> /\ Last.kind \in {"prompt", "tool_result"} /\ Last.iter = n

Create == phase = "absent" /\ phase' = "queued" /\ UNCHANGED <<turn, talk>>

Claim == phase = "queued" /\ phase' = "working" /\ UNCHANGED <<turn, talk>>

Prompt ==
    /\ phase = "working" /\ talk = <<>>
    /\ Says("prompt", 0)
    /\ UNCHANGED <<phase, turn>>

Begin ==
    /\ phase = "working" /\ Open(turn)
    /\ turn' = turn + 1
    /\ UNCHANGED <<phase, talk>>

Reply ==
    /\ phase = "working" /\ turn > 0 /\ Open(turn - 1)
    /\ Says("text", turn) \/ (turn <= MaxTurns /\ Says("tools", turn))
    /\ UNCHANGED <<phase, turn>>

Settle ==
    /\ phase = "working" /\ talk # <<>> /\ Last.iter = turn
    /\ \/ Last.kind = "tools" /\ phase' = "waiting"
       \/ Last.kind = "text" /\ phase' = "completed"
    /\ UNCHANGED <<turn, talk>>

Continue ==
    /\ phase = "waiting"
    /\ Says("tool_result", turn)
    /\ phase' = "queued"
    /\ UNCHANGED turn

\* A queued run is nobody's and does not fail.
Fail ==
    /\ phase \in {"working", "waiting"} /\ phase' = "failed"
    /\ UNCHANGED <<turn, talk>>

Next == Create \/ Claim \/ Prompt \/ Begin \/ Reply \/ Settle \/ Continue \/ Fail

Spec == Init /\ [][Next]_vars
=============================================================================
