----------------------------- MODULE ToolTurns -----------------------------
(***************************************************************************)
(* What the tool worker promises to a run: every turn in which the model    *)
(* asks for tools is answered once, in order, with the results of all the   *)
(* calls of that turn, unless the run ends before.                          *)
(***************************************************************************)
EXTENDS Naturals, Sequences

CONSTANTS Calls, MaxTurns

VARIABLES
    phase,   \* "away": the model or a run worker has the run; "waiting"; "over"
    turn,    \* number of the last turn that asked for tools
    asked,   \* the calls of that turn
    ended,   \* those of them that have a result
    told     \* the answers given so far

vars == <<phase, turn, asked, ended, told>>

Init ==
    /\ phase = "away" /\ turn = 0
    /\ asked = {} /\ ended = {}
    /\ told = <<>>

Ask ==
    /\ phase = "away" /\ turn < MaxTurns
    /\ phase' = "waiting" /\ turn' = turn + 1
    /\ asked' \in (SUBSET Calls) \ {{}} /\ ended' = {}
    /\ UNCHANGED told

\* Calls end alone or, when an instance is lost, together and with the run.
End ==
    /\ \E E \in (SUBSET (asked \ ended)) \ {{}} : ended' = ended \cup E
    /\ phase' \in {phase, "over"}
    /\ UNCHANGED <<turn, asked, told>>

Answer ==
    /\ phase = "waiting" /\ ended = asked
    /\ told' = Append(told, [turn |-> turn, calls |-> asked])
    /\ phase' = "away"
    /\ UNCHANGED <<turn, asked, ended>>

Stop ==
    /\ phase # "over" /\ phase' = "over"
    /\ UNCHANGED <<turn, asked, ended, told>>

Next == Ask \/ End \/ Answer \/ Stop

Spec == Init /\ [][Next]_vars

\* Calls that were asked for end, and a turn whose calls have all ended is answered.
FairSpec == Spec /\ WF_vars(End) /\ WF_vars(Answer)
=============================================================================
