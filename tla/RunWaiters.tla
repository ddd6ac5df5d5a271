------------------------------ MODULE RunWaiters ------------------------------
(***************************************************************************)
(* WaitForRun of one client: its callers, the table of their channels, and *)
(* the listener that turns run_finalized notifications into wake-ups.      *)
(*                                                                         *)
(* A caller puts its channel in the table first and reads the run second;  *)
(* the notification handler reads the run first and empties the table      *)
(* second.  Lost notifications are made up for by a 500 ms poll.           *)
(***************************************************************************)
EXTENDS Naturals, FiniteSets

CONSTANTS
    Waiters,       \* calls of WaitForRun
    AwaitedRuns,   \* the runs they wait for
    Nothing        \* nothing in a channel

RowStates == {"live", "completed", "failed", "cancelled", "deleted"}

ASSUME NothingAssumption == Nothing \notin AwaitedRuns \cup RowStates

VARIABLES
    rowState,   \* agentpg_runs.state of each run, or "deleted"
    inbox,      \* runs whose run_finalized has reached the client, unhandled
    line,       \* the LISTEN connection: "on" or "broken"
    missed,     \* runs whose run_finalized was not, or not properly, handled
    handler,    \* handleNotification: the run, what GetRun said, who is to be told
    table,      \* Client.runWaiters
    chan,       \* what each waiter's channel holds, capacity 1
    wants,      \* the run each waiter waits for
    stage,      \* how far each waiter has come
    outcome     \* what WaitForRun returned

waiterVars == <<rowState, inbox, line, missed, handler, table, chan, wants, stage, outcome>>

FinalStates == {"completed", "failed", "cancelled"}
Stages == {"new", "registered", "waiting", "returned"}
Outcomes == {"none", "response", "agent_error", "not_found", "db_error", "timeout", "nil_run"}

Idle == [run |-> Nothing, read |-> "live", tell |-> {}, taken |-> FALSE]

WaiterTypeOK ==
    /\ rowState \in [AwaitedRuns -> RowStates]
    /\ inbox \subseteq AwaitedRuns
    /\ line \in {"on", "broken"}
    /\ missed \subseteq AwaitedRuns
    /\ handler \in [run : AwaitedRuns \cup {Nothing}, read : RowStates,
                    tell : SUBSET Waiters, taken : BOOLEAN]
    /\ table \in [AwaitedRuns -> SUBSET Waiters]
    /\ chan \in [Waiters -> RowStates \cup {Nothing}]
    /\ wants \in [Waiters -> AwaitedRuns]
    /\ stage \in [Waiters -> Stages]
    /\ outcome \in [Waiters -> Outcomes]

WaiterInit ==
    /\ rowState = [r \in AwaitedRuns |-> "live"]
    /\ inbox = {}
    /\ line = "on"
    /\ missed = {}
    /\ handler = Idle
    /\ table = [r \in AwaitedRuns |-> {}]
    /\ chan = [w \in Waiters |-> Nothing]
    /\ wants \in [Waiters -> AwaitedRuns]
    /\ stage = [w \in Waiters |-> "new"]
    /\ outcome = [w \in Waiters |-> "none"]

callVars == <<chan, wants, stage, outcome>>

-----------------------------------------------------------------------------
(* The run, its notification and the connection.                           *)

\* The trigger sends run_finalized in the transaction that ends the run.
Finalize(r) ==
    /\ rowState[r] = "live"
    /\ \E s \in FinalStates : rowState' = [rowState EXCEPT ![r] = s]
    /\ IF line = "on"
       THEN inbox' = inbox \cup {r} /\ UNCHANGED missed
       ELSE missed' = missed \cup {r} /\ UNCHANGED inbox
    /\ UNCHANGED <<line, handler, table, callVars>>

\* The session is deleted by SQL; its runs go with it, without notification.
DeleteRun(r) ==
    /\ rowState[r] # "deleted"
    /\ rowState' = [rowState EXCEPT ![r] = "deleted"]
    /\ missed' = missed \cup {r}
    /\ UNCHANGED <<inbox, line, handler, table, callVars>>

\* What the connection has not delivered is gone.
LineBreaks ==
    /\ line = "on"
    /\ line' = "broken"
    /\ \E lost \in SUBSET inbox :
          /\ inbox' = inbox \ lost
          /\ missed' = missed \cup lost
    /\ UNCHANGED <<rowState, handler, table, callVars>>

\* lib/pq reconnects; the pgx loop keeps asking the broken connection.
LineReconnects ==
    /\ line = "broken"
    /\ line' = "on"
    /\ UNCHANGED <<rowState, inbox, missed, handler, table, callVars>>

\* GetRun fails: the notification is dropped.
DropFinalized(r) ==
    /\ r \in inbox /\ handler = Idle
    /\ inbox' = inbox \ {r}
    /\ missed' = missed \cup {r}
    /\ UNCHANGED <<rowState, line, handler, table, callVars>>

HandleFinalized(r) ==
    /\ r \in inbox /\ handler = Idle
    /\ inbox' = inbox \ {r}
    /\ handler' = [run |-> r, read |-> rowState[r], tell |-> {}, taken |-> FALSE]
    /\ UNCHANGED <<rowState, line, missed, table, callVars>>

\* Under the mutex the whole list is taken out of the table.
TakeWaiters(r) ==
    /\ handler.run = r /\ ~handler.taken
    /\ handler' = [handler EXCEPT !.tell = table[r], !.taken = TRUE]
    /\ table' = [table EXCEPT ![r] = {}]
    /\ UNCHANGED <<rowState, inbox, line, missed, callVars>>

\* Non-blocking sends to channels of capacity one.
Tell(w) ==
    /\ w \in handler.tell
    /\ chan' = [chan EXCEPT ![w] = IF chan[w] = Nothing THEN handler.read ELSE chan[w]]
    /\ handler' = [handler EXCEPT !.tell = handler.tell \ {w}]
    /\ UNCHANGED <<rowState, inbox, line, missed, table, wants, stage, outcome>>

EndNotify ==
    /\ handler.taken /\ handler.tell = {}
    /\ handler' = Idle
    /\ UNCHANGED <<rowState, inbox, line, missed, table, callVars>>

-----------------------------------------------------------------------------
(* WaitForRun.                                                             *)

\* Mutant of RegisterWaiter: the caller's channel replaces those of other callers.
RegisterAlone(w) ==
    /\ stage[w] = "new"
    /\ stage' = [stage EXCEPT ![w] = "registered"]
    /\ table' = [table EXCEPT ![wants[w]] = {w}]
    /\ UNCHANGED <<rowState, inbox, line, missed, handler, chan, wants, outcome>>

RegisterWaiter(w) ==
    /\ stage[w] = "new"
    /\ stage' = [stage EXCEPT ![w] = "registered"]
    /\ table' = [table EXCEPT ![wants[w]] = @ \cup {w}]
    /\ UNCHANGED <<rowState, inbox, line, missed, handler, chan, wants, outcome>>

\* Mutant of Return: the channel stays in the table.
ReturnLeaving(w, what) ==
    /\ outcome' = [outcome EXCEPT ![w] = what]
    /\ stage' = [stage EXCEPT ![w] = "returned"]
    /\ UNCHANGED table

\* Every return runs the deferred removal of the caller's own channel.
Return(w, what) ==
    /\ outcome' = [outcome EXCEPT ![w] = what]
    /\ stage' = [stage EXCEPT ![w] = "returned"]
    /\ table' = [table EXCEPT ![wants[w]] = @ \ {w}]

\* Mutant of Built: a cancelled run has a response.
BuiltUnlessFailed(s) == IF s = "failed" THEN "agent_error" ELSE "response"

\* Mutant of Built: the state itself is returned.
BuiltRaw(s) == s

Built(s) == IF s = "completed" THEN "response" ELSE "agent_error"

\* Mutant of ReadAwaited: no poll after the first read.
ReadOnce(w) ==
    /\ stage[w] = "registered"
    /\ LET s == rowState[wants[w]] IN
          \/ s \in FinalStates /\ Return(w, Built(s))
          \/ s = "deleted" /\ Return(w, "not_found")
          \/ /\ s = "live"
             /\ stage' = [stage EXCEPT ![w] = "waiting"]
             /\ UNCHANGED <<outcome, table>>
    /\ UNCHANGED <<rowState, inbox, line, missed, handler, chan, wants>>

\* The first read, and every poll after it.
ReadAwaited(w) ==
    /\ stage[w] \in {"registered", "waiting"}
    /\ LET s == rowState[wants[w]] IN
          \/ s \in FinalStates /\ Return(w, Built(s))
          \/ s = "deleted" /\ Return(w, "not_found")
          \/ /\ s = "live"
             /\ stage' = [stage EXCEPT ![w] = "waiting"]
             /\ UNCHANGED <<outcome, table>>
    /\ UNCHANGED <<rowState, inbox, line, missed, handler, chan, wants>>

ReadFails(w) ==
    /\ stage[w] \in {"registered", "waiting"}
    /\ Return(w, "db_error")
    /\ UNCHANGED <<rowState, inbox, line, missed, handler, chan, wants>>

\* A nil run, read by the handler after the row was deleted, is dereferenced.
Receive(w) ==
    /\ stage[w] = "waiting" /\ chan[w] # Nothing
    /\ Return(w, IF chan[w] = "deleted" THEN "nil_run" ELSE Built(chan[w]))
    /\ chan' = [chan EXCEPT ![w] = Nothing]
    /\ UNCHANGED <<rowState, inbox, line, missed, handler, wants>>

TimeOut(w) ==
    /\ stage[w] = "waiting"
    /\ Return(w, "timeout")
    /\ UNCHANGED <<rowState, inbox, line, missed, handler, chan, wants>>

-----------------------------------------------------------------------------
WaiterNext ==
    \/ LineBreaks \/ LineReconnects \/ EndNotify
    \/ \E r \in AwaitedRuns :
          \/ Finalize(r) \/ DeleteRun(r)
          \/ DropFinalized(r) \/ HandleFinalized(r) \/ TakeWaiters(r)
    \/ \E w \in Waiters :
          \/ RegisterWaiter(w) \/ ReadAwaited(w) \/ ReadFails(w)
          \/ Tell(w) \/ Receive(w) \/ TimeOut(w)

WaiterSpec == WaiterInit /\ [][WaiterNext]_waiterVars

-----------------------------------------------------------------------------
(* Properties.                                                             *)

\* A waiter that waits for a run which has ended has its wake-up on the way: in
\* the inbox, in the handler, or in its channel, unless the notification was lost.
\* This is what registering the channel before the first read is for
\* (client.go:558-578); without it the 500 ms poll would be what answers.
WakeUpOnItsWay ==
    \A w \in Waiters : LET r == wants[w] IN
        stage[w] = "waiting" /\ rowState[r] \in FinalStates =>
            \/ r \in missed
            \/ r \in inbox
            \/ handler.run = r /\ (~handler.taken => w \in table[r])
                               /\ (handler.taken => w \in handler.tell \/ chan[w] # Nothing)
            \/ chan[w] # Nothing

\* What WaitForRun returned is true of the run, whichever of the first read, the
\* poll and the notification answered: a response only of a completed run, an
\* agent error only of a failed or cancelled one, and a nil run (which the code
\* dereferences) only when the row was deleted under a notification.
AnswerIsTrue ==
    \A w \in Waiters : LET s == rowState[wants[w]] IN
        /\ outcome[w] = "response" => s \in {"completed", "deleted"}
        /\ outcome[w] = "agent_error" => s \in {"failed", "cancelled", "deleted"}
        /\ outcome[w] \in {"not_found", "nil_run"} => s = "deleted"

\* The table holds no call but those that have registered and not returned, each under
\* its run: a call that returns, by whichever way, leaves nothing behind (client.go:562-575).
NoWaiterLeaks ==
    \A r \in AwaitedRuns : \A w \in table[r] :
        wants[w] = r /\ stage[w] \in {"registered", "waiting"}

\* A call that waits for a run which ends, or is deleted, returns, whatever becomes
\* of the notification, the connection and the handler (client.go:632-645).
WaiterReturns ==
    \A w \in Waiters :
        (stage[w] = "waiting" /\ rowState[wants[w]] # "live") ~> (stage[w] = "returned")
=============================================================================
