-------------------------------- MODULE Console --------------------------------
(***************************************************************************)
(* The chat pages of the web UI over a session whose runs go on: a page    *)
(* reads the messages and the runs in separate statements, looks for a run *)
(* in progress, polls it once a second and loads the messages when it has  *)
(* ended.  A request is answered as a whole, and of what a page shows only *)
(* what its last answer brought is kept, until it asks again.              *)
(***************************************************************************)
EXTENDS SessionLog, FiniteSetsExt, SequencesExt

CONSTANTS
    Pages,        \* browser pages
    PageLimit,    \* messages a page asks for
    RunLimit,     \* runs a page asks for, to group the messages by
    PendingLimit  \* newest runs it looks through for one in progress

ASSUME LimitsAssumption == {PageLimit, RunLimit, PendingLimit} \subseteq Nat \ {0}

VARIABLES
    page,     \* each page: its view, how far it is, what it shows
    created   \* the runs of the session, in the order of created_at

PageStages == {"closed", "opening", "finding", "polling", "refreshing", "loading", "still", "missed"}

ConsoleTypeOK ==
    /\ LogTypeOK
    /\ page \in [Pages -> [view : {"top-level", "hierarchy"}, stage : PageStages,
                           reads : {"messages", "runs"}, run : SessionRuns \cup {NoRun},
                           url : SessionRuns \cup {NoRun},
                           msgs : SUBSET Message, groups : SUBSET SessionRuns]]
    /\ created \in Seq(SessionRuns)
    /\ \A r \in SessionRuns : runs[r].state # "none" <=> r \in ToSet(created)

ConsoleInit ==
    /\ created = <<>>
    /\ page \in [Pages -> [view : {"top-level", "hierarchy"}, stage : {"closed"}, reads : {"messages"},
                           run : {NoRun}, url : {NoRun}, msgs : {{}}, groups : {{}}]]

Ended(r) == runs[r].state \in {"completed", "failed"}

Live(r) == runs[r].state \in LiveStates

-----------------------------------------------------------------------------
(* What a page reads.                                                      *)

\* Of those, the oldest.
Oldest100(S) == {m \in S : Cardinality({n \in S : n.id < m.id}) < PageLimit}

\* The first runs of the newest.
Newest(n) == {created[i] : i \in {j \in DOMAIN created : j > Len(created) - n}}

ResultOnly(m) == m.filled /\ m.body # {} /\ \A b \in m.body : b.kind = "result"

\* Only the messages of root runs, and the limit counts what is shown.
Conversation == Oldest100({m \in log : m.run \in Roots /\ ~ResultOnly(m)})

\* Here the statement has the limit, and messages are passed over after it.
HierarchyMessages == {m \in Oldest100(log) : ~ResultOnly(m)}

ParentOf(k) == calls[runs[k].asks].of

\* The groups, from the roots down: a run hangs below its parent, where that is among
\* the runs read and has a place itself.
Grouped(R) ==
    {r \in R : \A S \in SUBSET R : (\A q \in R : q \in Roots \/ ParentOf(q) \in S => q \in S) => r \in S}

-----------------------------------------------------------------------------
(* What a page does.                                                       *)

Set(p, rec) == page' = [page EXCEPT ![p] = rec]

\* All is read: the page opened, its refresh or its last load is answered.
Arrive(rec) ==
    [rec EXCEPT !.reads = "messages",
                !.stage = CASE @ = "opening" -> "finding"
                            [] @ = "refreshing" -> "polling"
                            [] @ = "loading" -> "still"]

\* handleChatSession, at first or on reload, with pending_run if the URL has it.
OpenPage(p) ==
    /\ page[p].reads = "messages" /\ page[p].stage # "opening"
    /\ Set(p, [page[p] EXCEPT !.stage = "opening", !.run = page[p].url, !.msgs = {}, !.groups = {}])
    /\ UNCHANGED <<logVars, created>>

ReadMessages(p) ==
    /\ page[p].stage \in {"opening", "refreshing", "loading"} /\ page[p].reads = "messages"
    /\ Set(p, IF page[p].view = "hierarchy"
              THEN [page[p] EXCEPT !.msgs = HierarchyMessages, !.reads = "runs"]
              ELSE Arrive([page[p] EXCEPT !.msgs = Conversation]))
    /\ UNCHANGED <<logVars, created>>

\* Mutant of ReadRuns: only root runs are read.
ReadRunsRoots(p) ==
    /\ page[p].reads = "runs"
    /\ Set(p, Arrive([page[p] EXCEPT !.groups = Grouped(Newest(RunLimit) \cap Roots)]))
    /\ UNCHANGED <<logVars, created>>

\* A second statement, after the messages were read.
ReadRuns(p) ==
    /\ page[p].reads = "runs"
    /\ Set(p, Arrive([page[p] EXCEPT !.groups = Grouped(Newest(RunLimit))]))
    /\ UNCHANGED <<logVars, created>>

\* The run the URL names if it is in progress; otherwise the newest that is, be it a
\* root's or a child's, among the newest few.  A run that has ended stays so: that
\* it is looked at one statement earlier makes no difference.
FindPending(p) ==
    /\ page[p].stage = "finding"
    /\ LET found == {i \in DOMAIN created : created[i] \in Newest(PendingLimit) /\ Live(created[i])} IN
       Set(p, CASE page[p].run # NoRun /\ Live(page[p].run) -> [page[p] EXCEPT !.stage = "polling"]
                [] ~(page[p].run # NoRun /\ Live(page[p].run)) /\ found # {} ->
                       [page[p] EXCEPT !.stage = "polling", !.run = created[Max(found)]]
                [] OTHER -> [page[p] EXCEPT !.stage = "still", !.run = NoRun])
    /\ UNCHANGED <<logVars, created>>

\* handleChatPoll, once a second: nothing to show yet is no step.
PollRun(p) ==
    /\ page[p].stage = "polling"
    /\ \/ /\ Ended(page[p].run)
          /\ Set(p, [page[p] EXCEPT !.stage = "loading", !.msgs = {}, !.groups = {}])
       \/ /\ Live(page[p].run)
          /\ page[p].view = "hierarchy" \/ runs[page[p].run].state = "pending_tools"
          /\ Set(p, [page[p] EXCEPT !.stage = "refreshing", !.msgs = {}, !.groups = {}])
    /\ UNCHANGED <<logVars, created>>

\* A failed read shows nothing of what was read.  The page polls on after a refresh
\* that failed, but its one load is not retried.
LoadFails(p) ==
    /\ page[p].stage \in {"refreshing", "loading"} /\ page[p].reads = "messages"
    /\ Set(p, [page[p] EXCEPT !.stage = IF @ = "loading" THEN "missed" ELSE "polling"])
    /\ UNCHANGED <<logVars, created>>

\* handleChatSend: the run is created, and the fragment that comes back polls it
\* in place of whatever the page polled before.
Send(p, r) ==
    /\ page[p].stage \in {"still", "polling", "missed"}
    /\ Submit(r)
    /\ created' = Append(created, r)
    /\ Set(p, [page[p] EXCEPT !.stage = "polling", !.run = r, !.msgs = {}, !.groups = {}])

\* The same for a new session, whose page opens with the run in its URL.
SendNew(p, r) ==
    /\ page[p].stage = "closed" /\ created = <<>>
    /\ Submit(r)
    /\ created' = <<r>>
    /\ Set(p, [page[p] EXCEPT !.stage = "opening", !.run = r, !.url = r])

\* A step of the workers, of another client, or of a child's parent.
LogStep ==
    /\ LogNext
    /\ created' = created \o SetToSeq({r \in SessionRuns : runs[r].state = "none" /\ runs'[r].state # "none"})
    /\ UNCHANGED page

PageStep(p) ==
    \/ OpenPage(p) \/ ReadMessages(p) \/ ReadRuns(p) \/ FindPending(p)
    \/ PollRun(p) \/ LoadFails(p)
    \/ \E r \in Roots : Send(p, r) \/ SendNew(p, r)

ConsoleNext == LogStep \/ \E p \in Pages : PageStep(p)

ConsoleSpec == LogInit /\ ConsoleInit /\ [][ConsoleNext]_<<logVars, page, created>>

-----------------------------------------------------------------------------
(* Properties.                                                             *)

\* The last thing the run wrote, whole.
AnswerOf(r) == {m \in log : m.run = r /\ m.filled /\ \A n \in log : n.run = r => n.id <= m.id}

\* A page that has followed a root run to its completion shows its answer, with
\* its content (handlers.go:677, response.html:2), whatever other runs wrote
\* meanwhile, unless older messages fill the page.  A page that follows a child's
\* run, or none because the run ended while it opened, promises nothing.
ChatAnswerShown ==
    \A p \in Pages :
        LET r == page[p].run IN
        page[p].stage = "still" /\ r \in Roots /\ runs[r].state = "completed" =>
            \/ AnswerOf(r) # {} /\ AnswerOf(r) \subseteq page[p].msgs
            \/ Cardinality(page[p].msgs) = PageLimit
            \/ page[p].view = "hierarchy" /\ Cardinality(log) >= PageLimit

\* Every message the hierarchy view has read is in a group it shows, since a run
\* is there before its messages and the runs are read after them (messages.go:212,
\* 218), unless the session has more runs than are read.
HierarchyShowsAll ==
    \A p \in Pages :
        page[p].reads = "messages" /\ Len(created) <= RunLimit /\ page[p].view = "hierarchy"
            /\ page[p].stage \in {"finding", "polling", "still"}
        => \A m \in page[p].msgs : m.run \in page[p].groups
=============================================================================
