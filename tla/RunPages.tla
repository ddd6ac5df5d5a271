------------------------------- MODULE RunPages -------------------------------
(***************************************************************************)
(* The pages of the web UI that show one run, the conversation a run is    *)
(* part of, one tool execution, or one session.  Each is put together from *)
(* several statements while the run goes on, and is not read again.  What  *)
(* a secondary statement fails to bring is left out without a word.        *)
(***************************************************************************)
EXTENDS Console

CONSTANTS
    RecentRuns,     \* runs a session's page lists
    RecentMessages  \* messages it lists, the oldest of the session

ASSUME RecentAssumption == {RecentRuns, RecentMessages} \subseteq Nat \ {0}

VARIABLES
    sight,    \* such a page, as far as it is read
    partial   \* a statement of its reading failed

detailVars == <<sight, partial>>

DetailKinds == {"run", "talk", "call", "session"}
DetailStages == {"closed", "caller", "calls", "runs", "messages", "blocks", "children", "kids", "root", "tree",
                 "conversation", "shown", "refused"}

RunSummary == [run : SessionRuns, state : LiveStates \cup {"completed", "failed"}]

ToolExecutionSummary == [use : Uses, kid : Kids \cup {NoRun}]

MessageSummary == [id : Nat, blocks : SUBSET Blocks]

RunDetail ==
    [kind : DetailKinds, at : DetailStages, of : SessionRuns,
     heads : SUBSET RunSummary, calls : SUBSET ToolExecutionSummary,
     msgs : SUBSET MessageSummary, kids : SUBSET RunSummary, nodes : SUBSET SessionRuns,
     talk : SUBSET Message,
     unread : SUBSET Nat,          \* listed messages whose blocks are still to be read
     next : SUBSET SessionRuns]    \* runs still to be read

DetailTypeOK == sight \in RunDetail /\ partial \in BOOLEAN

DetailInit ==
    /\ partial = FALSE
    /\ \E kind \in DetailKinds, r \in SessionRuns :
          sight = [kind |-> kind, at |-> "closed", of |-> r, heads |-> {}, calls |-> {}, msgs |-> {},
                   kids |-> {}, nodes |-> {}, talk |-> {}, unread |-> {}, next |-> {}]

-----------------------------------------------------------------------------
(* What is read.                                                           *)

RunToSummary(r) == [run |-> r, state |-> runs[r].state]

GetToolExecutionsByRun(r) ==
    {[use |-> u, kid |-> calls[u].kid] : u \in {v \in Uses : calls[v].of = r
                                                              /\ calls[v].state \notin {"none", "asked"}}}

\* Only a child whose ID was stored by then.
ChildrenIn(E) == {e.kid : e \in E} \ {NoRun}

GetMessagesByRun(r) == {m.id : m \in {n \in log : n.run = r}}

\* Nothing, of a message whose blocks are not there yet or that is gone.
GetContentBlocks(id) == UNION {m.body : m \in {n \in log : n.id = id /\ n.filled}}

Goes(rec) == sight' = rec /\ UNCHANGED <<logVars, page, created>>

\* After the last block, and the last child.
AfterBlocks(S) == IF S # {} THEN "blocks" ELSE IF sight.kind = "session" THEN "conversation" ELSE "children"

AfterKids(S) ==
    CASE S # {} -> "kids"
      [] S = {} /\ sight.kind = "talk" -> "conversation"
      [] S = {} /\ sight.kind = "call" -> "shown"
      [] S = {} /\ sight.kind = "run" -> IF sight.of \in Roots THEN "root" ELSE "shown"

-----------------------------------------------------------------------------
(* A run's page, and the page of its conversation.                         *)

\* The run first: its state is what the page says of it.
OpenRun ==
    /\ sight.at = "closed" /\ sight.kind \in {"run", "talk"}
    /\ Goes(IF runs[sight.of].state = "none" THEN [sight EXCEPT !.at = "refused"]
            ELSE [sight EXCEPT !.at = "calls", !.heads = {RunToSummary(sight.of)}])
    /\ UNCHANGED partial

ReadCalls ==
    /\ sight.at = "calls"
    /\ Goes([sight EXCEPT !.at = "messages", !.calls = GetToolExecutionsByRun(sight.of)])
    /\ UNCHANGED partial

ReadRunMessages ==
    /\ sight.at = "messages" /\ sight.kind # "session"
    /\ LET ids == GetMessagesByRun(sight.of) IN
       Goes([sight EXCEPT !.at = AfterBlocks(ids), !.unread = ids])
    /\ UNCHANGED partial

\* One statement per message, in the order of the list.
ReadBlocks ==
    /\ sight.at = "blocks"
    /\ LET id == Min(sight.unread) IN
       Goes([sight EXCEPT !.at = AfterBlocks(sight.unread \ {id}), !.unread = @ \ {id},
                          !.msgs = @ \cup {[id |-> id, blocks |-> GetContentBlocks(id)]}])
    /\ UNCHANGED partial

\* The children of the executions read before; if there were none, they are read again.
ReadChildren ==
    /\ sight.at = "children"
    /\ LET kids == ChildrenIn(IF sight.calls = {} THEN GetToolExecutionsByRun(sight.of) ELSE sight.calls) IN
       Goes([sight EXCEPT !.at = AfterKids(kids), !.next = kids])
    /\ UNCHANGED partial

ReadKid ==
    /\ sight.at = "kids"
    /\ \E k \in sight.next :
          Goes([sight EXCEPT !.at = AfterKids(sight.next \ {k}), !.next = @ \ {k},
                             !.kids = @ \cup {RunToSummary(k)}])
    /\ UNCHANGED partial

\* GetRunHierarchy of a root run starts from the run itself.
ReadRoot ==
    /\ sight.at = "root"
    /\ Goes([sight EXCEPT !.at = "tree", !.next = {sight.of}])
    /\ UNCHANGED partial

BuildRunNode ==
    /\ sight.at = "tree"
    /\ \E r \in sight.next :
          LET kids == ChildrenIn(GetToolExecutionsByRun(r))
              left == (sight.next \ {r}) \cup kids IN
          Goes([sight EXCEPT !.at = IF left = {} THEN "shown" ELSE "tree", !.next = left,
                             !.nodes = @ \cup {r}])
    /\ UNCHANGED partial

-----------------------------------------------------------------------------
(* A tool execution's page.                                                *)

OpenCall ==
    /\ sight.at = "closed" /\ sight.kind = "call"
    /\ \E u \in Uses :
          LET row == {e \in UNION {GetToolExecutionsByRun(r) : r \in SessionRuns} : e.use = u} IN
          Goes(IF row = {} THEN [sight EXCEPT !.at = "refused"]
               ELSE [sight EXCEPT !.at = "caller", !.of = calls[u].of, !.calls = row])
    /\ UNCHANGED partial

\* Its run, and then the child run that was stored when the execution was read.
ReadCaller ==
    /\ sight.at = "caller"
    /\ LET kids == ChildrenIn(sight.calls) IN
       Goes([sight EXCEPT !.at = AfterKids(kids), !.next = kids, !.heads = {RunToSummary(sight.of)}])
    /\ UNCHANGED partial

-----------------------------------------------------------------------------
(* A session's page.                                                       *)

OpenSession ==
    /\ sight.at = "closed" /\ sight.kind = "session"
    /\ Goes([sight EXCEPT !.at = "runs"])
    /\ UNCHANGED partial

ReadSessionRuns ==
    /\ sight.at = "runs"
    /\ Goes([sight EXCEPT !.at = "messages", !.heads = {RunToSummary(r) : r \in Newest(RecentRuns)}])
    /\ UNCHANGED partial

\* GetMessages is in the order of created_at: the messages called recent are the first.
ReadSessionMessages ==
    /\ sight.at = "messages" /\ sight.kind = "session"
    /\ LET ids == {m.id : m \in {n \in log : Cardinality({o \in log : o.id < n.id}) < RecentMessages}} IN
       Goes([sight EXCEPT !.at = AfterBlocks(ids), !.unread = ids])
    /\ UNCHANGED partial

\* The conversation is read last, on both pages that have it.
ReadConversation ==
    /\ sight.at = "conversation"
    /\ Goes([sight EXCEPT !.at = "shown", !.talk = Conversation])
    /\ UNCHANGED partial

-----------------------------------------------------------------------------
(* Failed statements.                                                      *)

\* Only the first statement of a page, and a conversation asked for by itself, is an
\* error for the reader.  A message without its blocks is listed all the same.
StatementFails ==
    /\ partial' = TRUE
    /\ \/ sight.at = "closed" /\ Goes([sight EXCEPT !.at = "refused"])
       \/ /\ sight.at = "caller"
          /\ LET kids == ChildrenIn(sight.calls) IN
             Goes([sight EXCEPT !.at = AfterKids(kids), !.next = kids])
       \/ sight.at \in {"calls", "runs"} /\ Goes([sight EXCEPT !.at = "messages"])
       \/ sight.at = "messages" /\ Goes([sight EXCEPT !.at = AfterBlocks({})])
       \/ /\ sight.at = "blocks"
          /\ LET id == Min(sight.unread) IN
             Goes([sight EXCEPT !.at = AfterBlocks(sight.unread \ {id}), !.unread = @ \ {id},
                                !.msgs = @ \cup {[id |-> id, blocks |-> {}]}])
       \/ sight.at = "children" /\ Goes([sight EXCEPT !.at = AfterKids({})])
       \/ /\ sight.at = "kids"
          /\ \E k \in sight.next :
                Goes([sight EXCEPT !.at = AfterKids(sight.next \ {k}), !.next = @ \ {k}])
       \/ sight.at = "root" /\ Goes([sight EXCEPT !.at = "shown"])
       \/ /\ sight.at = "tree"
          /\ \E r \in sight.next, listed \in BOOLEAN :
                Goes([sight EXCEPT !.at = IF sight.next = {r} THEN "shown" ELSE "tree",
                                   !.next = @ \ {r},
                                   !.nodes = IF listed THEN @ \cup {r} ELSE @])
       \/ /\ sight.at = "conversation"
          /\ Goes([sight EXCEPT !.at = IF sight.kind = "talk" THEN "refused" ELSE "shown"])

DetailStep ==
    \/ OpenRun \/ ReadCalls \/ ReadRunMessages \/ ReadBlocks
    \/ ReadChildren \/ ReadKid \/ ReadRoot \/ BuildRunNode \/ OpenCall \/ ReadCaller
    \/ OpenSession \/ ReadSessionRuns \/ ReadSessionMessages \/ ReadConversation
    \/ StatementFails

DetailNext == DetailStep \/ (LogStep /\ UNCHANGED detailVars)

DetailSpec == LogInit /\ ConsoleInit /\ DetailInit /\ [][DetailNext]_<<logVars, page, created, detailVars>>

-----------------------------------------------------------------------------
(* Properties.                                                             *)

\* The run and all runs that were started for calls of its, of theirs, and so on.
Descend(S) == \A k \in Kids : runs[k].asks # NoUse /\ ParentOf(k) \in S => k \in S
Below(r) == {s \in SessionRuns : \A S \in SUBSET SessionRuns : r \in S /\ Descend(S) => s \in S}

\* A page that says a run is completed has its answer, though it read the run first
\* and the rest in later statements (runs.go:133, 199; sessions.go:101, 204): in the
\* list of the run's messages, with its blocks, and in the conversation, unless
\* older messages fill that.  The children it lists are the run's own, be it that of
\* an execution's page, and are in the tree it draws, which has no others.  Only a
\* failed statement leaves any out.
DetailsAgree ==
    sight.at = "shown" /\ ~partial =>
        /\ \A h \in sight.heads : h.state = "completed" =>
              /\ sight.kind \in {"run", "talk"} =>
                    \E m \in AnswerOf(h.run) : [id |-> m.id, blocks |-> m.body] \in sight.msgs
              /\ sight.kind \in {"talk", "session"} /\ h.run \in Roots =>
                    \/ AnswerOf(h.run) # {} /\ AnswerOf(h.run) \subseteq sight.talk
                    \/ Cardinality(sight.talk) = PageLimit
        /\ \A k \in sight.kids : sight.of \in Roots /\ sight.kind = "run" => k.run \in sight.nodes
        /\ \A k \in sight.kids : ParentOf(k.run) = sight.of
        /\ sight.nodes \subseteq Below(sight.of)

\* No page of the UI hides the answer of a run it shows as completed, be it a chat
\* page that followed the run or one put together afterwards.
AnswerShown == ChatAnswerShown /\ DetailsAgree
=============================================================================
