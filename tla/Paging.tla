--------------------------------- MODULE Paging ---------------------------------
(***************************************************************************)
(* The session and run lists of the web UI, newest first, page by page: a  *)
(* page is a COUNT and a SELECT with LIMIT and OFFSET, and the user        *)
(* follows the Next link until there is none, while rows come and go.      *)
(***************************************************************************)
EXTENDS Naturals, Sequences, FiniteSets, SequencesExt

CONSTANTS
    Rows,          \* sessions or runs
    Own,           \* those of the session a run list may be narrowed to
    AskedLimits,   \* what the limit parameter may say
    MaxPageLimit

ASSUME PagingAssumption == MaxPageLimit \in Nat \ {0} /\ AskedLimits \subseteq Nat /\ Own \subseteq Rows

VARIABLES
    rows,   \* the table, in the order of created_at DESC
    gone,   \* rows that were deleted, or left the state the list is filtered by
    walk    \* how far the user has come, and what happened meanwhile

pagingVars == <<rows, gone, walk>>

PagingTypeOK ==
    /\ rows \in Seq(Rows)
    /\ \A i, j \in DOMAIN rows : rows[i] = rows[j] => i = j
    /\ gone \subseteq Rows /\ gone \cap ToSet(rows) = {}
    /\ walk \in [at : {"count", "rows", "ended"}, narrow : BOOLEAN, limit : 1 .. MaxPageLimit,
                 offset : Nat, total : Nat, seen : SUBSET Rows, due : SUBSET Rows, torn : BOOLEAN]

\* Mutant of ValidateLimit: no upper bound, and 0 is let through.
ValidateLimitBelow(n) == IF n < 0 THEN 1 ELSE n

ValidateLimit(n) == IF n < 1 THEN 1 ELSE IF n > MaxPageLimit THEN MaxPageLimit ELSE n

\* The places of the list in the table: of all rows, or "View all runs" of one session.
Listed(narrow) == {i \in DOMAIN rows : narrow => rows[i] \in Own}

PagingInit ==
    /\ \E first \in SUBSET Rows : IsFiniteSet(first) /\ rows \in SetToSeqs(first)
    /\ gone = {}
    /\ \E asked \in AskedLimits, n \in BOOLEAN :
          walk = [at |-> "count", narrow |-> n, limit |-> ValidateLimit(asked), offset |-> 0,
                  total |-> 0, seen |-> {}, due |-> {rows[i] : i \in Listed(n)}, torn |-> FALSE]

CreateRow(x) ==
    /\ x \notin ToSet(rows) \cup gone
    /\ rows' = <<x>> \o rows
    /\ walk' = [walk EXCEPT !.torn = @ \/ walk.at = "rows"]
    /\ UNCHANGED gone

RemoveRow(x) ==
    /\ \E i \in DOMAIN rows : rows[i] = x /\ rows' = RemoveAt(rows, i)
    /\ gone' = gone \cup {x}
    /\ UNCHANGED walk

-----------------------------------------------------------------------------
(* One request.  The links carry the offset, the limit and the filter by   *)
(* state, but not the session: only the first page is narrowed to it.      *)

Wanted == Listed(walk.narrow /\ walk.offset = 0)

CountRows ==
    /\ walk.at = "count"
    /\ walk' = [walk EXCEPT !.at = "rows", !.total = Cardinality(Wanted), !.torn = FALSE]
    /\ UNCHANGED <<rows, gone>>

\* Mutant of HasMore: the last row of a page is counted twice.
HasMoreLess(offset, n, total) == offset + n + 1 < total

HasMore(offset, n, total) == offset + n < total

CurrentPage(offset, limit) == offset \div limit + 1

\* LIMIT and OFFSET.
SelectRows ==
    /\ walk.at = "rows"
    /\ LET got == {i \in Wanted : Cardinality({j \in Wanted : j < i})
                                      \in walk.offset .. walk.offset + walk.limit - 1}
           more == HasMore(walk.offset, Cardinality(got), walk.total)
       IN walk' = [walk EXCEPT !.seen = @ \cup {rows[i] : i \in got},
                               !.at = IF more THEN "count" ELSE "ended",
                               !.offset = IF more THEN CurrentPage(@, walk.limit) * walk.limit ELSE @]
    /\ UNCHANGED <<rows, gone>>

PagingNext ==
    \/ walk.at # "ended" /\ \E x \in Rows : CreateRow(x) \/ RemoveRow(x)
    \/ CountRows \/ SelectRows

PagingSpec == PagingInit /\ [][PagingNext]_pagingVars

-----------------------------------------------------------------------------
(* Properties.                                                             *)

\* Who follows the Next links to the end has seen every row that was there at the
\* beginning, however many rows were created meanwhile (they move the others to
\* later pages, never to earlier ones; runs.go:54), unless one was created between
\* the count and the rows of the last page, a row left the list, or a list narrowed
\* to a session went on to a second page.
WalkComplete ==
    walk.at = "ended" /\ gone = {} /\ ~walk.torn /\ (walk.narrow => walk.offset = 0)
        => walk.due \subseteq walk.seen
=============================================================================
