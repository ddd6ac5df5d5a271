------------------------------- MODULE MCSession -------------------------------
(***************************************************************************)
(* A session with runs of clients and of agents' calls, as its workers,    *)
(* the compactions, a chat page and the pages of a run, an execution and   *)
(* the session see it.  Beside it the agents, the lists, and the pages of  *)
(* agents and instances, which share no variable with it.  A behaviour has *)
(* the steps of one part, chosen at its start.                             *)
(***************************************************************************)
EXTENDS Compaction, RunPages, Catalog, Paging, AdminPages

CONSTANTS r1, r2, k1, k2, u1, u2, call1, p1, a1, a2, n1, n2, t1, c1, c2, x1, x2, x3, m1, m2

VARIABLE part

consoleVars == <<page, created>>
fleetVars == <<memberVars, adminVars>>
sessionVars == <<logVars, compVars, consoleVars, detailVars, catalogVars, pagingVars, fleetVars, part>>

-----------------------------------------------------------------------------
(* Bounds.                                                                 *)

\* Agents call agents only where a page shows them.
Flat == runs'[k2].state = "none"

\* Two tools at once, or two runs of clients, but not both.
ToolsOrRuns == Flat /\ (calls'[u2].state # "none" => runs'[r2].state = "none")

\* With compactions, one client's run and one tool use, and a failed statement, a
\* message that is preserved, or both, or an agent's run.
OneRun ==
    /\ Flat /\ runs'[r2].state = "none" /\ calls'[u2].state = "none"
    /\ faults' = 0 \/ runs'[k1].state = "none"
    /\ runs'[k1].state = "none" \/ \A m \in log' : ~m.kept

\* With a page, another client's run, or a tool use, be it of an agent.
OneOther ==
    /\ Flat /\ calls'[u2].state = "none"
    /\ runs'[r2].state = "none" \/ calls'[u1].state = "none"

\* With a page of details, one client's run, whose agents may call agents.
Nested ==
    /\ runs'[r2].state = "none" /\ calls'[u2].of # r1 /\ calls'[u1].of # k1
    /\ partial' => calls'[u2].state = "none"
    /\ (\E r \in SessionRuns : runs'[r].state = "failed") => ~partial' /\ runs'[k2].state = "none"
    /\ sight.kind # "run" => runs'[k2].state = "none"

\* The applications that race use one name; the run's turn is taken without them.
OneAtATime ==
    turn'.at # "idle" => \A c \in Apps : app'[c].at = "look" /\ app'[c].def.meta = {}

\* With a page of the instances, no rescuers, which have no part in what instances
\* can do, a leader only where it is shown (rows go by Stop without one), and while it is
\* open no other than the instance that stays up, and no change after a failed statement.
FewLoops ==
    /\ sweep' = {}
    /\ sheet.kind = "agents" => lease'.holder = Nobody
    /\ sheet'.at # "closed" => life[m1] = "up" /\ lease'.holder # m2
    /\ gaps => UNCHANGED memberVars

-----------------------------------------------------------------------------
SessionInit ==
    /\ part \in {"talk", "compaction", "page", "detail", "agents", "lists", "fleet"}
    /\ LogInit /\ CompInit
    /\ ConsoleInit
    /\ part # "page" => \A p \in Pages : page[p].view = "top-level"
    /\ DetailInit
    /\ sight.of \in (IF part = "detail" /\ sight.kind = "run" THEN {r1, k1} ELSE {r1})
    /\ part # "detail" => sight.kind = "run"
    /\ CatalogInit
    /\ \A c \in Apps : app[c].def.name = n1 /\ (part # "agents" => app[c].def.meta = {})
    /\ part # "agents" => driver = "pgx"
    /\ PagingInit
    /\ part # "lists" => rows = <<>> /\ walk.limit = 1 /\ ~walk.narrow
    /\ MemberInit /\ AdminInit
    /\ part # "fleet" => sheet.kind = "agents" /\ sheet.needs

SessionNext ==
    /\ UNCHANGED part
    /\ \/ /\ part = "talk" /\ LogNext /\ ToolsOrRuns
          /\ UNCHANGED <<compVars, consoleVars, detailVars, catalogVars, pagingVars, fleetVars>>
       \/ /\ part = "compaction" /\ CompNext /\ OneRun
          /\ UNCHANGED <<consoleVars, detailVars, catalogVars, pagingVars, fleetVars>>
       \/ /\ part = "page" /\ ConsoleNext /\ OneOther
          /\ UNCHANGED <<compVars, detailVars, catalogVars, pagingVars, fleetVars>>
       \/ /\ part = "detail" /\ DetailNext /\ Nested
          /\ UNCHANGED <<compVars, catalogVars, pagingVars, fleetVars>>
       \/ /\ part = "agents" /\ CatalogNext /\ OneAtATime
          /\ UNCHANGED <<logVars, compVars, consoleVars, detailVars, pagingVars, fleetVars>>
       \/ /\ part = "lists" /\ PagingNext
          /\ UNCHANGED <<logVars, compVars, consoleVars, detailVars, catalogVars, fleetVars>>
       \/ /\ part = "fleet" /\ AdminNext /\ FewLoops
          /\ UNCHANGED <<logVars, compVars, consoleVars, detailVars, catalogVars, pagingVars>>

SessionSpec == SessionInit /\ [][SessionNext]_sessionVars

\* Every variable has its type.
SessionTypeOK ==
    /\ CompTypeOK /\ CatalogTypeOK /\ PagingTypeOK /\ MemberTypeOK /\ AdminTypeOK
    /\ part \in {"page", "detail"} => ConsoleTypeOK /\ DetailTypeOK
=============================================================================
