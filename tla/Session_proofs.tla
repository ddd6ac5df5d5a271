---------------------------- MODULE Session_proofs ----------------------------
(***************************************************************************)
(* Proofs about Catalog, for any number of agents, names and callers, and  *)
(* about MCSession: each part of it behaves as that part's own module      *)
(* says, so what the other proof modules say of the parts is so of the     *)
(* whole.                                                                  *)
(***************************************************************************)
EXTENDS WebUI_proofs, MCSession

-----------------------------------------------------------------------------
(* The catalogue: its inductive invariant.                                 *)

\* No two rows have one definition: the UNIQUE constraint, kept by every statement.
Unique == \A a, b \in DOMAIN agents : agents[a] = agents[b] => a = b

Table == agents \in [DOMAIN agents -> Definition] /\ DOMAIN agents \subseteq AgentIds /\ Unique

\* The callers and the turn, apart from the table.
Parties ==
    /\ driver \in Drivers
    /\ app \in [Apps -> [at : {"look", "insert", "done", "error"}, def : Definition,
                         got : AgentIds \cup {NoAgent}]]
    /\ turn \in [at : {"idle", "offered", "asked", "settled", "delegated", "refused"},
                 offers : SUBSET Offer, call : Offer, agent : AgentIds \cup {NoAgent}]

CatalogInv == Table /\ Parties

-----------------------------------------------------------------------------
(* One lemma for each part.                                                *)

\* A row that is inserted, or replaced by another that is not taken.
LEMMA WithTable ==
    ASSUME Table, NEW a \in AgentIds, NEW def \in Definition,
           ~Taken(def, DOMAIN agents \ {a}), agents' = With(a, def)
    PROVE  Table'
  BY DEF Table, Unique, Taken, With

\* Every step keeps the table's rows apart.
LEMMA TableStep ==
    ASSUME Table, Parties, [CatalogNext]_catalogVars
    PROVE  Table'
<1>1. CASE UNCHANGED agents
  BY <1>1 DEF Table, Unique
<1>2. CASE CreateAgent
  BY <1>2, WithTable DEF CreateAgent, Insertable, Taken
<1>3. ASSUME NEW a \in AgentIds, UpdateAgent(a) PROVE Table'
  BY <1>3, WithTable DEF UpdateAgent
<1>4. ASSUME NEW a \in AgentIds, DeleteAgent(a) PROVE Table'
  BY <1>4 DEF DeleteAgent, Table, Unique
<1>5. ASSUME NEW c \in Apps, InsertAgent(c), ~UNCHANGED agents PROVE Table'
  <2>1. PICK a \in AgentIds : Insertable(a, app[c].def) /\ agents' = With(a, app[c].def)
    BY <1>5 DEF InsertAgent
  <2>2. app[c].def \in Definition
    BY DEF Parties
  <2> QED
    BY <2>1, <2>2, WithTable DEF Insertable, Taken
<1> QED
  BY <1>1, <1>2, <1>3, <1>4, <1>5
     DEF CatalogNext, catalogVars, BuildTools, AskFor, BuildToolParams, CreateChild, LookUp

\* Every step keeps the types of the callers and the turn.
LEMMA PartiesStep ==
    ASSUME Table, Parties, [CatalogNext]_catalogVars
    PROVE  Parties'
<1> USE DEF Parties
<1>1. CASE UNCHANGED <<driver, app, turn>>
  BY <1>1
<1>2. ASSUME NEW c \in Apps, LookUp(c) PROVE Parties'
  BY <1>2 DEF LookUp, Matches, Table
<1>3. ASSUME NEW c \in Apps, InsertAgent(c) PROVE Parties'
  BY <1>3 DEF InsertAgent
<1>4. CASE BuildTools
  <2> DEFINE offers == {[name |-> n, of |-> NoAgent] : n \in OwnTools}
                       \cup {[name |-> agents[a].name, of |-> a] : a \in Helpers \cap DOMAIN agents}
  <2>1. offers \in SUBSET Offer
    BY CatalogAssumption DEF Offer, Table, Definition
  <2>2. turn' = [turn EXCEPT !.at = "offered", !.offers = offers]
    BY <1>4 DEF BuildTools
  <2> HIDE DEF offers
  <2> QED
    BY <1>4, <2>1, <2>2 DEF BuildTools
<1>5. CASE AskFor
  BY <1>5 DEF AskFor
<1>6. CASE BuildToolParams
  <2>1. PICK a \in AgentIds \cup {NoAgent} :
          turn' = [turn EXCEPT !.at = "settled", !.agent = a]
    BY <1>6 DEF BuildToolParams, Matches, Table
  <2> QED
    BY <1>6, <2>1 DEF BuildToolParams
<1>7. CASE CreateChild
  BY <1>7 DEF CreateChild
<1> QED
  BY <1>1, <1>2, <1>3, <1>4, <1>5, <1>6, <1>7
     DEF CatalogNext, catalogVars, CreateAgent, UpdateAgent, DeleteAgent

-----------------------------------------------------------------------------
(* Theorems about the catalogue.                                           *)

\* The inductive invariant holds however callers race and agents are renamed, created
\* and deleted between the statements of a turn.
THEOREM CatalogInvHolds == CatalogSpec => []CatalogInv
<1>1. CatalogInit => CatalogInv
  <2> SUFFICES ASSUME CatalogInit PROVE CatalogInv
    OBVIOUS
  <2>1. Table
    BY DEF CatalogInit, Table, Unique
  <2>2. NoOffer \in Offer
    BY CatalogAssumption DEF NoOffer, Offer
  <2>3. Parties
    BY <2>2 DEF CatalogInit, Parties
  <2> QED
    BY <2>1, <2>3 DEF CatalogInv
<1>2. CatalogInv /\ [CatalogNext]_catalogVars => CatalogInv'
  BY TableStep, PartiesStep DEF CatalogInv
<1> QED
  BY <1>1, <1>2, PTL DEF CatalogSpec

\* A call of GetOrCreateAgent whose look-up finds nothing finds no row in its way
\* (client.go:261-286), in both drivers and for every metadata.
THEOREM CallersFindTheirs == CatalogSpec => MissIsFree
<1>1. ASSUME [CatalogNext]_catalogVars, NEW c \in Apps, app[c].at = "look", app'[c].at = "insert",
             app \in [Apps -> [at : {"look", "insert", "done", "error"}, def : Definition,
                               got : AgentIds \cup {NoAgent}]]
      PROVE  ~Taken(app[c].def, DOMAIN agents)
  <2>1. LookUp(c)
    BY <1>1 DEF CatalogNext, catalogVars, CreateAgent, UpdateAgent, DeleteAgent, LookUp, InsertAgent,
                BuildTools, AskFor, BuildToolParams, CreateChild
  <2>2. Matches(app[c].def.name, app[c].def.meta) = {}
    BY <1>1, <2>1 DEF LookUp
  <2>3. \A pairs : Within(pairs, pairs)
    BY DEF Within
  <2> QED
    BY <2>2, <2>3 DEF Taken, Matches
<1>2. CatalogInv /\ [CatalogNext]_catalogVars =>
        [\A c \in Apps :
           app[c].at = "look" /\ app'[c].at = "insert" => ~Taken(app[c].def, DOMAIN agents)]_catalogVars
  BY <1>1 DEF CatalogInv, Parties
<1> QED
  BY <1>2, CatalogInvHolds, PTL DEF CatalogSpec, MissIsFree

-----------------------------------------------------------------------------
(* The parts side by side.                                                 *)

\* The part that moves is chosen once.
LEMMA PartStays == ASSUME [SessionNext]_sessionVars PROVE part' = part
  BY DEF SessionNext, sessionVars

\* What is not the part's stays as it is.
LEMMA OthersStay ==
    ASSUME [SessionNext]_sessionVars
    PROVE  /\ part \notin {"page", "detail"} => UNCHANGED <<page, created, sight, partial>>
           /\ part # "agents" => UNCHANGED catalogVars
           /\ part # "lists" => UNCHANGED pagingVars
           /\ part # "fleet" => UNCHANGED <<memberVars, adminVars>>
  BY DEF SessionNext, sessionVars, consoleVars, detailVars, fleetVars

\* To the agents a step of the whole is one of theirs or none (client.go:261-286).
THEOREM SessionHasCatalog == SessionSpec => CatalogSpec
<1>1. SessionInit => CatalogInit
  BY DEF SessionInit
<1>2. [SessionNext]_sessionVars => [CatalogNext]_catalogVars
  BY OthersStay DEF SessionNext, sessionVars
<1> QED
  BY <1>1, <1>2, PTL DEF SessionSpec, CatalogSpec

\* So it is to the lists (runs.go:54),
THEOREM SessionHasLists == SessionSpec => PagingSpec
<1>1. SessionInit => PagingInit
  BY DEF SessionInit
<1>2. [SessionNext]_sessionVars => [PagingNext]_pagingVars
  BY OthersStay DEF SessionNext, sessionVars
<1> QED
  BY <1>1, <1>2, PTL DEF SessionSpec, PagingSpec

\* to the instances with their pages (agents.go:117, instances.go:66),
THEOREM SessionHasFleet == SessionSpec => AdminSpec
<1>1. SessionInit => MemberInit /\ AdminInit
  BY DEF SessionInit
<1>2. [SessionNext]_sessionVars => [AdminNext]_<<memberVars, adminVars>>
  <2> SUFFICES ASSUME [SessionNext]_sessionVars, part = "fleet" PROVE [AdminNext]_<<memberVars, adminVars>>
    BY OthersStay
  <2>1. CASE UNCHANGED sessionVars
    BY <2>1 DEF sessionVars, fleetVars
  <2>2. CASE SessionNext
    BY <2>2 DEF SessionNext
  <2> QED
    BY <2>1, <2>2
<1> QED
  BY <1>1, <1>2, PTL DEF SessionSpec, AdminSpec

\* and, where it is they that move, to the pages that show the session (handlers.go:677,
\* runs.go:133).
THEOREM SessionHasPages == SessionSpec /\ part \in {"page", "detail"} => PagesSpec
<1>1. SessionInit => LogInit /\ ConsoleInit /\ DetailInit
  BY DEF SessionInit
<1>2. part \in {"page", "detail"} /\ [SessionNext]_sessionVars => (part \in {"page", "detail"})'
  BY PartStays
<1>3. part \in {"page", "detail"} /\ [SessionNext]_sessionVars =>
        [PagesNext]_<<logVars, page, created, detailVars>>
  BY DEF SessionNext, PagesNext, sessionVars, consoleVars
<1> QED
  BY <1>1, <1>2, <1>3, PTL DEF SessionSpec, PagesSpec

\* Where it is others that move, no page is open.
NoPage == part \notin {"page", "detail"} /\ (\A p \in Pages : page[p].stage = "closed") /\ sight.at = "closed"

LEMMA NoPageStays == SessionSpec /\ part \notin {"page", "detail"} => []NoPage
<1>1. SessionInit /\ part \notin {"page", "detail"} => NoPage
  BY DEF SessionInit, ConsoleInit, DetailInit, NoPage
<1>2. NoPage /\ [SessionNext]_sessionVars => NoPage'
  <2> SUFFICES ASSUME NoPage, [SessionNext]_sessionVars PROVE NoPage'
    OBVIOUS
  <2> QED
    BY PartStays, OthersStay DEF NoPage
<1> QED
  BY <1>1, <1>2, PTL DEF SessionSpec

\* What the pages rely on, where there are any.
LEMMA PagesOrNone == SessionSpec => [](PagesInv \/ NoPage)
<1>1. (part \in {"page", "detail"}) \/ (part \notin {"page", "detail"})
  OBVIOUS
<1> QED
  BY <1>1, SessionHasPages, PagesInvHolds, NoPageStays, PTL

\* To the conversation and its compactions the pages are clients that create runs, and
\* readers: nothing else they do is seen there (compaction.go:229-348).
THEOREM SessionHasCompaction == SessionSpec => CompSpec
<1>1. SessionInit => LogInit /\ CompInit
  BY DEF SessionInit
<1>2. (PagesInv \/ NoPage) /\ [SessionNext]_sessionVars => [CompNext]_<<logVars, compVars>>
  <2> SUFFICES ASSUME PagesInv \/ NoPage, [SessionNext]_sessionVars
               PROVE  [CompNext]_<<logVars, compVars>>
    OBVIOUS
  <2>1. ASSUME part \in {"page", "detail"}, [LogNext]_logVars, UNCHANGED compVars
        PROVE  [CompNext]_<<logVars, compVars>>
    BY <2>1 DEF CompNext
  <2>2. CASE part = "page" /\ ConsoleNext /\ UNCHANGED compVars
    <3>1. RunsOK
      BY <2>2 DEF NoPage, PagesInv, ConsoleInv, SessionInv
    <3> QED
      BY <2>1, <2>2, <3>1, ConsoleLog
  <2>3. CASE part = "detail" /\ DetailNext /\ UNCHANGED compVars
    <3>1. CASE DetailStep
      <4>1. DetailInv /\ SessionInv /\ RunsListed
        BY <2>3 DEF NoPage, PagesInv, ConsoleInv
      <4>2. UNCHANGED logVars
        BY <3>1, <4>1, DetailStepFits, Zenon
      <4> QED
        BY <2>1, <2>3, <4>2
    <3> QED
      BY <2>1, <2>3, <3>1 DEF DetailNext, LogStep
  <2> QED
    BY <2>2, <2>3 DEF SessionNext, sessionVars, CompNext
<1> QED
  BY <1>1, <1>2, PagesOrNone, PTL DEF SessionSpec, CompSpec

\* Type correctness of the whole.
THEOREM SessionTypeCorrect == SessionSpec => []SessionTypeOK
<1>1. CatalogInv => CatalogTypeOK
  BY DEF CatalogInv, Table, Parties, CatalogTypeOK
<1>2. FleetInv => MemberTypeOK /\ AdminTypeOK
  BY DEF FleetInv, KeysOK
<1>3. PagesInv \/ NoPage => (part \in {"page", "detail"} => ConsoleTypeOK /\ DetailTypeOK)
  BY ConsoleShows, DetailShows DEF PagesInv, ConsoleInv, NoPage
<1>4. CompTypeOK /\ CatalogTypeOK /\ PagingTypeOK /\ MemberTypeOK /\ AdminTypeOK
      /\ (part \in {"page", "detail"} => ConsoleTypeOK /\ DetailTypeOK) => SessionTypeOK
  BY DEF SessionTypeOK
<1> QED
  BY <1>1, <1>2, <1>3, <1>4, SessionHasCatalog, CatalogInvHolds, SessionHasFleet, FleetInvHolds,
     SessionHasLists, PagingTypeCorrect, SessionHasCompaction, CompTypeCorrect, PagesOrNone, PTL

\* All that is checked of the whole, for every value of its constants.
THEOREM SessionIsSafe ==
    SessionSpec =>
        /\ [](RequestPaired /\ NothingLost /\ NothingForgotten)
        /\ [](AnswerShown /\ HierarchyShowsAll)
        /\ [](WalkComplete /\ FleetShown)
        /\ DeletesOldOnly /\ MissIsFree
<1>1. PagesInv \/ NoPage => AnswerShown /\ HierarchyShowsAll
  BY ConsoleShows, DetailShows
     DEF PagesInv, ConsoleInv, NoPage, AnswerShown, ChatAnswerShown, DetailsAgree, HierarchyShowsAll
<1> QED
  BY <1>1, PagesOrNone, SessionHasCompaction, RequestsArePaired, MessagesKept, MessagesTold, OnlyOldDeleted,
     SessionHasCatalog, CallersFindTheirs, SessionHasLists, WalkIsComplete,
     SessionHasFleet, FleetIsShown, PTL
=============================================================================
