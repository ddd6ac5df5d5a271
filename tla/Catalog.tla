-------------------------------- MODULE Catalog --------------------------------
(***************************************************************************)
(* The agents in the database and the names they go by: applications that  *)
(* get or create an agent, update and delete agents, and a run that offers *)
(* tools and agents to the model, which answers with a name.  Offered by   *)
(* ID, an agent is found again by its name.                                *)
(***************************************************************************)
EXTENDS Naturals, FiniteSets

CONSTANTS
    AgentIds,    \* IDs that agents may get
    Names,       \* names of agents and of tools
    Tags,        \* key-value pairs of metadata
    NoTag,       \* what JSON null has in place of pairs
    OwnTools,    \* tool_names of the run's agent that its client has registered
    Helpers,     \* agent_ids of the run's agent
    Apps,        \* calls of GetOrCreateAgent
    Drivers,     \* "pgx", "sql": the stores to be checked
    NoAgent

ASSUME CatalogAssumption ==
    /\ Names # {} /\ NoTag \notin Tags /\ NoAgent \notin AgentIds
    /\ OwnTools \subseteq Names /\ Helpers \subseteq AgentIds
    /\ Drivers \subseteq {"pgx", "sql"}

VARIABLES
    agents,   \* agentpg_agents: the rows, by ID
    driver,   \* which store is used
    app,      \* the calls of GetOrCreateAgent
    turn      \* the run: what it offered, what was asked for, what came of it

catalogVars == <<agents, driver, app, turn>>

\* A nil map is written as JSON null.
Null == {NoTag}
Metadata == (SUBSET Tags) \cup {Null}
Definition == [name : Names, meta : Metadata]
Offer == [name : Names, of : AgentIds \cup {NoAgent}]
NoOffer == [name |-> CHOOSE n \in Names : TRUE, of |-> NoAgent]

CatalogTypeOK ==
    /\ DOMAIN agents \subseteq AgentIds
    /\ \A a \in DOMAIN agents : agents[a] \in Definition
    /\ driver \in Drivers
    /\ app \in [Apps -> [at : {"look", "insert", "done", "error"}, def : Definition,
                         got : AgentIds \cup {NoAgent}]]
    /\ turn \in [at : {"idle", "offered", "asked", "settled", "delegated", "refused"},
                 offers : SUBSET Offer, call : Offer, agent : AgentIds \cup {NoAgent}]

CatalogInit ==
    /\ agents = [a \in {} |-> NoOffer]
    /\ driver \in Drivers
    /\ app \in [Apps -> [at : {"look"}, def : Definition, got : {NoAgent}]]
    /\ turn = [at |-> "idle", offers |-> {}, call |-> NoOffer, agent |-> NoAgent]

-----------------------------------------------------------------------------
(* The store.                                                              *)

\* Mutant of Within: a nil map is passed as NULL, which nothing contains.
WithinPairs(part, meta) == part # Null /\ part \subseteq meta

\* metadata @> part
Within(part, meta) == IF meta = Null THEN part = Null ELSE part # Null /\ part \subseteq meta

\* GetAgentByName: any row that matches.  pgx asks for the name only where the
\* metadata is nil or empty; database/sql asks for JSON null where it is nil.
Matches(name, meta) ==
    {a \in DOMAIN agents :
        /\ agents[a].name = name
        /\ (driver = "pgx" /\ meta \in {Null, {}}) \/ Within(meta, agents[a].meta)}

\* UNIQUE (name, metadata)
Taken(def, others) == \E a \in others : agents[a] = def

Insertable(a, def) == a \notin DOMAIN agents /\ ~Taken(def, DOMAIN agents)

With(a, def) == [b \in DOMAIN agents \cup {a} |-> IF b = a THEN def ELSE agents[b]]

-----------------------------------------------------------------------------
(* Applications.                                                           *)

LookUp(c) ==
    /\ app[c].at = "look"
    /\ LET found == Matches(app[c].def.name, app[c].def.meta) IN
       IF found = {}
       THEN app' = [app EXCEPT ![c].at = "insert"]
       ELSE \E a \in found : app' = [app EXCEPT ![c].at = "done", ![c].got = a]
    /\ UNCHANGED <<agents, driver, turn>>

\* The row may have come in the meantime: the caller gets the constraint's error.
InsertAgent(c) ==
    /\ app[c].at = "insert"
    /\ IF Taken(app[c].def, DOMAIN agents)
       THEN /\ app' = [app EXCEPT ![c].at = "error"]
            /\ UNCHANGED agents
       ELSE \E a \in AgentIds :
               /\ Insertable(a, app[c].def)
               /\ agents' = With(a, app[c].def)
               /\ app' = [app EXCEPT ![c].at = "done", ![c].got = a]
    /\ UNCHANGED <<driver, turn>>

\* CreateAgent on its own.
CreateAgent ==
    /\ \E a \in AgentIds, def \in Definition : Insertable(a, def) /\ agents' = With(a, def)
    /\ UNCHANGED <<driver, app, turn>>

UpdateAgent(a) ==
    /\ a \in DOMAIN agents
    /\ \E def \in Definition :
          /\ def # agents[a] /\ ~Taken(def, DOMAIN agents \ {a})
          /\ agents' = With(a, def)
    /\ UNCHANGED <<driver, app, turn>>

\* Refused while a run refers to the agent: a foreign key.
DeleteAgent(a) ==
    /\ a \in DOMAIN agents
    /\ ~(turn.at = "delegated" /\ turn.agent = a)
    /\ agents' = [b \in DOMAIN agents \ {a} |-> agents[b]]
    /\ UNCHANGED <<driver, app, turn>>

-----------------------------------------------------------------------------
(* One turn of a run.                                                      *)

\* buildTools: the registered tools, and the agents that exist, by ID.
BuildTools ==
    /\ turn.at = "idle"
    /\ turn' = [turn EXCEPT !.at = "offered",
                            !.offers = {[name |-> n, of |-> NoAgent] : n \in OwnTools}
                                       \cup {[name |-> agents[a].name, of |-> a]
                                             : a \in Helpers \cap DOMAIN agents}]
    /\ UNCHANGED <<agents, driver, app>>

\* The model answers; where two offers have one name, it means one of them.
AskFor ==
    /\ turn.at = "offered"
    /\ \E o \in turn.offers : turn' = [turn EXCEPT !.at = "asked", !.call = o]
    /\ UNCHANGED <<agents, driver, app>>

\* buildToolParams: any agent of that name makes it an agent's call.
BuildToolParams ==
    /\ turn.at = "asked"
    /\ LET found == Matches(turn.call.name, Null) IN
       \E a \in (IF found = {} THEN {NoAgent} ELSE found) :
          turn' = [turn EXCEPT !.at = "settled", !.agent = a]
    /\ UNCHANGED <<agents, driver, app>>

\* executeAgentTool: the child run needs its agent, or the call fails.
CreateChild ==
    /\ turn.at = "settled" /\ turn.agent # NoAgent
    /\ turn' = [turn EXCEPT !.at = IF turn.agent \in DOMAIN agents THEN "delegated" ELSE "refused"]
    /\ UNCHANGED <<agents, driver, app>>

CatalogNext ==
    \/ CreateAgent \/ BuildTools \/ AskFor \/ BuildToolParams \/ CreateChild
    \/ \E a \in AgentIds : UpdateAgent(a) \/ DeleteAgent(a)
    \/ \E c \in Apps : LookUp(c) \/ InsertAgent(c)

CatalogSpec == CatalogInit /\ [][CatalogNext]_catalogVars

-----------------------------------------------------------------------------
(* Properties.                                                             *)

\* Where the look-up of GetOrCreateAgent finds nothing (client.go:261-286), no row
\* stands in the way of the insert, whichever store is used and whatever the metadata,
\* nil, empty or not: a call fails only if another statement came in between.
MissIsFree ==
    [][\A c \in Apps :
          app[c].at = "look" /\ app'[c].at = "insert" => ~Taken(app[c].def, DOMAIN agents)]_catalogVars
=============================================================================
