----------------------------- MODULE Application -----------------------------
(***************************************************************************)
(* The composition root (bootstrap.py) and the two registries it wires: of *)
(* logical tools (ToolRegistry) and of agents by route (AgentRegistry).    *)
(* A caller may hand over registries of its own, and goes on registering   *)
(* in any registry it can reach, before and after an application is built; *)
(* agents that use tools (ToolEnabledAgent) are bound to a registry once   *)
(* and invoke their tools later.                                           *)
(*                                                                         *)
(* A registry is a function from the names registered to what was          *)
(* registered.  Shared is the registry of the caller; the registries an    *)
(* application builds for itself bear its name.                            *)
(***************************************************************************)
EXTENDS Integers, Sequences, FiniteSets

CONSTANTS
    Applications,  \* names of the applications a process may build
    Shared,        \* the caller's own registries
    Capabilities,  \* CapabilityName: the tools every application needs
    Routes,        \* AgentRoute without finish: the agents it needs
    OtherNames,    \* further well-formed names
    Malformed,     \* a name that is refused wherever it is used
    Provided,      \* what the caller registers: adapters and agents
    NoAgent,       \* an object that is no BaseAgent
    MaxBatch,      \* bound on the entries of one registration
    MaxBound       \* bound on the agents bound to tools

ASSUME ApplicationAssumption ==
    /\ Capabilities # {}
    /\ Shared \notin Applications /\ NoAgent \notin Provided
    /\ Malformed \notin Capabilities \cup Routes \cup OtherNames
    /\ MaxBatch \in Nat /\ MaxBound \in Nat

VARIABLES
    tools,   \* the tool registries: adapters by name
    agents,  \* the agent registries: agents by key
    apps,    \* the applications built, and the registries each was built from
    bound,   \* agents bound to tools: registry and adapters found then
    call     \* the call that returned last, and how

vars == <<tools, agents, apps, bound, call>>

Registries == Applications \cup {Shared}
Nothing == [n \in {} |-> Shared]  \* an empty registry
NoCall == [op |-> "none"]

\* A mapping after the assignment of further entries.
With(registry, entries) ==
    [n \in DOMAIN registry \cup DOMAIN entries |->
        IF n \in DOMAIN entries THEN entries[n] ELSE registry[n]]

\* Registries that exist: the caller's, and those of the applications built.
Reachable == {Shared} \cup DOMAIN apps

-----------------------------------------------------------------------------
(* Registration.  A batch is a sequence of entries [name, value].          *)

Entries(names) == [name : names, value : Provided \cup {NoAgent}]
Batches(names) == UNION {[1..n -> Entries(names)] : n \in 1..MaxBatch}

NamesOf(batch) == {batch[i].name : i \in DOMAIN batch}

\* Mutant: the entries themselves are not looked at.
TakesAnything(batch, registry) ==
    \E i \in DOMAIN batch :
        \/ batch[i].name \in DOMAIN registry
        \/ \E j \in 1..(i - 1) : batch[j].name = batch[i].name

\* Mutant: a later registration replaces an earlier one.
ReplacesEarlier(batch, registry) ==
    \E i \in DOMAIN batch :
        \/ batch[i].name = Malformed \/ batch[i].value = NoAgent
        \/ \E j \in 1..(i - 1) : batch[j].name = batch[i].name

\* The first failing check refuses the whole batch before the mapping is
\* touched: a malformed entry, a name that is taken, a name given twice.  For
\* tools it is ToolSpec that refuses a malformed entry, before the registry can.
Refused(batch, registry) ==
    \E i \in DOMAIN batch :
        \/ batch[i].name = Malformed \/ batch[i].value = NoAgent
        \/ batch[i].name \in DOMAIN registry
        \/ \E j \in 1..(i - 1) : batch[j].name = batch[i].name

\* Mutant: what was valid of a refused batch stays registered.
RegisteredSingly(batch, registry) ==
    With(registry, [n \in NamesOf(batch) \ (DOMAIN registry \cup {Malformed}) |->
                        batch[CHOOSE i \in DOMAIN batch : batch[i].name = n].value])

Registered(batch, registry) ==
    IF Refused(batch, registry) THEN registry
    ELSE With(registry, [n \in NamesOf(batch) |->
                            batch[CHOOSE i \in DOMAIN batch : batch[i].name = n].value])

RegisterCall(kind, r, batch, registry) ==
    [op |-> kind, registry |-> r,
     accepted |-> IF Refused(batch, registry) THEN <<>> ELSE batch]

\* ToolRegistry.register and register_many; building a malformed ToolSpec
\* raises before the registry sees it.
RegisterTools(r, batch) ==
    /\ tools' = [tools EXCEPT ![r] = Registered(batch, @)]
    /\ call' = RegisterCall("tools", r, batch, tools[r])
    /\ UNCHANGED <<agents, apps, bound>>

\* AgentRegistry.register and register_many, under the keys given or under the
\* names of the agents.
RegisterAgents(r, batch) ==
    /\ agents' = [agents EXCEPT ![r] = Registered(batch, @)]
    /\ call' = RegisterCall("agents", r, batch, agents[r])
    /\ UNCHANGED <<tools, apps, bound>>

-----------------------------------------------------------------------------
(* build_application.                                                      *)

\* What the caller hands over, and whether the rest is valid: every capability
\* has its protocol, the language model is known, the policy is positive.
Options == [tools : {"default", "injected"}, agents : {"default", "injected"},
            valid : BOOLEAN]

\* build_tool_registry and build_agent_registry: what application a brings.
DefaultTools(a) == [n \in Capabilities |-> a]
DefaultAgents(a) == [n \in Routes |-> a]

ToolsFor(a, o) == IF o.tools = "default" THEN DefaultTools(a) ELSE tools[Shared]
AgentsFor(a, o) == IF o.agents = "default" THEN DefaultAgents(a) ELSE agents[Shared]

\* Mutant: a registry that is handed over is not validated.
MissesNothing(registry) == {}

\* validate_tool_registry
MissingTools(registry) == Capabilities \ DOMAIN registry

\* AgentRuntime.__init__
MissingAgents(registry) == Routes \ DOMAIN registry

BuildFails(a, o) ==
    \/ ~o.valid
    \/ MissingTools(ToolsFor(a, o)) # {}
    \/ MissingAgents(AgentsFor(a, o)) # {}

\* The runtime takes the registry it is given for none if it is empty, and
\* keeps a copy of the agents.
Composed(a, o) ==
    LET t == IF o.tools = "default" THEN a ELSE Shared
    IN  [tools |-> t,
         agents |-> IF o.agents = "default" THEN a ELSE Shared,
         runtime_tools |-> IF ToolsFor(a, o) = Nothing THEN "private" ELSE t,
         runtime_agents |-> AgentsFor(a, o)]

Build(a, o) ==
    /\ a \notin DOMAIN apps
    /\ IF BuildFails(a, o)
       THEN UNCHANGED <<tools, agents, apps>>
       ELSE /\ apps' = With(apps, [n \in {a} |-> Composed(a, o)])
            /\ tools' = [tools EXCEPT ![a] = IF o.tools = "default" THEN DefaultTools(a) ELSE @]
            /\ agents' = [agents EXCEPT ![a] = IF o.agents = "default" THEN DefaultAgents(a) ELSE @]
    /\ call' = NoCall
    /\ UNCHANGED bound

-----------------------------------------------------------------------------
(* Agents that use tools.                                                  *)

\* ToolEnabledAgent.__init__ looks every tool of its allow-list up.
Bind(r, names) ==
    /\ Cardinality(bound) < MaxBound
    /\ bound' = IF names \subseteq DOMAIN tools[r]
                THEN bound \cup {[registry |-> r, adapters |-> [n \in names |-> tools[r][n]]]}
                ELSE bound
    /\ call' = NoCall
    /\ UNCHANGED <<tools, agents, apps>>

\* invoke_tool looks the tool up again.
Reached(agent, name) ==
    IF name \notin DOMAIN agent.adapters THEN "denied"
    ELSE IF name \notin DOMAIN tools[agent.registry] THEN "unknown"
    ELSE tools[agent.registry][name]

Invoke(agent, name) ==
    /\ call' = [op |-> "invoke", agent |-> agent, name |-> name,
                reached |-> Reached(agent, name)]
    /\ UNCHANGED <<tools, agents, apps, bound>>

-----------------------------------------------------------------------------

Init ==
    /\ tools = [r \in Registries |-> Nothing]
    /\ agents = [r \in Registries |-> Nothing]
    /\ apps = [a \in {} |-> Nothing]
    /\ bound = {}
    /\ call = NoCall

ToolNames == Capabilities \cup OtherNames
AgentKeys == Routes \cup OtherNames

Next ==
    \/ \E r \in Reachable :
        \/ \E b \in Batches(ToolNames \cup {Malformed}) : RegisterTools(r, b)
        \/ \E b \in Batches(AgentKeys \cup {Malformed}) : RegisterAgents(r, b)
        \/ \E names \in SUBSET ToolNames : Bind(r, names)
    \/ \E a \in Applications, o \in Options : Build(a, o)
    \/ \E agent \in bound, name \in ToolNames : Invoke(agent, name)

Spec == Init /\ [][Next]_vars

-----------------------------------------------------------------------------

Registry(names) == UNION {[d -> Provided \cup Applications] : d \in SUBSET names}

\* Only well-formed names and usable objects are ever registered.
TypeOK ==
    /\ tools \in [Registries -> Registry(ToolNames)]
    /\ agents \in [Registries -> Registry(AgentKeys)]
    /\ DOMAIN apps \subseteq Applications
    /\ \A a \in DOMAIN apps :
        /\ apps[a].tools \in {a, Shared} /\ apps[a].agents \in {a, Shared}
        /\ apps[a].runtime_agents \in Registry(AgentKeys)
    /\ \A b \in bound : b.registry \in Registries /\ b.adapters \in Registry(ToolNames)

\* Between before and after, a registry kept its entries and gained those of the
\* batch accepted by the call, all of them under names that were free and each
\* with its own value; nothing if the batch was refused or went elsewhere.
Grows(before, after, kind, r, done) ==
    LET added == IF done.op = kind /\ done.registry = r THEN done.accepted ELSE <<>>
    IN  /\ \A n \in DOMAIN before : after[n] = before[n]
        /\ DOMAIN after = DOMAIN before \cup NamesOf(added)
        /\ \A i \in DOMAIN added : /\ added[i].name \notin DOMAIN before
                                  /\ after[added[i].name] = added[i].value
        /\ \A i, j \in DOMAIN added : added[i].name = added[j].name => i = j

\* A registration is all or nothing: what was registered first stays under its
\* name, a batch that is refused adds nothing and one that is accepted adds
\* every entry it holds with the value it holds, in its own registry only.  (The registries of an
\* application come into being with it.)
RegistersAllOrNothing ==
    [][\A r \in Reachable :
        /\ Grows(tools[r], tools'[r], "tools", r, call')
        /\ Grows(agents[r], agents'[r], "agents", r, call')]_vars

\* Whatever was handed over and registered since, an application that was built
\* finds all of its tools and an agent for every route; its runtime uses the very
\* registry the application offers, so that what is registered later is seen by
\* both; and each of the runtime's agents is still the one the registry names.
ApplicationIsWhole ==
    \A a \in DOMAIN apps :
        /\ Capabilities \subseteq DOMAIN tools[apps[a].tools]
        /\ Routes \subseteq DOMAIN apps[a].runtime_agents
        /\ apps[a].runtime_tools = apps[a].tools
        /\ \A n \in DOMAIN apps[a].runtime_agents :
            /\ n \in DOMAIN agents[apps[a].agents]
            /\ apps[a].runtime_agents[n] = agents[apps[a].agents][n]

\* An agent bound to tools never loses one: every invocation of a tool of its
\* list reaches the adapter it found when it was bound, and none other does.
InvocationsReachBound ==
    call.op = "invoke" =>
        call.reached = IF call.name \in DOMAIN call.agent.adapters
                       THEN call.agent.adapters[call.name] ELSE "denied"
=============================================================================
