-------------------------- MODULE Application_proofs --------------------------
(* Proofs about Application, for every set of names and applications and   *)
(* every number of registrations.                                          *)
EXTENDS Application, TLAPS

\* What holds between any two calls: the registries of an application are
\* empty until it is built, and whatever an agent or an application found in a
\* registry is still there.
Unbuilt ==
    \A a \in Applications \ DOMAIN apps : tools[a] = Nothing /\ agents[a] = Nothing

Keeps(before, after) ==
    \A n \in DOMAIN before : n \in DOMAIN after /\ after[n] = before[n]

BoundKept ==
    \A b \in bound : b.registry \in Reachable /\ Keeps(b.adapters, tools[b.registry])

IInv == TypeOK /\ Unbuilt /\ BoundKept /\ ApplicationIsWhole

LEMMA EmptyIsRegistry ==
    ASSUME NEW names PROVE Nothing \in Registry(names) /\ DOMAIN Nothing = {}
<1>1. Nothing \in [{} -> Provided \cup Applications] /\ DOMAIN Nothing = {}
  BY DEF Nothing
<1> QED
  BY <1>1 DEF Registry

LEMMA RegistryDomain ==
    ASSUME NEW names, NEW f \in Registry(names)
    PROVE  /\ DOMAIN f \subseteq names
           /\ f = [n \in DOMAIN f |-> f[n]]
           /\ \A n \in DOMAIN f : f[n] \in Provided \cup Applications
BY DEF Registry

LEMMA RegistryIntro ==
    ASSUME NEW names, NEW d \in SUBSET names, NEW f \in [d -> Provided \cup Applications]
    PROVE  f \in Registry(names)
BY DEF Registry

\* A registration, refused or not, yields a registry of well-formed names and
\* usable objects that keeps what was there.
LEMMA RegisteredKeeps ==
    ASSUME NEW names, Malformed \notin names,
           NEW registry \in Registry(names),
           NEW batch \in Batches(names \cup {Malformed})
    PROVE  /\ Registered(batch, registry) \in Registry(names)
           /\ Keeps(registry, Registered(batch, registry))
<1>1. CASE Refused(batch, registry)
  BY <1>1 DEF Registered, Keeps
<1>2. CASE ~Refused(batch, registry)
  <2> DEFINE entries == [n \in NamesOf(batch) |->
                            batch[CHOOSE i \in DOMAIN batch : batch[i].name = n].value]
  <2>1. \A i \in DOMAIN batch : batch[i] \in Entries(names \cup {Malformed})
    BY DEF Batches
  <2>2. \A i \in DOMAIN batch :
            /\ batch[i].name \in names /\ batch[i].value \in Provided
            /\ batch[i].name \notin DOMAIN registry
    BY <1>2, <2>1 DEF Entries, Refused
  <2>3. \A n \in NamesOf(batch) : n \in names /\ n \notin DOMAIN registry
    BY <2>2 DEF NamesOf
  <2>4. \A n \in NamesOf(batch) : entries[n] \in Provided
    <3> SUFFICES ASSUME NEW n \in NamesOf(batch) PROVE entries[n] \in Provided
      OBVIOUS
    <3>1. \E i \in DOMAIN batch : batch[i].name = n
      BY DEF NamesOf
    <3>2. (CHOOSE i \in DOMAIN batch : batch[i].name = n) \in DOMAIN batch
      BY <3>1
    <3> QED
      BY <3>2, <2>2
  <2>5. Registered(batch, registry) = With(registry, entries)
    BY <1>2 DEF Registered
  <2>6. DOMAIN entries = NamesOf(batch)
    OBVIOUS
  <2> HIDE DEF entries
  <2>7. DOMAIN With(registry, entries) = DOMAIN registry \cup NamesOf(batch)
    BY <2>6 DEF With
  <2>8. \A n \in DOMAIN registry : With(registry, entries)[n] = registry[n]
    BY <2>3, <2>6 DEF With
  <2>9. With(registry, entries)
            \in [DOMAIN registry \cup NamesOf(batch) -> Provided \cup Applications]
    BY <2>4, <2>6, RegistryDomain DEF With
  <2>10. DOMAIN registry \cup NamesOf(batch) \in SUBSET names
    BY <2>3, RegistryDomain
  <2> QED
    BY <2>5, <2>7, <2>8, <2>9, <2>10, RegistryIntro DEF Keeps
<1> QED
  BY <1>1, <1>2

\* Nothing that was found is lost while the registries only grow.
LEMMA GrowthPreserves ==
    ASSUME IInv, Reachable \subseteq Reachable',
           \A r \in Registries : Keeps(tools[r], tools'[r]),
           \A r \in Registries : Keeps(agents[r], agents'[r])
    PROVE  /\ \A b \in bound : b.registry \in Reachable' /\ Keeps(b.adapters, tools'[b.registry])
           /\ \A a \in DOMAIN apps :
                /\ Capabilities \subseteq DOMAIN tools'[apps[a].tools]
                /\ Routes \subseteq DOMAIN apps[a].runtime_agents
                /\ apps[a].runtime_tools = apps[a].tools
                /\ \A n \in DOMAIN apps[a].runtime_agents :
                    /\ n \in DOMAIN agents'[apps[a].agents]
                    /\ apps[a].runtime_agents[n] = agents'[apps[a].agents][n]
<1>1. ASSUME NEW b \in bound
      PROVE  b.registry \in Reachable' /\ Keeps(b.adapters, tools'[b.registry])
  <2>1. b.registry \in Reachable /\ Keeps(b.adapters, tools[b.registry])
    BY DEF IInv, BoundKept
  <2>2. b.registry \in Registries
    BY DEF IInv, TypeOK
  <2> QED
    BY <2>1, <2>2 DEF Keeps
<1>2. ASSUME NEW a \in DOMAIN apps
      PROVE  /\ Capabilities \subseteq DOMAIN tools'[apps[a].tools]
             /\ Routes \subseteq DOMAIN apps[a].runtime_agents
             /\ apps[a].runtime_tools = apps[a].tools
             /\ \A n \in DOMAIN apps[a].runtime_agents :
                 /\ n \in DOMAIN agents'[apps[a].agents]
                 /\ apps[a].runtime_agents[n] = agents'[apps[a].agents][n]
  <2>1. apps[a].tools \in Registries /\ apps[a].agents \in Registries
    BY DEF IInv, TypeOK, Registries
  <2> QED
    BY <2>1 DEF IInv, ApplicationIsWhole, Keeps
<1> QED
  BY <1>1, <1>2

LEMMA InitEstablishes == Init => IInv
<1> SUFFICES ASSUME Init PROVE IInv
  OBVIOUS
<1>1. \A names : Nothing \in Registry(names)
  BY EmptyIsRegistry
<1>2. TypeOK
  BY <1>1 DEF Init, TypeOK
<1>3. Unbuilt
  BY DEF Init, Unbuilt, Registries
<1>4. BoundKept
  BY DEF Init, BoundKept
<1>5. ApplicationIsWhole
  BY DEF Init, ApplicationIsWhole
<1> QED
  BY <1>2, <1>3, <1>4, <1>5 DEF IInv

LEMMA NamesAreWellFormed == Malformed \notin ToolNames /\ Malformed \notin AgentKeys
BY ApplicationAssumption DEF ToolNames, AgentKeys

LEMMA ReachableRegistries == ASSUME IInv PROVE Reachable \subseteq Registries
BY DEF IInv, TypeOK, Reachable, Registries

LEMMA ToolsPreserve ==
    ASSUME IInv, NEW r \in Reachable, NEW batch \in Batches(ToolNames \cup {Malformed}),
           RegisterTools(r, batch)
    PROVE  IInv'
<1>1. r \in Registries /\ tools \in [Registries -> Registry(ToolNames)]
  BY ReachableRegistries DEF IInv, TypeOK
<1> DEFINE grown == Registered(batch, tools[r])
<1>2. grown \in Registry(ToolNames) /\ Keeps(tools[r], grown)
  BY <1>1, RegisteredKeeps, NamesAreWellFormed
<1> HIDE DEF grown
<1>3. tools' = [tools EXCEPT ![r] = grown] /\ UNCHANGED <<agents, apps, bound>>
  BY DEF RegisterTools, grown
<1>4. tools' \in [Registries -> Registry(ToolNames)]
  BY <1>1, <1>2, <1>3
<1>5. \A q \in Registries : Keeps(tools[q], tools'[q]) /\ Keeps(agents[q], agents'[q])
  BY <1>1, <1>2, <1>3 DEF Keeps
<1>6. Reachable' = Reachable
  BY <1>3 DEF Reachable
<1>7. TypeOK'
  BY <1>3, <1>4 DEF IInv, TypeOK
<1>8. Unbuilt'
  <2>1. \A a \in Applications \ DOMAIN apps : a # r
    BY ApplicationAssumption DEF Reachable
  <2> QED
    BY <2>1, <1>1, <1>3 DEF IInv, Unbuilt, Registries
<1>9. BoundKept'
  BY <1>3, <1>5, <1>6, GrowthPreserves DEF BoundKept
<1>10. ApplicationIsWhole'
  BY <1>3, <1>5, <1>6, GrowthPreserves DEF ApplicationIsWhole
<1> QED
  BY <1>7, <1>8, <1>9, <1>10 DEF IInv

LEMMA AgentsPreserve ==
    ASSUME IInv, NEW r \in Reachable, NEW batch \in Batches(AgentKeys \cup {Malformed}),
           RegisterAgents(r, batch)
    PROVE  IInv'
<1>1. r \in Registries /\ agents \in [Registries -> Registry(AgentKeys)]
  BY ReachableRegistries DEF IInv, TypeOK
<1> DEFINE grown == Registered(batch, agents[r])
<1>2. grown \in Registry(AgentKeys) /\ Keeps(agents[r], grown)
  BY <1>1, RegisteredKeeps, NamesAreWellFormed
<1> HIDE DEF grown
<1>3. agents' = [agents EXCEPT ![r] = grown] /\ UNCHANGED <<tools, apps, bound>>
  BY DEF RegisterAgents, grown
<1>4. agents' \in [Registries -> Registry(AgentKeys)]
  BY <1>1, <1>2, <1>3
<1>5. \A q \in Registries : Keeps(tools[q], tools'[q]) /\ Keeps(agents[q], agents'[q])
  BY <1>1, <1>2, <1>3 DEF Keeps
<1>6. Reachable' = Reachable
  BY <1>3 DEF Reachable
<1>7. TypeOK'
  BY <1>3, <1>4 DEF IInv, TypeOK
<1>8. Unbuilt'
  <2>1. \A a \in Applications \ DOMAIN apps : a # r
    BY ApplicationAssumption DEF Reachable
  <2> QED
    BY <2>1, <1>1, <1>3 DEF IInv, Unbuilt, Registries
<1>9. BoundKept'
  BY <1>3, <1>5, <1>6, GrowthPreserves DEF BoundKept
<1>10. ApplicationIsWhole'
  BY <1>3, <1>5, <1>6, GrowthPreserves DEF ApplicationIsWhole
<1> QED
  BY <1>7, <1>8, <1>9, <1>10 DEF IInv

LEMMA BindPreserves ==
    ASSUME IInv, NEW r \in Reachable, NEW names \in SUBSET ToolNames, Bind(r, names)
    PROVE  IInv'
<1>1. r \in Registries /\ tools \in [Registries -> Registry(ToolNames)]
  BY ReachableRegistries DEF IInv, TypeOK
<1>2. UNCHANGED <<tools, agents, apps>>
  BY DEF Bind
<1> DEFINE new == [registry |-> r, adapters |-> [n \in names |-> tools[r][n]]]
<1>3. bound' = bound \/ (names \subseteq DOMAIN tools[r] /\ bound' = bound \cup {new})
  BY DEF Bind
<1>4. names \subseteq DOMAIN tools[r] =>
        /\ new.registry = r
        /\ new.adapters \in Registry(ToolNames) /\ Keeps(new.adapters, tools[r])
  <2> SUFFICES ASSUME names \subseteq DOMAIN tools[r]
               PROVE  /\ new.adapters \in Registry(ToolNames)
                      /\ Keeps(new.adapters, tools[r])
    OBVIOUS
  <2>1. new.adapters \in [names -> Provided \cup Applications]
    BY <1>1, RegistryDomain
  <2> QED
    BY <2>1, RegistryIntro DEF Keeps
<1> HIDE DEF new
<1>5. TypeOK'
  BY <1>1, <1>2, <1>3, <1>4 DEF IInv, TypeOK
<1>6. Unbuilt' /\ ApplicationIsWhole'
  BY <1>2 DEF IInv, Unbuilt, ApplicationIsWhole
<1>7. BoundKept'
  BY <1>2, <1>3, <1>4 DEF IInv, BoundKept, Reachable
<1> QED
  BY <1>5, <1>6, <1>7 DEF IInv

LEMMA InvokePreserves ==
    ASSUME IInv, NEW agent \in bound, NEW name \in ToolNames, Invoke(agent, name)
    PROVE  IInv'
<1>1. UNCHANGED <<tools, agents, apps, bound>>
  BY DEF Invoke
<1> QED
  BY <1>1 DEF IInv, TypeOK, Unbuilt, BoundKept, ApplicationIsWhole, Reachable

\* A build that succeeds adds registries nobody could reach before.
LEMMA BuildPreserves ==
    ASSUME IInv, NEW a \in Applications, NEW o \in Options, Build(a, o)
    PROVE  IInv'
<1>1. CASE BuildFails(a, o)
  <2>1. UNCHANGED <<tools, agents, apps, bound>>
    BY <1>1 DEF Build
  <2> QED
    BY <2>1 DEF IInv, TypeOK, Unbuilt, BoundKept, ApplicationIsWhole, Reachable
<1>2. CASE ~BuildFails(a, o)
  <2> DEFINE t == IF o.tools = "default" THEN DefaultTools(a) ELSE tools[a]
             g == IF o.agents = "default" THEN DefaultAgents(a) ELSE agents[a]
             app == Composed(a, o)
  <2>1. /\ a \notin DOMAIN apps /\ apps' = With(apps, [n \in {a} |-> app])
        /\ tools' = [tools EXCEPT ![a] = t] /\ agents' = [agents EXCEPT ![a] = g]
        /\ bound' = bound
    BY <1>2 DEF Build
  <2>2. /\ tools \in [Registries -> Registry(ToolNames)]
        /\ agents \in [Registries -> Registry(AgentKeys)]
        /\ a \in Registries /\ Shared \in Registries /\ a # Shared
        /\ tools[a] = Nothing /\ agents[a] = Nothing /\ DOMAIN Nothing = {}
    BY <2>1, ApplicationAssumption, EmptyIsRegistry DEF IInv, TypeOK, Unbuilt, Registries
  <2>3. DefaultTools(a) \in Registry(ToolNames) /\ DefaultAgents(a) \in Registry(AgentKeys)
    <3>1. /\ DefaultTools(a) \in [Capabilities -> Provided \cup Applications]
          /\ DefaultAgents(a) \in [Routes -> Provided \cup Applications]
      BY DEF DefaultTools, DefaultAgents
    <3>2. Capabilities \in SUBSET ToolNames /\ Routes \in SUBSET AgentKeys
      BY DEF ToolNames, AgentKeys
    <3> QED
      BY <3>1, <3>2, RegistryIntro
  <2>4. t \in Registry(ToolNames) /\ g \in Registry(AgentKeys)
    BY <2>2, <2>3
  <2> HIDE DEF t, g
  <2>5. /\ tools' \in [Registries -> Registry(ToolNames)]
        /\ agents' \in [Registries -> Registry(AgentKeys)]
        /\ tools'[a] = t /\ agents'[a] = g
        /\ \A q \in Registries \ {a} : tools'[q] = tools[q] /\ agents'[q] = agents[q]
    BY <2>1, <2>2, <2>4
  <2>6. \A q \in Registries : Keeps(tools[q], tools'[q]) /\ Keeps(agents[q], agents'[q])
    BY <2>2, <2>5 DEF Keeps
  <2>7. /\ DOMAIN apps' = DOMAIN apps \cup {a} /\ apps'[a] = app
        /\ \A b \in DOMAIN apps : apps'[b] = apps[b]
    BY <2>1 DEF With
  <2>8. Reachable \subseteq Reachable'
    BY <2>7 DEF Reachable
  \* What the application was composed from.
  <2>9. /\ app.tools \in {a, Shared} /\ app.agents \in {a, Shared}
        /\ tools'[app.tools] = ToolsFor(a, o)
        /\ agents'[app.agents] = AgentsFor(a, o)
        /\ app.runtime_agents = AgentsFor(a, o)
        /\ app.runtime_agents \in Registry(AgentKeys)
    BY <2>2, <2>3, <2>5 DEF Composed, ToolsFor, AgentsFor, t, g
  <2>10. /\ Capabilities \subseteq DOMAIN ToolsFor(a, o)
         /\ Routes \subseteq DOMAIN AgentsFor(a, o)
    BY <1>2 DEF BuildFails, MissingTools, MissingAgents
  \* The registry is not empty, so the runtime uses it.
  <2>11. app.runtime_tools = app.tools
    <3>1. ToolsFor(a, o) # Nothing
      BY <2>2, <2>10, ApplicationAssumption
    <3> QED
      BY <3>1 DEF Composed
  <2> HIDE DEF app
  <2>12. TypeOK'
    <3>1. \A b \in DOMAIN apps' :
            /\ apps'[b].tools \in {b, Shared} /\ apps'[b].agents \in {b, Shared}
            /\ apps'[b].runtime_agents \in Registry(AgentKeys)
      BY <2>7, <2>9 DEF IInv, TypeOK
    <3> QED
      BY <2>1, <2>5, <2>7, <3>1 DEF IInv, TypeOK
  <2>13. Unbuilt'
    BY <2>5, <2>7 DEF IInv, Unbuilt, Registries
  <2>14. BoundKept'
    BY <2>1, <2>6, <2>8, GrowthPreserves DEF BoundKept
  <2>15. ApplicationIsWhole'
    <3> SUFFICES ASSUME NEW b \in DOMAIN apps'
                 PROVE  /\ Capabilities \subseteq DOMAIN tools'[apps'[b].tools]
                        /\ Routes \subseteq DOMAIN apps'[b].runtime_agents
                        /\ apps'[b].runtime_tools = apps'[b].tools
                        /\ \A n \in DOMAIN apps'[b].runtime_agents :
                            /\ n \in DOMAIN agents'[apps'[b].agents]
                            /\ apps'[b].runtime_agents[n] = agents'[apps'[b].agents][n]
      BY DEF ApplicationIsWhole
    <3>1. CASE b = a
      BY <3>1, <2>7, <2>9, <2>10, <2>11
    <3>2. CASE b \in DOMAIN apps
      <4>1. apps'[b] = apps[b]
        BY <3>2, <2>7
      <4> QED
        BY <4>1, <3>2, <2>6, <2>8, GrowthPreserves
    <3> QED
      BY <3>1, <3>2, <2>7
  <2> QED
    BY <2>12, <2>13, <2>14, <2>15 DEF IInv
<1> QED
  BY <1>1, <1>2

LEMMA StepPreserves == IInv /\ [Next]_vars => IInv'
<1> SUFFICES ASSUME IInv, [Next]_vars PROVE IInv'
  OBVIOUS
<1>1. ASSUME NEW r \in Reachable, NEW b \in Batches(ToolNames \cup {Malformed}),
             RegisterTools(r, b)
      PROVE  IInv'
  BY <1>1, ToolsPreserve
<1>2. ASSUME NEW r \in Reachable, NEW b \in Batches(AgentKeys \cup {Malformed}),
             RegisterAgents(r, b)
      PROVE  IInv'
  BY <1>2, AgentsPreserve
<1>3. ASSUME NEW r \in Reachable, NEW names \in SUBSET ToolNames, Bind(r, names)
      PROVE  IInv'
  BY <1>3, BindPreserves
<1>4. ASSUME NEW a \in Applications, NEW o \in Options, Build(a, o)
      PROVE  IInv'
  BY <1>4, BuildPreserves
<1>5. ASSUME NEW agent \in bound, NEW name \in ToolNames, Invoke(agent, name)
      PROVE  IInv'
  BY <1>5, InvokePreserves
<1>6. CASE UNCHANGED vars
  BY <1>6 DEF vars, IInv, TypeOK, Unbuilt, BoundKept, ApplicationIsWhole, Reachable
<1> QED
  BY <1>1, <1>2, <1>3, <1>4, <1>5, <1>6 DEF Next

(* Every state bootstrap, its requests and its tool calls reach satisfies  *)
(* the inductive invariant: what the theorems below are read off from.     *)
THEOREM InductiveInvariant == Spec => []IInv
BY InitEstablishes, StepPreserves, PTL DEF Spec

\* Only well-formed names and usable objects are ever registered, in either
\* registry and by whatever sequence of calls.
THEOREM TypeCorrect == Spec => []TypeOK
<1>1. IInv => TypeOK
  BY DEF IInv
<1> QED
  BY <1>1, InductiveInvariant, PTL

\* An application that was built stays complete, and its runtime shares the
\* registry the application offers.
THEOREM ApplicationsAreWhole == Spec => []ApplicationIsWhole
<1>1. IInv => ApplicationIsWhole
  BY DEF IInv
<1> QED
  BY <1>1, InductiveInvariant, PTL

\* An agent bound to tools reaches the adapters it was bound to, and no other.
THEOREM InvocationsAreBound == Spec => []InvocationsReachBound
<1>1. Init => InvocationsReachBound
  BY DEF Init, InvocationsReachBound, NoCall
<1>2. IInv /\ InvocationsReachBound /\ [Next]_vars => InvocationsReachBound'
  <2> SUFFICES ASSUME IInv, InvocationsReachBound, [Next]_vars, call'.op = "invoke"
               PROVE  call'.reached = IF call'.name \in DOMAIN call'.agent.adapters
                                      THEN call'.agent.adapters[call'.name] ELSE "denied"
    BY DEF InvocationsReachBound
  <2>1. CASE UNCHANGED vars
    BY <2>1 DEF vars, InvocationsReachBound
  <2>2. CASE \E agent \in bound, name \in ToolNames : Invoke(agent, name)
    <3>1. PICK agent \in bound, name \in ToolNames : Invoke(agent, name)
      BY <2>2
    <3>2. Keeps(agent.adapters, tools[agent.registry])
      BY DEF IInv, BoundKept
    <3>3. /\ call'.agent = agent /\ call'.name = name
          /\ call'.reached = Reached(agent, name)
      BY <3>1 DEF Invoke
    <3> QED
      BY <3>2, <3>3 DEF Keeps, Reached
  <2>3. ASSUME NEW r \in Reachable, NEW b, RegisterTools(r, b) \/ RegisterAgents(r, b)
        PROVE  FALSE
    BY <2>3 DEF RegisterTools, RegisterAgents, RegisterCall
  <2>4. ASSUME NEW r \in Reachable, NEW names, Bind(r, names)
        PROVE  FALSE
    BY <2>4 DEF Bind, NoCall
  <2>5. ASSUME NEW a \in Applications, NEW o \in Options, Build(a, o)
        PROVE  FALSE
    BY <2>5 DEF Build, NoCall
  <2> QED
    BY <2>1, <2>2, <2>3, <2>4, <2>5 DEF Next
<1> QED
  BY <1>1, <1>2, InductiveInvariant, PTL DEF Spec

\* Registering a batch adds what was accepted of it, entry for entry.
LEMMA BatchGrows ==
    ASSUME NEW names, NEW registry \in Registry(names), NEW kind, NEW r,
           NEW batch \in Batches(names \cup {Malformed})
    PROVE  Grows(registry, Registered(batch, registry), kind, r,
                 RegisterCall(kind, r, batch, registry))
<1> DEFINE done == RegisterCall(kind, r, batch, registry)
<1>1. /\ done.op = kind /\ done.registry = r
      /\ done.accepted = IF Refused(batch, registry) THEN <<>> ELSE batch
  BY DEF RegisterCall
<1>2. CASE Refused(batch, registry)
  <2>1. /\ Registered(batch, registry) = registry
        /\ done.accepted = <<>> /\ DOMAIN << >> = {} /\ NamesOf(<< >>) = {}
    BY <1>1, <1>2 DEF Registered, NamesOf
  <2> QED
    BY <1>1, <2>1 DEF Grows
<1>3. CASE ~Refused(batch, registry)
  <2>1. PICK n \in 1..MaxBatch : batch \in [1..n -> Entries(names \cup {Malformed})]
    BY DEF Batches
  <2>2. n \in Nat /\ DOMAIN batch = 1..n
    BY <2>1, ApplicationAssumption
  <2>3. \A i \in 1..n : batch[i].name \notin DOMAIN registry
    BY <1>3, <2>2 DEF Refused
  <2>4. \A i, j \in 1..n : batch[i].name = batch[j].name => i = j
    <3>1. \A i \in 1..n : \A j \in 1..(i - 1) : batch[j].name # batch[i].name
      BY <1>3, <2>2 DEF Refused
    <3>2. \A i, j \in 1..n : i < j => i \in 1..(j - 1)
      BY <2>2
    <3>3. \A i, j \in 1..n : i < j \/ j < i \/ i = j
      BY <2>2
    <3> QED
      BY <3>1, <3>2, <3>3
  <2>5. \A i \in 1..n : (CHOOSE j \in 1..n : batch[j].name = batch[i].name) = i
    BY <2>4
  <2> DEFINE entries == [m \in NamesOf(batch) |->
                           batch[CHOOSE j \in DOMAIN batch : batch[j].name = m].value]
  <2>6. \A i \in 1..n : batch[i].name \in NamesOf(batch)
                        /\ entries[batch[i].name] = batch[i].value
    BY <2>2, <2>5 DEF NamesOf
  <2>7. \A m \in NamesOf(batch) : m \notin DOMAIN registry
    BY <2>2, <2>3 DEF NamesOf
  <2>8. Registered(batch, registry) = With(registry, entries)
    BY <1>3 DEF Registered
  <2>9. /\ DOMAIN Registered(batch, registry) = DOMAIN registry \cup NamesOf(batch)
        /\ \A m \in DOMAIN registry : Registered(batch, registry)[m] = registry[m]
        /\ \A i \in 1..n : Registered(batch, registry)[batch[i].name] = batch[i].value
    BY <2>6, <2>7, <2>8 DEF With
  <2> QED
    BY <1>1, <1>3, <2>2, <2>3, <2>4, <2>9 DEF Grows
<1> QED
  BY <1>2, <1>3

LEMMA UntouchedGrows ==
    ASSUME NEW before, NEW kind, NEW r, NEW done,
           done.op # kind \/ done.registry # r
    PROVE  Grows(before, before, kind, r, done)
<1>1. DOMAIN << >> = {} /\ NamesOf(<< >>) = {}
  BY DEF NamesOf
<1> QED
  BY <1>1 DEF Grows

\* A registration is all or nothing, in either registry.
THEOREM RegistrationsAreAtomic == Spec => RegistersAllOrNothing
<1> DEFINE Grown == \A r \in Reachable :
                      /\ Grows(tools[r], tools'[r], "tools", r, call')
                      /\ Grows(agents[r], agents'[r], "agents", r, call')
<1>1. IInv /\ [Next]_vars => [Grown]_vars
  <2> SUFFICES ASSUME IInv, Next PROVE Grown
    OBVIOUS
  <2> USE DEF Grown
  <2>1. /\ Reachable \subseteq Registries
        /\ tools \in [Registries -> Registry(ToolNames)]
        /\ agents \in [Registries -> Registry(AgentKeys)]
    BY ReachableRegistries DEF IInv, TypeOK
  <2>2. ASSUME NEW q \in Reachable, NEW b \in Batches(ToolNames \cup {Malformed}),
               RegisterTools(q, b)
        PROVE  Grown
    <3>1. /\ tools' = [tools EXCEPT ![q] = Registered(b, tools[q])] /\ agents' = agents
          /\ call' = RegisterCall("tools", q, b, tools[q])
      BY <2>2 DEF RegisterTools
    <3>2. call'.op = "tools" /\ call'.registry = q
      BY <3>1 DEF RegisterCall
    <3>4. Grows(tools[q], tools'[q], "tools", q, call')
      BY <2>1, <3>1, BatchGrows
    <3>5. \A r \in Reachable \ {q} : tools'[r] = tools[r]
      BY <2>1, <3>1
    <3> QED
      BY <3>1, <3>2, <3>4, <3>5, UntouchedGrows
  <2>3. ASSUME NEW q \in Reachable, NEW b \in Batches(AgentKeys \cup {Malformed}),
               RegisterAgents(q, b)
        PROVE  Grown
    <3>1. /\ agents' = [agents EXCEPT ![q] = Registered(b, agents[q])] /\ tools' = tools
          /\ call' = RegisterCall("agents", q, b, agents[q])
      BY <2>3 DEF RegisterAgents
    <3>2. call'.op = "agents" /\ call'.registry = q
      BY <3>1 DEF RegisterCall
    <3>4. Grows(agents[q], agents'[q], "agents", q, call')
      BY <2>1, <3>1, BatchGrows
    <3>5. \A r \in Reachable \ {q} : agents'[r] = agents[r]
      BY <2>1, <3>1
    <3> QED
      BY <3>1, <3>2, <3>4, <3>5, UntouchedGrows
  <2>4. ASSUME call'.op \notin {"tools", "agents"},
               \A r \in Reachable : tools'[r] = tools[r] /\ agents'[r] = agents[r]
        PROVE  Grown
    BY <2>4, UntouchedGrows
  <2>5. ASSUME NEW q \in Reachable, NEW names, Bind(q, names)
        PROVE  Grown
    BY <2>4, <2>5 DEF Bind, NoCall
  <2>6. ASSUME NEW a \in Applications, NEW o \in Options, Build(a, o)
        PROVE  Grown
    <3>1. \A r \in Reachable : r # a
      BY <2>6, ApplicationAssumption DEF Build, Reachable
    <3>2. \A r \in Reachable : tools'[r] = tools[r] /\ agents'[r] = agents[r]
      BY <2>1, <2>6, <3>1 DEF Build
    <3> QED
      BY <2>4, <2>6, <3>2 DEF Build, NoCall
  <2>7. ASSUME NEW agent \in bound, NEW name \in ToolNames, Invoke(agent, name)
        PROVE  Grown
    BY <2>4, <2>7 DEF Invoke
  <2> QED
    BY <2>2, <2>3, <2>5, <2>6, <2>7 DEF Next
<1> QED
  BY <1>1, InductiveInvariant, PTL DEF Spec, RegistersAllOrNothing
=============================================================================
