------------------------ MODULE PluginStartupProofs ------------------------
(* Proofs about the start-up, for any plugins, manifests and settings.     *)
EXTENDS PluginStartup, FiniteSetTheorems, SequenceTheorems, TLAPS

Types ==
    /\ registered \subseteq Plugin
    /\ provides \in [Plugin -> SUBSET Capability]
    /\ needs \in [Plugin -> SUBSET Capability]
    /\ enabled \subseteq registered
    /\ stage \in Stage
    /\ factories \subseteq registered
    /\ todo \in Seq(Plugin \cup {Foreign})
    /\ running \in Seq(Plugin)

AfterBuiltins == Stage \ {"config", "store", "builtins", "dead"}

\* Only linked plugins have a factory, and they are as they were registered;
\* once they are registered no manifest can be about one of them.
FactoriesKept ==
    /\ factories \subseteq Linked \cap enabled
    /\ stage \in AfterBuiltins => Linked \subseteq factories
    /\ \A p \in factories : provides[p] = Provided[p] /\ needs[p] = {}
    /\ turnOff # NoPlugin => turnOff \notin Linked
    /\ turnOff # NoPlugin => stage = "discovery"

RegisteredMade == registered \cap Linked \subseteq factories

Made == \A i \in DOMAIN running :
    running[i] \in factories \cap IF program = "proxy" THEN ForPipeline ELSE ForProvider

Inv == Types /\ FactoriesKept /\ RegisteredMade /\ Made

USE LinkedPlugins, NoPluginIsNone, LinesKnown

LEMMA InitInv == StartInit => Inv
BY DEF StartInit, Init, Inv, Types, FactoriesKept, RegisteredMade, Made, AfterBuiltins,
       Stage, Linked

\* Steps that leave registrations and instances alone, and go on with what is
\* registered.
LEMMA GoOn ==
    ASSUME Inv,
           UNCHANGED <<registered, provides, needs, enabled, program, factories,
                       turnOff, running>>,
           turnOff = NoPlugin \/ stage' = stage,
           todo' \in Seq(Plugin \cup {Foreign}),
           stage' \in Stage,
           stage' \in AfterBuiltins => stage \in AfterBuiltins \/ Linked \subseteq registered
    PROVE  Inv'
BY DEF Inv, Types, FactoriesKept, RegisteredMade, Made

LEMMA RegisterBuiltinInv == ASSUME Inv, NEW p \in Linked, RegisterBuiltin(p) PROVE Inv'
<1>1. p \in Plugin /\ p \notin factories
  BY DEF RegisterBuiltin, Register, Unregistered, Inv, Types
<1>2. Types'
  BY DEF Inv, Types, RegisterBuiltin, Register
<1>3. FactoriesKept'
  BY <1>1 DEF Inv, Types, FactoriesKept, RegisterBuiltin, Register, AfterBuiltins
<1>4. RegisteredMade' /\ Made'
  BY DEF Inv, Types, RegisteredMade, Made, RegisterBuiltin, Register
<1>5. QED
  BY <1>2, <1>3, <1>4 DEF Inv

\* A manifest is about a plugin that is not registered, so not a linked one.
LEMMA DiscoverInv ==
    ASSUME Inv, NEW p \in Plugin, NEW C \in SUBSET Capability, NEW D \in SUBSET Capability,
           Discover(p, C, D)
    PROVE  Inv'
<1>1. p \notin Linked /\ p \notin factories
  BY DEF Discover, Register, Unregistered, Inv, Types, FactoriesKept, AfterBuiltins, Stage
<1>2. Types'
  BY DEF Inv, Types, Discover, Register
<1>3. FactoriesKept'
  BY <1>1 DEF Inv, Types, FactoriesKept, Discover, Register, AfterBuiltins
<1>4. RegisteredMade' /\ Made'
  BY <1>1 DEF Inv, Types, RegisteredMade, Made, Discover, Register
<1>5. QED
  BY <1>2, <1>3, <1>4 DEF Inv

LEMMA TurnOffInv == ASSUME Inv, TurnOff PROVE Inv'
BY DEF TurnOff, Disable, Inv, Types, FactoriesKept, RegisteredMade, Made

LEMMA MakePluginInv == ASSUME Inv, MakePlugin PROVE Inv'
<1>1. UNCHANGED <<registered, provides, needs, enabled, program, factories, turnOff>>
  BY DEF MakePlugin, vars
<1>2. stage = "plugins" /\ stage' \in Stage /\ turnOff = NoPlugin
  BY DEF MakePlugin, Goto, Stage, Inv, FactoriesKept
<1>3. CASE Goto("plugins", "dead") /\ UNCHANGED <<running, todo>>
  BY <1>1, <1>2, <1>3, GoOn DEF Goto, AfterBuiltins, Inv, Types
<1>4. CASE /\ Fit(Head(todo))
           /\ running' = Append(running, Head(todo))
           /\ todo' = Tail(todo)
           /\ Goto("plugins", "plugins")
  <2>1. Head(todo) \in Plugin /\ todo' \in Seq(Plugin \cup {Foreign})
    BY <1>4 DEF Fit, Inv, Types, MakePlugin
  <2>2. running' \in Seq(Plugin)
    BY <1>4, <2>1 DEF Inv, Types
  <2>3. Made'
    BY <1>1, <1>4, <2>1 DEF Made, Fit, Inv, Types
  <2>4. Types' /\ FactoriesKept' /\ RegisteredMade'
    BY <1>1, <1>2, <1>4, <2>1, <2>2
       DEF Inv, Types, FactoriesKept, RegisteredMade, Goto, AfterBuiltins
  <2>5. QED
    BY <2>3, <2>4 DEF Inv
<1>5. QED
  BY <1>3, <1>4 DEF MakePlugin

LEMMA NextInv == Inv /\ [StartNext]_startVars => Inv'
<1> SUFFICES ASSUME Inv, [StartNext]_startVars PROVE Inv'
  OBVIOUS
<1>t. todo \in Seq(Plugin \cup {Foreign}) /\ stage \in Stage
  BY DEF Inv, Types
<1>o. turnOff = NoPlugin \/ stage = "discovery"
  BY DEF Inv, FactoriesKept
<1>1. CASE LoadConfig \/ OpenStore \/ BuiltinsDone
  BY <1>1, <1>t, <1>o, GoOn
     DEF LoadConfig, OpenStore, BuiltinsDone, Goto, vars, own, Stage, AfterBuiltins
<1>2. CASE DiscoveryFails \/ DiscoveryDone \/ GraphDone
  BY <1>2, <1>t, <1>o, GoOn
     DEF DiscoveryFails, DiscoveryDone, BeginBuild, GraphDone, Goto, vars, own,
         descriptors, Stage, AfterBuiltins
<1>3. CASE LoadPolicy \/ Listen \/ Stop
  BY <1>3, <1>t, <1>o, GoOn
     DEF LoadPolicy, Listen, Stop, Goto, vars, own, Stage, AfterBuiltins
<1>4. CASE BeginOrder \/ EndOrder \/ \E p \in Plugin : Resolve(p) \/ Order(p)
  BY <1>4, <1>t, <1>o, GoOn
     DEF BeginOrder, BeginSort, EndOrder, EndSort, Resolve, Link, Order, Take, own,
         descriptors
<1>5. CASE UNCHANGED startVars
  BY <1>5, <1>t, <1>o, GoOn DEF startVars, vars, own
<1>6. QED
  BY <1>1, <1>2, <1>3, <1>4, <1>5, RegisterBuiltinInv, DiscoverInv, TurnOffInv,
     MakePluginInv DEF StartNext, MainStep

LEMMA AlwaysInv == StartSpec => []Inv
BY InitInv, NextInv, PTL DEF StartSpec

\* The start uses the registry only by its operations, whatever main does in
\* between: what is registered, linked and ordered is a behaviour of it.
THEOREM StartUsesRegistry == StartSpec => Spec
<1>1. StartInit => Init
  BY DEF StartInit
<1>2. Inv /\ [StartNext]_startVars => [Next]_vars
  <2> SUFFICES ASSUME Inv, [StartNext]_startVars PROVE Next \/ UNCHANGED vars
    BY DEF vars
  <2>1. ASSUME NEW p \in Linked, RegisterBuiltin(p) PROVE Next
    BY <2>1 DEF RegisterBuiltin, Next, Linked
  <2>2. ASSUME NEW p \in Plugin, NEW C \in SUBSET Capability, NEW D \in SUBSET Capability,
               Discover(p, C, D)
        PROVE  Next
    BY <2>2 DEF Discover, Next
  <2>3. CASE TurnOff
    BY <2>3 DEF TurnOff, Disable, Inv, Types, Next
  <2>4. ASSUME NEW p \in Plugin, Resolve(p) \/ Order(p) PROVE Next
    BY <2>4 DEF Resolve, Order, Next
  <2>5. CASE DiscoveryDone \/ BeginOrder \/ EndOrder
    BY <2>5 DEF DiscoveryDone, BeginOrder, EndOrder, Next
  <2>6. CASE LoadConfig \/ OpenStore \/ BuiltinsDone \/ DiscoveryFails \/ GraphDone
             \/ LoadPolicy \/ MakePlugin \/ Listen \/ Stop \/ UNCHANGED startVars
    BY <2>6 DEF LoadConfig, OpenStore, BuiltinsDone, DiscoveryFails, GraphDone, LoadPolicy,
                MakePlugin, Listen, Stop, startVars
  <2>7. QED
    BY <2>1, <2>2, <2>3, <2>4, <2>5, <2>6 DEF StartNext, MainStep
<1>3. QED
  BY <1>1, <1>2, AlwaysInv, PTL DEF StartSpec, Spec

\* No manifest replaces, disables or takes the factory of a linked plugin.
THEOREM LinkedPluginsKept == StartSpec => []LinkedKept
<1>1. Inv => LinkedKept
  BY DEF Inv, Types, FactoriesKept, LinkedKept, AfterBuiltins
<1>2. QED
  BY <1>1, AlwaysInv, PTL

\* Whatever serves is linked, of the program's kind and enabled.
THEOREM OnlyEnabledServe == StartSpec => []ServesEnabled
<1>1. Inv => ServesEnabled
  BY DEF Inv, Made, FactoriesKept, ServesEnabled
<1>2. QED
  BY <1>1, AlwaysInv, PTL
-----------------------------------------------------------------------------
(* The dependency graph of the proxy.                                      *)

\* The links a plugin of the graph still waits for: those of plugins that the
\* order does not list yet.
Waiting(d) == {pc \in ProviderPairs(d) : pc[1] \notin Listed}

\* Some plugin of every set of T depends on nothing in the set.
AcyclicIn(T) ==
    \A S \in SUBSET T : S # {} => \E d \in S : \A p \in S : ~DependsOn(d, p)

\* Nothing is known of an id that is not registered.
Unknown == \A p \in Plugin \ registered : provides[p] = {} /\ needs[p] = {}

BeforeGraph == {"config", "store", "builtins", "discovery"}

\* No graph has been built.
Untouched ==
    /\ phase = "open" /\ startup = << >> /\ result = "none"
    /\ links = [p \in Plugin |-> [d \in Plugin |-> 0]]

\* The links made so far are those of the plugins that are linked.
Linking ==
    /\ \A p, d \in Plugin :
          links[p][d] = IF d \in unlinked THEN 0 ELSE LinkCount(p, needs[d])
    /\ result = "none"

\* Kahn's algorithm: the in-degree of a plugin counts the links it waits for,
\* the queue holds those that wait for none, and what is listed depends only
\* on what was listed before it.
Sorting ==
    /\ \A p, d \in Plugin : links[p][d] = LinkCount(p, needs[d])
    /\ \A d \in Plugin : inDegree[d] = Cardinality(Waiting(d))
    /\ Listed \subseteq registered
    /\ Len(order) = Cardinality(Listed)
    /\ ready = {d \in registered \ Listed : Waiting(d) = {}}
    /\ \A d \in Listed : Waiting(d) = {}
    /\ InOrder(order)
    /\ AcyclicIn(Listed)
    /\ result = "none"

\* The order that a build has left.
Sorted == startup # << >> => Started = registered /\ InOrder(startup)

Graph ==
    /\ StartTypeOK
    /\ Unknown
    /\ stage \in BeforeGraph => Untouched
    /\ phase # "open" => stage = "graph"
    /\ phase = "linking" => Linking
    /\ phase = "sorting" => Sorting
    /\ Sorted
    /\ BuildReportsTruly

\* The graph is finite.
LEMMA GraphFinite ==
    ASSUME TypeOK
    PROVE  /\ IsFiniteSet(registered)
           /\ \A d \in Plugin : IsFiniteSet(Waiting(d)) /\ IsFiniteSet(ProviderPairs(d))
           /\ \A p \in Plugin : \A C \in SUBSET Capability :
                 IsFiniteSet(provides[p] \cap C) /\ LinkCount(p, C) \in Nat
<1>1. IsFiniteSet(registered)
  BY PluginsFinite, FS_Subset DEF TypeOK
<1>2. IsFiniteSet(registered \X Capability)
  BY <1>1, CapabilitiesFinite, FS_Product
<1>3. ASSUME NEW d \in Plugin PROVE IsFiniteSet(Waiting(d)) /\ IsFiniteSet(ProviderPairs(d))
  BY <1>2, FS_Subset DEF Waiting, ProviderPairs
<1>4. ASSUME NEW p \in Plugin, NEW C \in SUBSET Capability
      PROVE  IsFiniteSet(provides[p] \cap C) /\ LinkCount(p, C) \in Nat
  <2>1. provides[p] \cap C \in SUBSET Capability
    BY DEF TypeOK
  <2>2. QED
    BY <2>1, CapabilitiesFinite, FS_Subset, FS_CardinalityType DEF LinkCount
<1>5. QED
  BY <1>1, <1>3, <1>4

\* A plugin that needs nothing has no links.
LEMMA NothingNeeded == \A p : LinkCount(p, {}) = 0
BY FS_EmptySet DEF LinkCount

\* A plugin with a link to none of a set of plugins waits for none of them.
LEMMA WaitingIsDepending ==
    ASSUME TypeOK, NEW d \in Plugin
    PROVE  /\ Waiting(d) = {} <=> \A p \in registered : DependsOn(d, p) => p \in Listed
           /\ Cardinality(Waiting(d)) \in Nat
           /\ Cardinality(Waiting(d)) = 0 <=> Waiting(d) = {}
<1>1. IsFiniteSet(Waiting(d))
  BY GraphFinite
<1>2. needs[d] \subseteq Capability
  BY DEF TypeOK
<1>3. Waiting(d) = {} => \A p \in registered : DependsOn(d, p) => p \in Listed
  <2> SUFFICES ASSUME NEW p \in registered, DependsOn(d, p), p \notin Listed
               PROVE  Waiting(d) # {}
    OBVIOUS
  <2>1. PICK c \in Capability : c \in needs[d] \cap provides[p]
    BY <1>2 DEF DependsOn
  <2>2. <<p, c>> \in Waiting(d)
    BY <2>1 DEF Waiting, ProviderPairs
  <2>3. QED
    BY <2>2
<1>4. (\A p \in registered : DependsOn(d, p) => p \in Listed) => Waiting(d) = {}
  BY DEF Waiting, ProviderPairs, DependsOn
<1>5. QED
  BY <1>1, <1>3, <1>4, FS_EmptySet, FS_CardinalityType

\* Once p is listed, every plugin waits for the links from p no longer, and
\* their number is what the links were counted at.
LEMMA ListedLinks ==
    ASSUME TypeOK, NEW p \in registered, p \notin Listed, NEW d \in Plugin,
           NEW W, W = {pc \in ProviderPairs(d) : pc[1] \notin Listed \cup {p}}
    PROVE  Cardinality(W) = Cardinality(Waiting(d)) - LinkCount(p, needs[d])
<1> DEFINE C == provides[p] \cap needs[d]
           P == {p} \X C
<1>1. p \in Plugin /\ needs[d] \in SUBSET Capability
  BY DEF TypeOK
<1>2. IsFiniteSet(Waiting(d)) /\ IsFiniteSet(C) /\ IsFiniteSet({p}) /\ Cardinality({p}) = 1
  BY <1>1, GraphFinite, FS_Singleton
<1>3. Cardinality(P) = 1 * Cardinality(C) /\ Cardinality(C) \in Nat
  BY <1>2, FS_Product, FS_CardinalityType
<1>4. Waiting(d) \cap P = P
  BY <1>1 DEF Waiting, ProviderPairs
<1>5. W = Waiting(d) \ P
  BY DEF Waiting, ProviderPairs
<1>6. Cardinality(W) = Cardinality(Waiting(d)) - Cardinality(P)
  <2>1. Cardinality(Waiting(d) \ P) = Cardinality(Waiting(d)) - Cardinality(Waiting(d) \cap P)
    BY <1>2, FS_Difference
  <2>2. QED
    BY <2>1, <1>4, <1>5
<1>7. QED
  BY <1>3, <1>6 DEF LinkCount

\* The order with one plugin more.
LEMMA OrderExtended ==
    ASSUME order \in Seq(Plugin), NEW p \in Plugin, order' = order \o <<p>>
    PROVE  /\ order' \in Seq(Plugin)
           /\ Len(order') = Len(order) + 1
           /\ Listed' = Listed \cup {p}
           /\ \A i \in 1 .. Len(order) : order'[i] = order[i] /\ order[i] \in Listed
           /\ order'[Len(order) + 1] = p
<1>1. <<p>> \in Seq(Plugin) /\ Len(<<p>>) = 1 /\ <<p>>[1] = p
  OBVIOUS
<1>2. Len(order) \in Nat /\ DOMAIN order = 1 .. Len(order)
  OBVIOUS
<1>3. /\ order' \in Seq(Plugin)
      /\ Len(order') = Len(order) + 1
      /\ \A i \in 1 .. Len(order) + 1 :
            order'[i] = IF i <= Len(order) THEN order[i] ELSE <<p>>[i - Len(order)]
  BY <1>1, ConcatProperties
<1>4. /\ \A i \in 1 .. Len(order) : order'[i] = order[i]
      /\ order'[Len(order) + 1] = p
  BY <1>1, <1>2, <1>3
<1>5. DOMAIN order' = 1 .. Len(order) + 1
  BY <1>3
<1>6. Listed' = Listed \cup {p}
  BY <1>2, <1>4, <1>5 DEF Listed
<1>7. QED
  BY <1>2, <1>3, <1>4, <1>6 DEF Listed

\* Taking a plugin from the queue keeps the account of the links and the order.
LEMMA TakeSorting ==
    ASSUME TypeOK, Unknown, Sorting, NEW p \in Plugin, Take(p)
    PROVE  Sorting' /\ TypeOK'
<1>1. /\ p \in registered /\ p \notin Listed /\ Waiting(p) = {}
      /\ order \in Seq(Plugin) /\ Len(order) \in Nat
  BY DEF Take, Sorting, TypeOK
<1>2. /\ order' \in Seq(Plugin)
      /\ Len(order') = Len(order) + 1
      /\ Listed' = Listed \cup {p}
      /\ \A i \in 1 .. Len(order) : order'[i] = order[i] /\ order[i] \in Listed
      /\ order'[Len(order) + 1] = p
  BY <1>1, OrderExtended DEF Take
<1>3. /\ \A d \in Plugin : ProviderPairs(d)' = ProviderPairs(d)
      /\ \A d, q \in Plugin : DependsOn(d, q)' = DependsOn(d, q)
      /\ \A d, q \in Plugin : LinkCount(q, needs[d])' = LinkCount(q, needs[d])
      /\ UNCHANGED <<registered, provides, needs, links, result>>
  BY DEF Take, descriptors, ProviderPairs, DependsOn, LinkCount
<1>4. \A d \in Plugin :
         Waiting(d)' = {pc \in ProviderPairs(d) : pc[1] \notin Listed \cup {p}}
  BY <1>2, <1>3 DEF Waiting
<1>5. \A d \in Plugin :
         Cardinality(Waiting(d)') = Cardinality(Waiting(d)) - LinkCount(p, needs[d])
  BY <1>1, <1>4, ListedLinks
<1>6. \A d \in Plugin :
         inDegree'[d] = Cardinality(Waiting(d)') /\ inDegree'[d] = inDegree[d] - links[p][d]
  BY <1>5 DEF Take, Sorting
<1>7. \A d \in Plugin : LinkCount(p, needs[d]) \in Nat /\ needs[d] \in SUBSET Capability
  BY GraphFinite DEF TypeOK
<1>8. TypeOK'
  <2>1. Freed(p) \subseteq registered
    <3> SUFFICES ASSUME NEW d \in Plugin, d \notin registered PROVE inDegree[d] = 0
      BY <1>1 DEF Freed, TypeOK
    <3>1. Waiting(d) = {}
      BY DEF Unknown, Waiting, ProviderPairs
    <3>2. QED
      BY <3>1, FS_EmptySet DEF Sorting
  <2>2. QED
    BY <1>2, <2>1 DEF Take, descriptors, TypeOK
<1>t. Listed' \subseteq registered
  BY <1>1, <1>2 DEF Sorting
<1>9. \A d \in Plugin : Cardinality(Waiting(d)') = 0 <=> Waiting(d)' = {}
  <2>1. \A d \in Plugin : IsFiniteSet(Waiting(d)')
    BY <1>4, GraphFinite, FS_Subset
  <2>2. QED
    BY <2>1, FS_EmptySet
<1>10. ready' = {d \in registered \ Listed' : Waiting(d)' = {}}
  <2>1. ASSUME NEW d \in registered, d \notin Listed \cup {p}
        PROVE  d \in ready' <=> Waiting(d)' = {}
    <3>1. d \in Plugin /\ Cardinality(Waiting(d)) \in Nat /\ LinkCount(p, needs[d]) \in Nat
      BY <1>7, WaitingIsDepending DEF TypeOK
    <3>2. inDegree[d] = Cardinality(Waiting(d)) /\ links[p][d] = LinkCount(p, needs[d])
      BY <3>1 DEF Sorting
    <3>3. d \in ready <=> Cardinality(Waiting(d)) = 0
      BY <2>1, <3>1, WaitingIsDepending DEF Sorting
    <3>4. d \in ready' <=> d \in ready \/ (0 < inDegree[d] /\ inDegree[d] <= links[p][d])
      BY <2>1, <3>1 DEF Take, Freed
    <3>5. Cardinality(Waiting(d)') \in Nat
      BY <3>1, <1>4, GraphFinite, FS_Subset, FS_CardinalityType
    <3>6. Cardinality(Waiting(d)') = Cardinality(Waiting(d)) - LinkCount(p, needs[d])
      BY <1>5, <3>1
    <3>7. d \in ready' <=> Cardinality(Waiting(d)') = 0
      BY <3>1, <3>2, <3>3, <3>4, <3>5, <3>6
    <3>8. QED
      BY <3>1, <3>7, <1>9
  <2>2. ASSUME NEW d \in Listed \cup {p} PROVE d \notin ready'
    <3>1. d \in Plugin /\ Waiting(d) = {}
      BY <1>1 DEF Sorting, TypeOK
    <3>2. inDegree[d] = 0
      BY <3>1, FS_EmptySet DEF Sorting
    <3>3. d \notin ready \/ d = p
      BY DEF Sorting
    <3>4. QED
      BY <3>2, <3>3 DEF Take, Freed
  <2>3. ready' \subseteq registered
    BY <1>8, <1>3 DEF TypeOK
  <2>4. QED
    BY <1>2, <2>1, <2>2, <2>3
<1>11. \A d \in Listed' : Waiting(d)' = {}
  BY <1>1, <1>2, <1>4, <1>t DEF Sorting, Waiting, TypeOK
<1>12. \A d \in Listed \cup {p} : ~DependsOn(d, p)
  <2> SUFFICES ASSUME NEW d \in Listed \cup {p} PROVE ~DependsOn(d, p)
    OBVIOUS
  <2>1. d \in Plugin /\ Waiting(d) = {}
    BY <1>1 DEF Sorting, TypeOK
  <2>2. DependsOn(d, p) => p \in Listed
    BY <1>1, <2>1, WaitingIsDepending
  <2>3. QED
    BY <1>1, <2>2
<1>13. InOrder(order)'
  <2> SUFFICES ASSUME NEW i \in 1 .. Len(order) + 1, NEW j \in i .. Len(order) + 1
               PROVE  ~DependsOn(order'[i], order'[j])
    BY <1>2, <1>3 DEF InOrder, DependsOn
  <2>1. CASE j = Len(order) + 1
    BY <1>1, <1>2, <1>12, <2>1
  <2>2. CASE j # Len(order) + 1
    BY <1>1, <1>2, <2>2 DEF Sorting, InOrder
  <2>3. QED
    BY <2>1, <2>2
<1>14. AcyclicIn(Listed)'
  <2> SUFFICES ASSUME NEW S \in SUBSET (Listed \cup {p}), S # {}
               PROVE  \E d \in S : \A q \in S : ~DependsOn(d, q)
    <3>1. Listed' = Listed \cup {p} /\ Listed' \subseteq Plugin
      BY <1>2, <1>3, <1>t DEF TypeOK
    <3>2. AcyclicIn(Listed)' <=> \A S \in SUBSET Listed' :
             S # {} => \E d \in S : \A q \in S : ~DependsOn(d, q)'
      BY DEF AcyclicIn
    <3>3. QED
      BY <3>1, <3>2, <1>3
  <2>1. CASE S \ {p} = {}
    BY <1>12, <2>1
  <2>2. CASE S \ {p} # {}
    <3>1. PICK d \in S \ {p} : \A q \in S \ {p} : ~DependsOn(d, q)
      BY <2>2 DEF Sorting, AcyclicIn
    <3>2. QED
      BY <1>12, <3>1
  <2>3. QED
    BY <2>1, <2>2
<1>15. Len(order') = Cardinality(Listed')
  <2>1. IsFiniteSet(Listed)
    BY GraphFinite, FS_Subset DEF Sorting
  <2>2. Cardinality(Listed \cup {p}) = Cardinality(Listed) + 1
    BY <1>1, <2>1, FS_AddElement
  <2>3. QED
    BY <1>1, <1>2, <2>2 DEF Sorting
<1>16. QED
  BY <1>3, <1>6, <1>8, <1>t, <1>10, <1>11, <1>13, <1>14, <1>15 DEF Sorting

\* Steps that leave the graph and its build alone.
LEMMA GraphKept ==
    ASSUME Graph,
           UNCHANGED <<registered, provides, needs, links, startup, phase, unlinked,
                       inDegree, ready, order, result>>,
           StartTypeOK',
           stage' \in BeforeGraph => stage \in BeforeGraph,
           phase # "open" => stage' = "graph"
    PROVE  Graph'
<1>1. /\ \A d : Waiting(d)' = Waiting(d)
      /\ \A d, p : DependsOn(d, p)' = DependsOn(d, p)
      /\ Listed' = Listed
  BY DEF Waiting, ProviderPairs, DependsOn, Listed
<1>2. AcyclicIn(Listed)' <=> AcyclicIn(Listed)
  BY <1>1 DEF AcyclicIn
<1>3. InOrder(order)' <=> InOrder(order)
  BY <1>1 DEF InOrder
<1>4. InOrder(startup)' <=> InOrder(startup)
  BY <1>1 DEF InOrder
<1>5. Sorting' <=> Sorting
  BY <1>1, <1>2, <1>3 DEF Sorting, LinkCount
<1>6. Linking' <=> Linking
  BY DEF Linking, LinkCount
<1>7. BuildReportsTruly' <=> BuildReportsTruly
  BY <1>1 DEF BuildReportsTruly, Cyclic, Started, Providers
<1>8. Unknown' /\ Sorted' /\ (Untouched' <=> Untouched)
  BY <1>4 DEF Graph, Unknown, Sorted, Started, Untouched
<1>9. QED
  BY <1>5, <1>6, <1>7, <1>8 DEF Graph

LEMMA RegisterGraph ==
    ASSUME Graph, NEW p \in Plugin, NEW C, NEW D, Register(p, C, D),
           stage \in BeforeGraph, stage' = stage, StartTypeOK'
    PROVE  Graph'
<1>1. Untouched'
  BY DEF Graph, Untouched, Register
<1>2. Unknown'
  BY DEF Graph, Unknown, Register, StartTypeOK, TypeOK
<1>3. QED
  BY <1>1, <1>2 DEF Graph, Untouched, Sorted, BuildReportsTruly

LEMMA BeginBuildGraph ==
    ASSUME Graph, BeginBuild, stage \in BeforeGraph, stage' = "graph", StartTypeOK'
    PROVE  Graph'
<1>1. Unknown' /\ phase' = "linking" /\ result' = "none" /\ startup' = << >>
  BY DEF Graph, Unknown, Untouched, BeginBuild, descriptors
<1>2. ASSUME NEW p \in Plugin, NEW d \in Plugin
      PROVE  links'[p][d] = IF d \in unlinked' THEN 0 ELSE LinkCount(p, needs[d])'
  <2>1. links'[p][d] = 0
    BY DEF Graph, Untouched, BeginBuild
  <2>2. d \notin unlinked' => needs[d] = {}
    BY DEF Graph, Unknown, BeginBuild
  <2>3. LinkCount(p, needs[d])' = LinkCount(p, needs[d])
    BY DEF LinkCount, BeginBuild, descriptors
  <2>4. QED
    BY <2>1, <2>2, <2>3, NothingNeeded
<1>3. Linking'
  BY <1>1, <1>2 DEF Linking
<1>4. QED
  BY <1>1, <1>3 DEF Graph, Sorted, BuildReportsTruly, BeforeGraph

\* Either the links of d are as they should be, or the build ends for want of
\* a provider.
LEMMA LinkGraph ==
    ASSUME Graph, NEW d \in Plugin, Link(d), UNCHANGED <<own, stage>>
    PROVE  Graph'
<1>t. StartTypeOK /\ TypeOK /\ Unknown /\ Linking /\ d \in unlinked /\ stage = "graph"
  BY DEF Graph, StartTypeOK, Link
<1>u. /\ UNCHANGED <<registered, provides, needs, enabled, startup, inDegree, ready, order>>
      /\ Unknown'
  BY <1>t DEF Link, descriptors, Unknown
<1>n. ASSUME NEW C \in SUBSET Capability, AddDependent(d, C)
      PROVE  /\ links' \in [Plugin -> [Plugin -> Nat]]
             /\ \A p, e \in Plugin :
                   links'[p][e] = IF e = d THEN LinkCount(p, C) ELSE links[p][e]
  <2>1. \A p \in Plugin : LinkCount(p, C) \in Nat /\ links[p][d] = 0
    BY <1>t, GraphFinite DEF Linking
  <2>2. \A p \in Plugin \ registered : LinkCount(p, C) = 0
    BY <1>t, FS_EmptySet DEF Unknown, LinkCount
  <2>3. \A p \in Plugin : links[p] \in [Plugin -> Nat]
    BY <1>t DEF TypeOK
  <2>4. \A p \in Plugin : links'[p] = [links[p] EXCEPT ![d] = LinkCount(p, C)]
    <3> SUFFICES ASSUME NEW p \in Plugin
                 PROVE  links'[p] = [links[p] EXCEPT ![d] = LinkCount(p, C)]
      OBVIOUS
    <3>1. links[p][d] + (IF p \in registered THEN LinkCount(p, C) ELSE 0) = LinkCount(p, C)
      BY <2>1, <2>2
    <3>2. links'[p] = [links[p] EXCEPT ![d] =
                          @ + (IF p \in registered THEN LinkCount(p, C) ELSE 0)]
      BY <1>n DEF AddDependent
    <3>3. QED
      BY <3>1, <3>2
  <2>5. DOMAIN links' = Plugin /\ links' = [p \in Plugin |-> links'[p]]
    BY <1>n DEF AddDependent
  <2>6. ASSUME NEW p \in Plugin PROVE links'[p] \in [Plugin -> Nat]
    <3>1. links[p] \in [Plugin -> Nat] /\ LinkCount(p, C) \in Nat
      BY <2>1, <2>3
    <3>2. links'[p] = [links[p] EXCEPT ![d] = LinkCount(p, C)]
      BY <2>4
    <3>3. QED
      BY <3>1, <3>2
  <2>7. QED
    <3>1. links' \in [Plugin -> [Plugin -> Nat]]
      BY <2>5, <2>6
    <3>2. ASSUME NEW p \in Plugin, NEW e \in Plugin
          PROVE  links'[p][e] = IF e = d THEN LinkCount(p, C) ELSE links[p][e]
      BY <2>3, <2>4
    <3>3. QED
      BY <3>1, <3>2
<1>o. InOrder(startup)' <=> InOrder(startup)
  BY <1>u DEF InOrder, DependsOn
<1>s. Sorted'
  BY <1>u, <1>o DEF Graph, Sorted, Started
<1>1. CASE /\ AddDependent(d, needs[d])
           /\ unlinked' = unlinked \ {d}
           /\ UNCHANGED <<phase, result>>
  <2>1. needs[d] \in SUBSET Capability
    BY <1>t DEF TypeOK
  <2>2. TypeOK'
    BY <1>1, <1>n, <1>u, <1>t, <2>1 DEF TypeOK, Link
  <2>3. Linking'
    <3>1. \A p, e \in Plugin : LinkCount(p, needs[e])' = LinkCount(p, needs[e])
      BY <1>u DEF LinkCount
    <3>2. \A p, e \in Plugin :
             links'[p][e] = IF e = d THEN LinkCount(p, needs[d]) ELSE links[p][e]
      BY <1>1, <1>n, <2>1
    <3>3. QED
      BY <1>1, <1>t, <3>1, <3>2 DEF Linking
  <2>4. phase' = "linking" /\ result' = "none"
    BY <1>1, <1>t DEF Link, Linking
  <2>5. StartTypeOK'
    BY <1>t, <1>u, <2>2 DEF StartTypeOK, own
  <2>6. QED
    BY <1>u, <1>t, <1>s, <2>3, <2>4, <2>5 DEF Graph, BuildReportsTruly, BeforeGraph
<1>2. CASE /\ ~(needs[d] \subseteq {c \in needs[d] : Providers(c) # {}})
           /\ \E C \in SUBSET {c \in needs[d] : Providers(c) # {}} : AddDependent(d, C)
           /\ unlinked' = {}
           /\ phase' = "open"
           /\ result' = "missing"
  <2>1. PICK C \in SUBSET Capability : AddDependent(d, C)
    BY <1>2, <1>t DEF TypeOK
  <2>2. TypeOK'
    BY <1>2, <1>n, <1>u, <1>t, <2>1 DEF TypeOK, Link
  <2>3. d \in registered /\ \E c \in needs[d] : Providers(c) = {}
    BY <1>2, <1>t DEF TypeOK
  <2>4. BuildReportsTruly'
    BY <1>2, <1>u, <2>3 DEF BuildReportsTruly, Providers
  <2>5. StartTypeOK'
    BY <1>t, <1>u, <2>2 DEF StartTypeOK, own
  <2>6. QED
    BY <1>2, <1>u, <1>t, <1>s, <2>4, <2>5 DEF Graph, BeforeGraph
<1>3. QED
  BY <1>1, <1>2 DEF Link

\* Before anything is listed, a plugin waits for all its links.
LEMMA BeginSortGraph ==
    ASSUME Graph, BeginSort, UNCHANGED <<own, stage>>
    PROVE  Graph'
<1>t. StartTypeOK /\ TypeOK /\ Unknown /\ Linking /\ stage = "graph"
  BY DEF Graph, StartTypeOK, BeginSort
<1>u. /\ UNCHANGED <<registered, provides, needs, enabled, links, startup, unlinked, result>>
      /\ Unknown' /\ order' = << >> /\ phase' = "sorting" /\ result' = "none"
  BY <1>t DEF BeginSort, descriptors, Unknown, Linking
<1>1. Listed' = {}
  BY <1>u DEF Listed
<1>2. \A d \in Plugin : Waiting(d)' = ProviderPairs(d) /\ IsFiniteSet(ProviderPairs(d))
  BY <1>1, <1>u, <1>t, GraphFinite DEF Waiting, ProviderPairs
<1>3. \A d \in Plugin : /\ Cardinality(ProviderPairs(d)) \in Nat
                        /\ Cardinality(ProviderPairs(d)) = 0 <=> ProviderPairs(d) = {}
  BY <1>2, FS_EmptySet, FS_CardinalityType
<1>4. TypeOK'
  BY <1>u, <1>t, <1>3 DEF TypeOK, BeginSort
<1>5. \A p, d \in Plugin : links'[p][d] = LinkCount(p, needs[d])'
  BY <1>t, <1>u DEF Linking, LinkCount, BeginSort
<1>6. ready' = {d \in registered' \ Listed' : Waiting(d)' = {}}
  <2>1. registered \subseteq Plugin /\ registered' = registered
    BY <1>t, <1>u DEF TypeOK
  <2>2. ready' = {d \in registered : Cardinality(ProviderPairs(d)) = 0}
    BY DEF BeginSort
  <2>3. QED
    BY <1>1, <1>2, <1>3, <2>1, <2>2
<1>7. Len(order') = Cardinality(Listed') /\ InOrder(order)' /\ AcyclicIn(Listed)'
  BY <1>1, <1>u, FS_EmptySet DEF InOrder, AcyclicIn
<1>8. Sorting'
  BY <1>1, <1>2, <1>5, <1>6, <1>7, <1>u DEF Sorting, BeginSort
<1>o. InOrder(startup)' <=> InOrder(startup)
  BY <1>u DEF InOrder, DependsOn
<1>s. Sorted'
  BY <1>u, <1>o DEF Graph, Sorted, Started
<1>9. StartTypeOK'
  BY <1>t, <1>u, <1>4 DEF StartTypeOK, own
<1>10. QED
  BY <1>8, <1>9, <1>s, <1>t, <1>u DEF Graph, BuildReportsTruly, BeforeGraph

LEMMA TakeGraph ==
    ASSUME Graph, NEW p \in Plugin, Take(p), UNCHANGED <<own, stage>>
    PROVE  Graph'
<1>t. StartTypeOK /\ TypeOK /\ Unknown /\ Sorting /\ stage = "graph"
  BY DEF Graph, StartTypeOK, Take
<1>u. /\ UNCHANGED <<registered, provides, needs, enabled, startup, phase, result>>
      /\ Unknown' /\ phase' = "sorting"
  BY <1>t DEF Take, descriptors, Unknown
<1>1. Sorting' /\ TypeOK'
  BY <1>t, TakeSorting
<1>o. InOrder(startup)' <=> InOrder(startup)
  BY <1>u DEF InOrder, DependsOn
<1>s. Sorted'
  BY <1>u, <1>o DEF Graph, Sorted, Started
<1>2. StartTypeOK'
  BY <1>t, <1>u, <1>1 DEF StartTypeOK, own
<1>3. QED
  BY <1>1, <1>2, <1>s, <1>t, <1>u DEF Graph, Sorting, BuildReportsTruly, BeforeGraph

\* When the queue is empty, either everything is listed, or what is not listed
\* waits for itself.
LEMMA EndSortGraph ==
    ASSUME Graph, EndSort, UNCHANGED <<own, stage>>
    PROVE  Graph'
<1>t. StartTypeOK /\ TypeOK /\ Unknown /\ Sorting /\ stage = "graph"
  BY DEF Graph, StartTypeOK, EndSort
<1>u. /\ UNCHANGED <<registered, provides, needs, enabled, links, unlinked, inDegree,
                     ready, order, builds>>
      /\ Unknown' /\ phase' = "open"
      /\ \A d, p : DependsOn(d, p)' = DependsOn(d, p)
  BY <1>t DEF EndSort, descriptors, Unknown, DependsOn
<1>f. IsFiniteSet(registered) /\ registered \subseteq Plugin /\ Listed \subseteq registered
  BY <1>t, GraphFinite DEF TypeOK, Sorting
<1>y. StartTypeOK'
  BY <1>t, <1>u DEF StartTypeOK, TypeOK, own, EndSort
<1>c. Cyclic' <=> Cyclic
  BY <1>u DEF Cyclic
<1>1. CASE Complete
  <2>1. Listed = registered
    BY <1>1, <1>t, <1>f, FS_Subset DEF Complete, Sorting
  <2>2. startup' = order /\ result' = "ok"
    BY <1>1 DEF EndSort
  <2>3. Started' = registered /\ InOrder(startup)'
    BY <1>t, <1>u, <2>1, <2>2 DEF Started, Listed, InOrder, Sorting
  <2>4. ~Cyclic
    BY <1>t, <2>1 DEF Cyclic, AcyclicIn, Sorting
  <2>5. QED
    BY <1>c, <1>t, <1>u, <1>y, <2>2, <2>3, <2>4
       DEF Graph, Sorted, BuildReportsTruly, BeforeGraph
<1>2. CASE ~Complete
  <2> DEFINE S == registered \ Listed
  <2>1. S # {}
    <3>1. Listed = registered => Complete
      BY <1>t DEF Complete, Sorting
    <3>2. QED
      BY <1>2, <1>f, <3>1
  <2>2. ASSUME NEW d \in S PROVE \E p \in S : DependsOn(d, p)
    <3>1. Waiting(d) # {}
      BY <1>t DEF EndSort, Sorting
    <3>2. QED
      BY <1>f, <1>t, <3>1, WaitingIsDepending
  <2>3. Cyclic
    BY <2>1, <2>2 DEF Cyclic
  <2>4. startup' = startup /\ result' = "cycle"
    BY <1>2 DEF EndSort
  <2>5. Sorted'
    <3>1. InOrder(startup)' <=> InOrder(startup)
      BY <1>u, <2>4 DEF InOrder
    <3>2. QED
      BY <1>u, <2>4, <3>1 DEF Graph, Sorted, Started
  <2>6. QED
    BY <1>c, <1>t, <1>u, <1>y, <2>3, <2>4, <2>5 DEF Graph, BuildReportsTruly, BeforeGraph
<1>3. QED
  BY <1>1, <1>2

LEMMA InitGraph == StartInit => Graph
<1> SUFFICES ASSUME StartInit PROVE Graph
  OBVIOUS
<1>1. TypeOK
  BY BuildsNat DEF StartInit, Init, TypeOK
<1>2. StartTypeOK
  BY <1>1, ManifestsNat DEF StartInit, Init, StartTypeOK, Stage
<1>3. QED
  BY <1>2 DEF StartInit, Init, Graph, Unknown, Untouched, Sorted, BuildReportsTruly,
              BeforeGraph

\* Steps on the registry alone, or on nothing of it, keep the types.
LEMMA StartTypes ==
    ASSUME StartTypeOK,
           \/ UNCHANGED vars /\ UNCHANGED <<factories, manifests>>
           \/ \E p \in Plugin, C, D \in SUBSET Capability : /\ Register(p, C, D)
                 /\ \/ factories' = factories \cup {p} /\ UNCHANGED manifests
                    \/ /\ UNCHANGED factories
                       /\ manifests < MaxManifests
                       /\ manifests' = manifests + 1
           \/ (\E p \in Plugin : Disable(p)) /\ UNCHANGED <<factories, manifests>>
           \/ BeginBuild /\ UNCHANGED <<factories, manifests>>,
           program' = program,
           turnOff' \in registered' \cup {NoPlugin},
           turnOff' # NoPlugin => stage' = "discovery",
           stage' \in Stage,
           todo' \in Seq(Plugin \cup {Foreign}),
           running' \in Seq(Plugin)
    PROVE  StartTypeOK'
<1>1. TypeOK
  BY DEF StartTypeOK
<1>2. CASE UNCHANGED vars /\ UNCHANGED <<factories, manifests>>
  <2>1. TypeOK'
    BY <1>1, <1>2 DEF TypeOK, vars
  <2>2. QED
    BY <1>2, <2>1 DEF StartTypeOK, vars
<1>3. CASE \E p \in Plugin, C, D \in SUBSET Capability : /\ Register(p, C, D)
              /\ \/ factories' = factories \cup {p} /\ UNCHANGED manifests
                 \/ /\ UNCHANGED factories
                    /\ manifests < MaxManifests
                    /\ manifests' = manifests + 1
  <2>1. TypeOK'
    BY <1>1, <1>3 DEF TypeOK, Register
  <2>2. manifests' \in 0 .. MaxManifests
    BY <1>3, ManifestsNat DEF StartTypeOK
  <2>3. QED
    BY <1>3, <2>1, <2>2 DEF StartTypeOK, Register
<1>4. CASE (\E p \in Plugin : Disable(p)) /\ UNCHANGED <<factories, manifests>>
  <2>1. TypeOK'
    BY <1>1, <1>4 DEF TypeOK, Disable
  <2>2. QED
    BY <1>4, <2>1 DEF StartTypeOK, Disable
<1>5. CASE BeginBuild /\ UNCHANGED <<factories, manifests>>
  <2>1. TypeOK'
    BY <1>1, <1>5, BuildsNat DEF TypeOK, BeginBuild, descriptors
  <2>2. QED
    BY <1>5, <2>1 DEF StartTypeOK, BeginBuild, descriptors
<1>6. QED
  BY <1>2, <1>3, <1>4, <1>5

\* Steps of main on no registry.
LEMMA MainKept ==
    ASSUME Graph, UNCHANGED <<vars, program, factories, manifests, turnOff>>,
           turnOff # NoPlugin => stage' = stage,
           stage' \in Stage,
           stage' \in BeforeGraph => stage \in BeforeGraph,
           phase # "open" => stage' = "graph",
           todo' \in Seq(Plugin \cup {Foreign}),
           running' \in Seq(Plugin)
    PROVE  Graph'
<1>1. StartTypeOK
  BY DEF Graph
<1>2. turnOff' \in registered' \cup {NoPlugin} /\ (turnOff' # NoPlugin => stage' = "discovery")
  BY <1>1 DEF StartTypeOK, vars
<1>3. StartTypeOK'
  BY <1>1, <1>2, StartTypes
<1>4. QED
  BY <1>3, GraphKept DEF vars

LEMMA NextGraph == Graph /\ [StartNext]_startVars => Graph'
<1> SUFFICES ASSUME Graph, [StartNext]_startVars PROVE Graph'
  OBVIOUS
<1>t. /\ StartTypeOK /\ TypeOK
      /\ todo \in Seq(Plugin \cup {Foreign}) /\ running \in Seq(Plugin) /\ stage \in Stage
      /\ turnOff \in registered \cup {NoPlugin}
      /\ turnOff # NoPlugin => stage = "discovery"
      /\ phase # "open" => stage = "graph"
  BY DEF Graph, StartTypeOK
<1>1. CASE LoadConfig \/ OpenStore \/ BuiltinsDone
  BY <1>1, <1>t, MainKept
     DEF LoadConfig, OpenStore, BuiltinsDone, Goto, own, Stage, BeforeGraph
<1>2. CASE DiscoveryFails \/ GraphDone
  BY <1>2, <1>t, MainKept
     DEF DiscoveryFails, GraphDone, GraphOver, Goto, own, Stage, BeforeGraph
<1>3. CASE LoadPolicy \/ Listen \/ Stop
  BY <1>3, <1>t, MainKept DEF LoadPolicy, Listen, Stop, Goto, own, Stage, BeforeGraph
<1>4. CASE MakePlugin
  <2>1. CASE Goto("plugins", "dead") /\ UNCHANGED <<running, todo>>
    BY <1>4, <1>t, <2>1, MainKept DEF MakePlugin, Goto, Stage, BeforeGraph
  <2>2. CASE /\ Fit(Head(todo))
             /\ running' = Append(running, Head(todo))
             /\ todo' = Tail(todo)
             /\ Goto("plugins", "plugins")
    <3>1. Head(todo) \in Plugin
      BY <2>2, <1>t DEF Fit, StartTypeOK, TypeOK
    <3>2. running' \in Seq(Plugin) /\ todo' \in Seq(Plugin \cup {Foreign})
      BY <1>4, <2>2, <3>1, <1>t DEF MakePlugin
    <3>3. QED
      BY <1>4, <1>t, <2>2, <3>2, MainKept DEF MakePlugin, Goto, BeforeGraph
  <2>3. QED
    BY <1>4, <2>1, <2>2 DEF MakePlugin
<1>5. CASE \E p \in Linked : RegisterBuiltin(p)
  <2>1. PICK p \in Linked : RegisterBuiltin(p)
    BY <1>5
  <2>2. /\ p \in Plugin /\ Provided[p] \in SUBSET Capability
        /\ Register(p, Provided[p], {}) /\ stage = "builtins"
    BY <2>1 DEF RegisterBuiltin
  <2>3. registered' = registered \cup {p}
    BY <2>2 DEF Register
  <2>4. StartTypeOK'
    BY <1>t, <2>1, <2>2, <2>3, StartTypes DEF RegisterBuiltin
  <2>5. QED
    BY <2>1, <2>2, <2>4, RegisterGraph DEF RegisterBuiltin, BeforeGraph
<1>6. CASE \E p \in Plugin, C, D \in SUBSET Capability : Discover(p, C, D)
  <2>1. PICK p \in Plugin, C \in SUBSET Capability, D \in SUBSET Capability :
            Discover(p, C, D)
    BY <1>6
  <2>2. registered' = registered \cup {p} /\ Register(p, C, D) /\ stage = "discovery"
    BY <2>1 DEF Discover, Register
  <2>3. StartTypeOK'
    BY <1>t, <2>1, <2>2, StartTypes DEF Discover
  <2>4. QED
    BY <2>1, <2>2, <2>3, RegisterGraph DEF Discover, BeforeGraph
<1>7. CASE TurnOff
  <2>1. turnOff \in Plugin /\ Disable(turnOff)
    BY <1>7, <1>t DEF TurnOff, TypeOK
  <2>2. StartTypeOK'
    BY <1>7, <1>t, <2>1, StartTypes DEF TurnOff
  <2>3. QED
    BY <1>7, <1>t, <2>2, GraphKept DEF TurnOff, Disable
<1>8. CASE DiscoveryDone
  <2>1. StartTypeOK'
    <3>1. registered' = registered
      BY <1>8 DEF DiscoveryDone, BeginBuild, descriptors
    <3>2. QED
      BY <1>8, <1>t, <3>1, StartTypes DEF DiscoveryDone, Goto, own, Stage
  <2>2. QED
    BY <1>8, <2>1, BeginBuildGraph DEF DiscoveryDone, Goto, BeforeGraph
<1>9. CASE BeginOrder \/ EndOrder
  BY <1>9, BeginSortGraph, EndSortGraph DEF BeginOrder, EndOrder
<1>10. CASE \E p \in Plugin : Resolve(p) \/ Order(p)
  BY <1>10, LinkGraph, TakeGraph DEF Resolve, Order
<1>11. CASE UNCHANGED startVars
  BY <1>11, <1>t, MainKept DEF startVars, own
<1>12. QED
  BY <1>1, <1>2, <1>3, <1>4, <1>5, <1>6, <1>7, <1>8, <1>9, <1>10, <1>11
     DEF StartNext, MainStep

LEMMA AlwaysGraph == StartSpec => []Graph
BY InitGraph, NextGraph, PTL DEF StartSpec

\* The states of the start-up are of their types.
THEOREM StartTypesKept == StartSpec => []StartTypeOK
BY AlwaysGraph, PTL DEF Graph

\* Every plugin in the startup order comes after all the providers of what it
\* depends on, however many manifests there are and whatever they say.
THEOREM StartupInOrder == StartSpec => []StartupRespectsDependencies
<1>1. Graph => StartupRespectsDependencies
  BY DEF Graph, Sorted, StartupRespectsDependencies, InOrder
<1>2. QED
  BY <1>1, AlwaysGraph, PTL

\* BuildDependencyGraph reports a cycle only for a cyclic graph and a missing
\* provider only when one is missing, and succeeds only with every plugin in
\* the order of a graph without a cycle.
THEOREM BuildsReportTruly == StartSpec => []BuildReportsTruly
BY AlwaysGraph, PTL DEF Graph

\* The admin page lists every registered plugin, whatever failed before.
THEOREM AdminPageShowsAll == StartSpec => []AdminShowsAll
<1>1. Graph => AdminShowsAll
  BY DEF Graph, Sorted, AdminShowsAll, AdminPage, Started, Range
<1>2. QED
  BY <1>1, AlwaysGraph, PTL
=============================================================================
