--------------------------- MODULE PluginRegistry ---------------------------
(***************************************************************************)
(* The plugin registry (pkg/pluginregistry): plugins are registered with   *)
(* the capabilities they provide and those they depend on, and             *)
(* BuildDependencyGraph orders them for startup with Kahn's algorithm.     *)
(* Each round of its loops is a step, since Go walks the registry's maps   *)
(* in no particular order; for the same reason the queue of the algorithm  *)
(* is the set of plugins that are ready.  The registry has no lock: hosts  *)
(* call it from one goroutine, and no call overlaps another.               *)
(***************************************************************************)
EXTENDS Integers, FiniteSets, Sequences

CONSTANTS
    Plugin,      \* plugin ids
    Capability,
    MaxBuilds    \* bound: calls of BuildDependencyGraph

ASSUME PluginsFinite == IsFiniteSet(Plugin)
ASSUME CapabilitiesFinite == IsFiniteSet(Capability)
ASSUME BuildsNat == MaxBuilds \in Nat

VARIABLES
    registered,  \* the keys of byID
    provides,    \* byCapability, seen from the plugin
    needs,       \* dependencies
    enabled,     \* plugins whose registration says Enabled
    links,       \* dependents: how often a provider lists a plugin
    startup,     \* sortedStartup
    phase,       \* "open" between calls, or the loop the build is in
    unlinked,    \* plugins whose dependencies are still to be resolved
    inDegree,    \* Kahn's count of the links a plugin still waits for
    ready,       \* Kahn's queue
    order,       \* the plugins taken from the queue
    result,      \* what the last build returned, until the next registration
    builds       \* builds begun

vars == <<registered, provides, needs, enabled, links, startup, phase, unlinked,
          inDegree, ready, order, result, builds>>
descriptors == <<registered, provides, needs, enabled>>

Providers(c) == {p \in registered : c \in provides[p]}

\* The links BuildDependencyGraph makes from p to a plugin for capabilities C.
LinkCount(p, C) == Cardinality(provides[p] \cap C)

\* The links a plugin waits for: one for each provider of each
\* capability it needs.
ProviderPairs(d) ==
    {pc \in registered \X Capability : pc[2] \in needs[d] \cap provides[pc[1]]}

Listed == {order[i] : i \in DOMAIN order}

TypeOK ==
    /\ registered \subseteq Plugin
    /\ provides \in [Plugin -> SUBSET Capability]
    /\ needs \in [Plugin -> SUBSET Capability]
    /\ enabled \subseteq registered
    /\ links \in [Plugin -> [Plugin -> Nat]]
    /\ startup \in Seq(Plugin) /\ order \in Seq(Plugin)
    /\ phase \in {"open", "linking", "sorting"}
    /\ unlinked \subseteq registered /\ ready \subseteq registered
    /\ inDegree \in [Plugin -> Int]
    /\ result \in {"none", "ok", "missing", "cycle"}
    /\ builds \in Nat

Init ==
    /\ registered = {}
    /\ provides = [p \in Plugin |-> {}]
    /\ needs = [p \in Plugin |-> {}]
    /\ enabled = {}
    /\ links = [p \in Plugin |-> [d \in Plugin |-> 0]]
    /\ startup = << >>
    /\ phase = "open"
    /\ unlinked = {}
    /\ inDegree = [p \in Plugin |-> 0]
    /\ ready = {}
    /\ order = << >>
    /\ result = "none"
    /\ builds = 0

\* A second registration of an id is refused and changes nothing.
UnregisteredOrNot(p) == TRUE
Unregistered(p) == p \notin registered

Register(p, C, D) ==
    /\ phase = "open"
    /\ Unregistered(p)
    /\ registered' = registered \cup {p}
    /\ provides' = [provides EXCEPT ![p] = C]
    /\ needs' = [needs EXCEPT ![p] = D]
    /\ enabled' = enabled \cup {p}
    /\ result' = "none"
    /\ UNCHANGED <<links, startup, phase, unlinked, inDegree, ready, order, builds>>

\* Neither looks at an unknown id.
Enable(p) ==
    /\ phase = "open"
    /\ p \in registered
    /\ enabled' = enabled \cup {p}
    /\ UNCHANGED <<registered, provides, needs, links, startup, phase, unlinked,
                   inDegree, ready, order, result, builds>>

Disable(p) ==
    /\ phase = "open"
    /\ p \in registered
    /\ enabled' = enabled \ {p}
    /\ UNCHANGED <<registered, provides, needs, links, startup, phase, unlinked,
                   inDegree, ready, order, result, builds>>

BeginBuild ==
    /\ phase = "open"
    /\ builds < MaxBuilds
    /\ phase' = "linking"
    /\ unlinked' = {d \in registered : needs[d] # {}}
    /\ result' = "none"
    /\ builds' = builds + 1
    /\ UNCHANGED <<descriptors, links, startup, inDegree, ready, order>>

\* d is appended to the dependents of every provider of the capabilities C.
AddDependent(d, C) ==
    links' = [p \in Plugin |-> [links[p] EXCEPT ![d] =
                 @ + (IF p \in registered THEN LinkCount(p, C) ELSE 0)]]

\* A capability nobody provides ends the build; the links made so far stay.
Link(d) ==
    LET met == {c \in needs[d] : Providers(c) # {}} IN
    /\ phase = "linking"
    /\ d \in unlinked
    /\ \/ /\ needs[d] \subseteq met
          /\ AddDependent(d, needs[d])
          /\ unlinked' = unlinked \ {d}
          /\ UNCHANGED <<phase, result>>
       \/ /\ ~(needs[d] \subseteq met)
          /\ \E C \in SUBSET met : AddDependent(d, C)
          /\ unlinked' = {}
          /\ phase' = "open"
          /\ result' = "missing"
    /\ UNCHANGED <<descriptors, startup, inDegree, ready, order, builds>>

BeginSortAll ==
    /\ phase = "linking"
    /\ unlinked = {}
    /\ inDegree' = [d \in Plugin |-> Cardinality(ProviderPairs(d))]
    /\ ready' = {d \in Plugin : Cardinality(ProviderPairs(d)) = 0}
    /\ order' = << >>
    /\ phase' = "sorting"
    /\ UNCHANGED <<descriptors, links, startup, unlinked, result, builds>>
BeginSort ==
    /\ phase = "linking"
    /\ unlinked = {}
    /\ inDegree' = [d \in Plugin |-> Cardinality(ProviderPairs(d))]
    /\ ready' = {d \in registered : Cardinality(ProviderPairs(d)) = 0}
    /\ order' = << >>
    /\ phase' = "sorting"
    /\ UNCHANGED <<descriptors, links, startup, unlinked, result, builds>>

\* p is taken from the queue.  A plugin joins the queue when its count, taken
\* down by one for each link from p, passes through zero.
FreedByAny(p) == {d \in Plugin : links[p][d] > 0} \ (Listed \cup {p})
Freed(p) == {d \in Plugin : 0 < inDegree[d] /\ inDegree[d] <= links[p][d]}

Take(p) ==
    /\ phase = "sorting"
    /\ p \in ready
    /\ order' = order \o <<p>>
    /\ inDegree' = [d \in Plugin |-> inDegree[d] - links[p][d]]
    /\ ready' = (ready \ {p}) \cup Freed(p)
    /\ UNCHANGED <<descriptors, links, startup, phase, unlinked, result, builds>>

\* A plugin that never became ready is on, or behind, a cycle.
CompleteAlways == TRUE
Complete == Len(order) = Cardinality(registered)

EndSort ==
    /\ phase = "sorting"
    /\ ready = {}
    /\ IF Complete
       THEN startup' = order /\ result' = "ok"
       ELSE UNCHANGED startup /\ result' = "cycle"
    /\ phase' = "open"
    /\ UNCHANGED <<descriptors, links, unlinked, inDegree, ready, order, builds>>

Next ==
    \/ \E p \in Plugin, C, D \in SUBSET Capability : Register(p, C, D)
    \/ BeginBuild \/ BeginSort \/ EndSort
    \/ \E p \in Plugin : Enable(p) \/ Disable(p) \/ Link(p) \/ Take(p)

Spec == Init /\ [][Next]_vars

-----------------------------------------------------------------------------
(* What the registry guarantees.                                           *)

DependsOn(d, p) == p \in registered /\ needs[d] \cap provides[p] # {}

InOrder(s) ==
    \A i \in DOMAIN s : \A j \in i .. Len(s) : ~DependsOn(s[i], s[j])

\* In the startup order every plugin comes after all the providers of what it
\* depends on, StartupOrder's "dependency-respecting startup order".
StartupRespectsDependencies == InOrder(startup)

Started == {startup[i] : i \in DOMAIN startup}
Cyclic == \E S \in SUBSET registered :
             S # {} /\ \A d \in S : \E p \in S : DependsOn(d, p)

\* A build fails for a cycle only if there is one and for a provider only if
\* one is missing, and succeeds only with every plugin in the order.
BuildReportsTruly ==
    /\ result = "ok" => ~Cyclic /\ Started = registered
    /\ result = "cycle" => Cyclic
    /\ result = "missing" => \E d \in registered : \E c \in needs[d] : Providers(c) = {}
=============================================================================
