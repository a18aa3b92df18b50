--------------------------- MODULE PluginStartup ---------------------------
(***************************************************************************)
(* How the two programs start (cmd/proxy, cmd/agent): both register the    *)
(* plugins that are linked into them; the proxy then reads a directory of  *)
(* manifests (pkg/plugindiscovery), orders the plugins and loads its       *)
(* policy; last, both make the plugins their configuration names, and      *)
(* serve.  Some failures end the program, others are logged and passed     *)
(* over: what is then left of the registry is what the properties are      *)
(* about.  Everything here is done by the main goroutine, and its steps on *)
(* the registry are those of PluginRegistry.                               *)
(***************************************************************************)
EXTENDS PluginRegistry, Functions

CONSTANTS
    ForPipeline,    \* linked plugins that handle requests of the proxy
    ForProvider,    \* linked plugins that speak to an identity provider
    Provided,      \* what each linked plugin provides
    Foreign,       \* an id that nothing is registered under
    NoPlugin,
    Configured,    \* what a configuration may list
    MaxManifests   \* bound: manifests in the directory

Linked == ForPipeline \cup ForProvider

ASSUME LinkedPlugins ==
    Linked \subseteq Plugin /\ Provided \in [Linked -> SUBSET Capability]
ASSUME NoPluginIsNone == {NoPlugin, Foreign} \cap Plugin = {}
ASSUME LinesKnown == Configured \subseteq Seq(Plugin \cup {Foreign})
ASSUME ManifestsNat == MaxManifests \in Nat

VARIABLES
    program,    \* which of the two it is
    stage,      \* where main is
    factories,  \* plugins whose factory can make an instance
    manifests,  \* manifests read
    turnOff,    \* the plugin of a manifest that says it is not enabled
    todo,       \* plugins of the configuration still to be made
    running     \* the plugins made for serving

own == <<program, factories, manifests, turnOff, todo, running>>
startVars == <<vars, own, stage>>

Stage == {"config", "store", "builtins", "discovery", "graph", "policy",
          "plugins", "serving", "stopped", "dead"}

StartTypeOK ==
    /\ TypeOK
    /\ program \in {"proxy", "agent"}
    /\ stage \in Stage
    /\ factories \subseteq registered
    /\ manifests \in 0 .. MaxManifests
    /\ turnOff \in registered \cup {NoPlugin}
    /\ turnOff # NoPlugin => stage = "discovery"
    /\ todo \in Seq(Plugin \cup {Foreign})
    /\ running \in Seq(Plugin)

StartInit ==
    /\ Init
    /\ program \in {"proxy", "agent"}
    /\ stage = "config"
    /\ factories = {}
    /\ manifests = 0
    /\ turnOff = NoPlugin
    /\ todo = << >>
    /\ running = << >>

Goto(from, to) == stage = from /\ stage' = to

LoadConfig ==
    /\ \/ Goto("config", IF program = "proxy" THEN "builtins" ELSE "store")
       \/ Goto("config", "dead")
    /\ UNCHANGED <<vars, own>>

\* The agent pings Redis before anything else.
OpenStore ==
    /\ Goto("store", "builtins") \/ Goto("store", "dead")
    /\ UNCHANGED <<vars, own>>

RegisterBuiltin(p) ==
    /\ stage = "builtins"
    /\ Register(p, Provided[p], {})
    /\ factories' = factories \cup {p}
    /\ UNCHANGED <<program, stage, manifests, turnOff, todo, running>>

\* Entries with an empty id are passed over.  The agent makes one plugin.
BuiltinsDone ==
    /\ Linked \subseteq registered
    /\ \/ /\ program = "proxy"
          /\ Goto("builtins", "discovery") \/ Goto("builtins", "policy")
          /\ UNCHANGED todo
       \/ /\ program = "agent"
          /\ Goto("builtins", "plugins")
          /\ \E s \in Configured : Len(s) = 1 /\ todo' = s
    /\ UNCHANGED <<vars, program, factories, manifests, turnOff, running>>

\* One manifest.  Its plugin gets a factory that always fails.
Discover(p, C, D) ==
    /\ stage = "discovery"
    /\ turnOff = NoPlugin
    /\ manifests < MaxManifests
    /\ Register(p, C, D)
    /\ manifests' = manifests + 1
    /\ turnOff' \in {p, NoPlugin}
    /\ UNCHANGED <<program, stage, factories, todo, running>>

TurnOff ==
    /\ turnOff # NoPlugin
    /\ Disable(turnOff)
    /\ turnOff' = NoPlugin
    /\ UNCHANGED <<program, stage, factories, manifests, todo, running>>

\* A manifest that cannot be read or names a plugin that is registered ends
\* the walk.  What was registered before it stays, and no graph is built.
DiscoveryFails ==
    /\ turnOff = NoPlugin
    /\ Goto("discovery", "policy")
    /\ UNCHANGED <<vars, own>>

\* A directory that does not exist is one without manifests.
DiscoveryDone ==
    /\ turnOff = NoPlugin
    /\ Goto("discovery", "graph")
    /\ BeginBuild
    /\ UNCHANGED own

Resolve(p) == stage = "graph" /\ Link(p) /\ UNCHANGED <<own, stage>>
BeginOrder == stage = "graph" /\ BeginSort /\ UNCHANGED <<own, stage>>
Order(p) == stage = "graph" /\ Take(p) /\ UNCHANGED <<own, stage>>
EndOrder == stage = "graph" /\ EndSort /\ UNCHANGED <<own, stage>>

\* A graph that could not be built is logged.
GraphNeeded == phase = "open" /\ result = "ok"
GraphOver == phase = "open"
GraphDone ==
    /\ GraphOver
    /\ Goto("graph", "policy")
    /\ UNCHANGED <<vars, own>>

LoadPolicy ==
    /\ \/ /\ Goto("policy", "plugins")
          /\ todo' \in Configured
       \/ Goto("policy", "dead") /\ UNCHANGED todo
    /\ UNCHANGED <<vars, program, factories, manifests, turnOff, running>>

\* Registered, with a factory that makes a plugin of the kind asked for.
FitWhenRegistered(p) == p \in registered
Fit(p) ==
    /\ p \in factories
    /\ p \in IF program = "proxy" THEN ForPipeline ELSE ForProvider

\* The configuration of a plugin may be refused.
MakePlugin ==
    /\ todo # << >>
    /\ \/ /\ Fit(Head(todo))
          /\ running' = Append(running, Head(todo))
          /\ todo' = Tail(todo)
          /\ Goto("plugins", "plugins")
       \/ Goto("plugins", "dead") /\ UNCHANGED <<running, todo>>
    /\ UNCHANGED <<vars, program, factories, manifests, turnOff>>

Listen ==
    /\ todo = << >>
    /\ Goto("plugins", "serving")
    /\ UNCHANGED <<vars, own>>

\* A signal, or a listener that fails.
Stop ==
    /\ Goto("serving", "stopped") \/ Goto("serving", "dead")
    /\ UNCHANGED <<vars, own>>

MainStep ==
    \/ LoadConfig \/ OpenStore \/ BuiltinsDone
    \/ TurnOff \/ DiscoveryFails \/ DiscoveryDone
    \/ BeginOrder \/ EndOrder \/ GraphDone
    \/ LoadPolicy \/ MakePlugin \/ Listen
    \/ \E p \in Linked : RegisterBuiltin(p)
    \/ \E p \in Plugin : Resolve(p) \/ Order(p)
    \/ \E p \in Plugin, C, D \in SUBSET Capability : Discover(p, C, D)

StartNext == MainStep \/ Stop

StartSpec == StartInit /\ [][StartNext]_startVars /\ WF_startVars(MainStep)

-----------------------------------------------------------------------------
(* What is left after a start.                                             *)

\* No manifest replaces, disables or takes the factory of a linked plugin.
LinkedKept ==
    stage \notin {"config", "store", "builtins", "dead"} =>
        /\ Linked \subseteq enabled \cap factories
        /\ \A p \in Linked : provides[p] = Provided[p] /\ needs[p] = {}

\* The plugins a program serves with are linked into it, of its kind and
\* enabled, although nothing looks at Enabled: a manifest can only disable
\* what it has itself registered, and that has no factory.
ServesEnabled ==
    \A i \in DOMAIN running :
        /\ running[i] \in enabled
        /\ running[i] \in IF program = "proxy" THEN ForPipeline ELSE ForProvider

\* pluginsList and pluginHealthList of the proxy's admin page: the startup
\* order, or everything when there is none.
AdminPage == IF startup = << >> THEN registered ELSE Range(startup)

\* The admin page shows every plugin, whatever failed during the start.
AdminShowsAll == stage = "serving" => AdminPage = registered

\* The start comes to an end, by serving or by giving up.
StartEnds == <>(stage \in {"serving", "stopped", "dead"})
=============================================================================
