------------------------ MODULE ProxyRequestsProofs ------------------------
(* Proofs about the proxy, for any requests, sessions, bundles and loads.  *)
EXTENDS ProxyRequests, TLAPS

\* Who a request may be: before the agent answered, a cookie whose session is
\* live now was live since the request came; after, a principal that was admitted.
KnownBearer(r) ==
    /\ pc[r] = "resolve" /\ cookie[r] \in live => bearer[r] = cookie[r]
    /\ pc[r] \notin {"idle", "resolve"} =>
        /\ principal[r] = NoOne \/ principal[r] = bearer[r]
        /\ Admitted(principal[r])

\* What a module's memory may hold for an evaluation: between its write and its
\* read, only inputs of the evaluations it overlaps.
OwnMemory(r) ==
    /\ pc[r] \in {"call", "read"} =>
        config.engine = "wasm" /\ input[using[r]] \in overlap[r]
    /\ pc[r] = "read" => output[r] \in overlap[r] \cup {NoInput}

\* A decision of the policy, with the module it was taken in.
Reasoned(r) ==
    LET d == decision[r] IN
    /\ d.by = "fallback" => d.allow = config.fallbackAllow
    /\ d.by = "leftover" => ~d.allow /\ config.engine = "wasm"
    /\ d.by = "policy" =>
        /\ d.on \in overlap[r]
        /\ config.engine = "rego" => d.on = principal[r]
        /\ using[r] # NoModule /\ bundle[using[r]] # NoBundle
        /\ d.allow = (d.on \in Permits[bundle[using[r]]])
    /\ pc[r] = "forwarded" => d.allow

\* A module that was picked up came from a load that was called.
Picked(r) == using[r] # NoModule => stage[using[r]] # "unused"

Sound(r) == KnownBearer(r) /\ OwnMemory(r) /\ Picked(r) /\ (pc[r] \in Decided => Reasoned(r))

Inv == TypeOK /\ OneModuleOpen /\ \A r \in Request : Sound(r)

LEMMA InitInv == Init => Inv
BY NothingIsNoValue
DEF Init, Inv, TypeOK, Config, Principal, Decision, PC, Evaluating, Decided, OneModuleOpen,
    Sound, KnownBearer, OwnMemory, Picked

-----------------------------------------------------------------------------
(* Types.                                                                  *)

\* A fallback, the policy's decision on an input and the denial of a leftover are
\* decisions.
LEMMA DecisionTaken ==
    ASSUME NEW r \in Request, NEW on \in Principal, TypeOK,
           Fallback(r) \/ Verdict(r, on) \/ Decide(r, "leftover", FALSE, on)
    PROVE  \E d \in Decision :
               Goto(r, "respond") /\ decision' = [decision EXCEPT ![r] = d]
<1>1. CASE Fallback(r)
  BY <1>1 DEF Fallback, Decide, Decision, TypeOK, Config
<1>2. CASE Verdict(r, on)
  <2>1. (on \in Permits[bundle[using[r]]]) \in BOOLEAN
    OBVIOUS
  <2>2. QED
    BY <1>2, <2>1 DEF Verdict, Decide, Decision
<1>3. CASE Decide(r, "leftover", FALSE, on)
  BY <1>3 DEF Decide, Decision
<1>4. QED
  BY <1>1, <1>2, <1>3

LEMMA TypesKept == Inv /\ [Next]_vars => TypeOK'
<1> SUFFICES ASSUME Inv, [Next]_vars PROVE TypeOK'
  OBVIOUS
<1> USE NothingIsNoValue DEF Inv, TypeOK, PC, Evaluating, Decided, Principal,
        request, evaluation, engine, memory
<1>1. ASSUME NEW r \in Request, Arrive(r) PROVE TypeOK'
  BY <1>1 DEF Arrive, Goto
<1>2. ASSUME NEW r \in Request, Resolve(r) PROVE TypeOK'
  BY <1>2 DEF Resolve, Goto, TurnAway, Resolved
<1>3. ASSUME NEW r \in Request, Pipeline(r) PROVE TypeOK'
  BY <1>3 DEF Pipeline, Goto, TurnAway, Decide, Decision
<1>4. ASSUME NEW r \in Request, Pick(r) PROVE TypeOK'
  <2>1. CASE module = NoModule
    BY <1>4, <2>1 DEF Pick, Goto, Fallback, Decide, Decision, Config
  <2>2. CASE module # NoModule
    BY <1>4, <2>2 DEF Pick, Goto
  <2>3. QED
    BY <2>1, <2>2
<1>5. ASSUME NEW r \in Request, EvalQuery(r) PROVE TypeOK'
  <2>1. PICK d \in Decision : Goto(r, "respond") /\ decision' = [decision EXCEPT ![r] = d]
    BY <1>5, DecisionTaken DEF EvalQuery, ResultOrFallback
  <2>2. QED
    BY <1>5, <2>1 DEF EvalQuery, Goto
<1>6. ASSUME NEW r \in Request, WriteInput(r) PROVE TypeOK'
  <2>1. Overlapping(r) \in [Request -> SUBSET Principal]
    BY DEF Overlapping, InMemory
  <2>2. output' = output \/ output' \in [Request -> Principal \cup {NoInput}]
    BY <1>6 DEF WriteInput, WriteOver
  <2>3. QED
    BY <1>6, <2>1, <2>2 DEF WriteInput, Goto, Fallback, Decide, Decision, Config
<1>7. ASSUME NEW r \in Request, Call(r) PROVE TypeOK'
  BY <1>7 DEF Call, Output, InMemory, Goto, Fallback, Decide, Decision, Config
<1>8. ASSUME NEW r \in Request, ReadOutput(r) PROVE TypeOK'
  <2>1. output[r] # NoInput => output[r] \in Principal
    BY <1>8 DEF ReadOutput, Sound, OwnMemory
  <2>2. PICK d \in Decision : Goto(r, "respond") /\ decision' = [decision EXCEPT ![r] = d]
    BY <1>8, <2>1, DecisionTaken DEF ReadOutput
  <2>3. QED
    BY <1>8, <2>2 DEF ReadOutput, Goto
<1>9. ASSUME NEW r \in Request, Respond(r) PROVE TypeOK'
  BY <1>9 DEF Respond, Forward, Goto, TurnAway
<1>10. ASSUME NEW l \in Load, Compile(l) \/ Install(l) \/ Refuse(l) PROVE TypeOK'
  <2>1. CASE Compile(l)
    BY <2>1 DEF Compile
  <2>2. CASE Install(l)
    <3>1. /\ stage' \in [Load -> {"unused", "compiled", "loaded", "replaced", "failed"}]
          /\ \A k \in Load : stage'[k] # "unused" => stage[k] # "unused" \/ k = module
      BY <2>2 DEF Install
    <3>2. module # NoModule => stage[module] = "loaded"
      BY DEF OneModuleOpen
    <3>3. QED
      BY <2>2, <3>1, <3>2 DEF Install
  <2>3. CASE Refuse(l)
    BY <2>3 DEF Refuse
  <2>4. QED
    BY <1>10, <2>1, <2>2, <2>3
<1>11. CASE SessionEnds \/ SessionReturns
  BY <1>11 DEF SessionEnds, SessionReturns
<1>12. CASE UNCHANGED vars
  BY <1>12 DEF vars
<1>13. QED
  BY <1>1, <1>2, <1>3, <1>4, <1>5, <1>6, <1>7, <1>8, <1>9, <1>10, <1>11, <1>12 DEF Next, Serve

-----------------------------------------------------------------------------
(* What a step leaves alone stays sound.                                   *)

\* The parts of the state that a request's soundness depends on, apart from the
\* sessions, loads and memories.
OfRequest(q) ==
    <<pc[q], cookie[q], principal[q], bearer[q], using[q], decision[q], overlap[q], output[q]>>

\* A request is as sound as before when nothing of it changes and no session
\* comes up, no load is undone and no input in its module's memory is replaced.
LEMMA StaysSound ==
    ASSUME Inv, NEW q \in Request, UNCHANGED <<config, OfRequest(q)>>,
           live' \subseteq live,
           \A l \in Load : stage[l] # "unused" =>
               stage'[l] # "unused" /\ bundle'[l] = bundle[l],
           pc[q] \in {"call", "read"} => input'[using[q]] = input[using[q]]
    PROVE  Sound(q)'
<1>1. Sound(q)
  BY DEF Inv
<1>2. KnownBearer(q)'
  BY <1>1 DEF Sound, KnownBearer, OfRequest, Admitted
<1>3. OwnMemory(q)'
  BY <1>1 DEF Sound, OwnMemory, OfRequest
<1>4. Picked(q)'
  BY <1>1 DEF Sound, Picked, OfRequest, Inv, TypeOK
<1>5. pc[q] \in Decided => Reasoned(q)'
  BY <1>1, <1>4 DEF Sound, Reasoned, Picked, OfRequest, Inv, TypeOK
<1>6. QED
  BY <1>2, <1>3, <1>4, <1>5 DEF Sound, OfRequest

-----------------------------------------------------------------------------
(* The steps of a request.                                                 *)

LEMMA ArriveSound == ASSUME Inv, NEW r \in Request, Arrive(r) PROVE \A q \in Request : Sound(q)'
<1>1. ASSUME NEW q \in Request, q # r PROVE Sound(q)'
  BY <1>1, StaysSound DEF Inv, TypeOK, Arrive, Goto, OfRequest, engine, memory
<1>2. Sound(r)'
  BY DEF Inv, TypeOK, Arrive, Goto, Sound, KnownBearer, OwnMemory, Picked, Decided, engine
<1>3. QED
  BY <1>1, <1>2

LEMMA ResolveSound == ASSUME Inv, NEW r \in Request, Resolve(r) PROVE \A q \in Request : Sound(q)'
<1> USE DEF Inv, TypeOK, Resolve, Goto, TurnAway, evaluation, engine, memory
<1>1. ASSUME NEW q \in Request, q # r PROVE Sound(q)'
  BY <1>1, StaysSound DEF OfRequest
<1>2. KnownBearer(r)'
  BY DEF Sound, KnownBearer, Resolved, Admitted
<1>3. OwnMemory(r)' /\ Picked(r)' /\ pc'[r] \notin Decided
  BY DEF Sound, OwnMemory, Picked, Decided
<1>4. QED
  BY <1>1, <1>2, <1>3 DEF Sound

LEMMA PipelineSound == ASSUME Inv, NEW r \in Request, Pipeline(r) PROVE \A q \in Request : Sound(q)'
<1> USE DEF Inv, TypeOK, Pipeline, Goto, TurnAway, Decide, request, engine, memory
<1>1. ASSUME NEW q \in Request, q # r PROVE Sound(q)'
  BY <1>1, StaysSound DEF OfRequest
<1>2. KnownBearer(r)' /\ OwnMemory(r)' /\ Picked(r)'
  BY DEF Sound, KnownBearer, OwnMemory, Picked, Admitted
<1>3. pc'[r] \in Decided => Reasoned(r)'
  BY DEF Reasoned, Decided
<1>4. QED
  BY <1>1, <1>2, <1>3 DEF Sound

\* A fallback has its reason.
LEMMA FallbackReasoned ==
    ASSUME TypeOK, NEW r \in Request, Fallback(r), UNCHANGED config
    PROVE  Reasoned(r)'
BY DEF TypeOK, Fallback, Decide, Goto, Reasoned

\* So has the decision of the policy on an input of the memory.
LEMMA VerdictReasoned ==
    ASSUME Inv, NEW r \in Request, NEW on \in Principal, Verdict(r, on),
           pc[r] \in Evaluating, on \in overlap'[r],
           config.engine = "rego" => on = principal[r],
           UNCHANGED <<config, principal, using, bundle>>
    PROVE  Reasoned(r)'
<1>1. using[r] # NoModule /\ bundle[using[r]] # NoBundle
  BY DEF Inv, TypeOK, Sound, Picked
<1>2. decision'[r] = [by |-> "policy", allow |-> on \in Permits[bundle[using[r]]], on |-> on]
  BY DEF Inv, TypeOK, Verdict, Decide
<1>3. pc'[r] = "respond"
  BY DEF Inv, TypeOK, Verdict, Decide, Goto
<1>4. QED
  BY <1>1, <1>2, <1>3 DEF Reasoned

LEMMA PickSound == ASSUME Inv, NEW r \in Request, Pick(r) PROVE \A q \in Request : Sound(q)'
<1> USE DEF Inv, TypeOK, Pick, Goto, request, engine, memory
<1>1. ASSUME NEW q \in Request, q # r PROVE Sound(q)'
  BY <1>1, StaysSound DEF OfRequest, Fallback, Decide
<1>2. CASE module = NoModule
  <2>1. KnownBearer(r)' /\ OwnMemory(r)' /\ Picked(r)'
    BY <1>2 DEF Sound, KnownBearer, OwnMemory, Picked, Admitted, Fallback, Decide
  <2>2. QED
    BY <1>1, <1>2, <2>1, FallbackReasoned DEF Sound
<1>3. CASE module # NoModule
  <2>1. stage[module] = "loaded"
    BY <1>3 DEF OneModuleOpen
  <2>2. KnownBearer(r)' /\ OwnMemory(r)' /\ Picked(r)' /\ pc'[r] \notin Decided
    BY <1>3, <2>1 DEF Sound, KnownBearer, OwnMemory, Picked, Admitted, Decided
  <2>3. QED
    BY <1>1, <2>2 DEF Sound
<1>4. QED
  BY <1>2, <1>3

LEMMA EvalQuerySound ==
    ASSUME Inv, NEW r \in Request, EvalQuery(r) PROVE \A q \in Request : Sound(q)'
<1> USE DEF Inv, TypeOK, EvalQuery, ResultOrFallback, request, engine, memory
<1>1. ASSUME NEW q \in Request, q # r PROVE Sound(q)'
  BY <1>1, StaysSound DEF OfRequest, Fallback, Verdict, Decide, Goto
<1>2. KnownBearer(r)' /\ OwnMemory(r)' /\ Picked(r)'
  BY DEF Sound, KnownBearer, OwnMemory, Picked, Admitted, Fallback, Verdict, Decide, Goto
<1>3. Reasoned(r)'
  BY FallbackReasoned, VerdictReasoned DEF Evaluating
<1>4. QED
  BY <1>1, <1>2, <1>3 DEF Sound

\* A write adds its input to what the evaluations it overlaps may find.
LEMMA WriteInputSound ==
    ASSUME Inv, NEW r \in Request, WriteInput(r) PROVE \A q \in Request : Sound(q)'
<1> USE DEF Inv, TypeOK, WriteInput, request, engine
<1>1. CASE Fallback(r) /\ UNCHANGED <<overlap, memory>>
  <2>1. ASSUME NEW q \in Request, q # r PROVE Sound(q)'
    BY <1>1, <2>1, StaysSound DEF OfRequest, Fallback, Decide, Goto, memory
  <2>2. KnownBearer(r)' /\ OwnMemory(r)' /\ Picked(r)' /\ Reasoned(r)'
    BY <1>1, FallbackReasoned
    DEF Sound, KnownBearer, OwnMemory, Picked, Admitted, Fallback, Decide, Goto, memory
  <2>3. QED
    BY <2>1, <2>2 DEF Sound
<1>2. CASE /\ Goto(r, "call")
           /\ input' = [input EXCEPT ![using[r]] = principal[r]]
           /\ overlap' = Overlapping(r)
           /\ WriteOver(r)
           /\ UNCHANGED decision
  <2>1. using[r] \in Load
    BY DEF Evaluating
  <2>2. ASSUME NEW q \in Request, q \notin InMemory(r), q # r PROVE Sound(q)'
    <3>1. overlap'[q] = overlap[q] /\ output'[q] = output[q]
      BY <1>2, <2>2 DEF Overlapping, WriteOver
    <3>2. pc[q] \in {"call", "read"} => using[q] # using[r]
      BY <2>2 DEF InMemory
    <3>3. QED
      BY <1>2, <2>1, <2>2, <3>1, <3>2, StaysSound DEF OfRequest, Goto
  <2>3. ASSUME NEW q \in InMemory(r) PROVE Sound(q)'
    <3>1. q \in Request /\ q # r /\ pc[q] \in {"call", "read"} /\ using[q] = using[r]
      BY DEF InMemory
    <3>2. overlap'[q] = overlap[q] \cup {principal[r]} /\ input'[using[q]] = principal[r]
      BY <1>2, <2>1, <3>1 DEF Overlapping
    <3>3. Sound(q) /\ pc'[q] = pc[q] /\ output'[q] \in {output[q], NoInput}
      BY <1>2, <3>1 DEF Goto, WriteOver
    <3>4. QED
      BY <1>2, <3>1, <3>2, <3>3 DEF Sound, KnownBearer, OwnMemory, Picked, Admitted, Decided
  <2>4. Sound(r)'
    <3>1. principal[r] \in overlap'[r] /\ input'[using[r]] = principal[r] /\ pc'[r] = "call"
      BY <1>2, <2>1 DEF Overlapping, Goto
    <3>2. QED
      BY <1>2, <3>1 DEF Sound, KnownBearer, OwnMemory, Picked, Admitted, Decided
  <2>5. QED
    BY <2>2, <2>3, <2>4
<1>3. QED
  BY <1>1, <1>2

\* A call reads an input of an overlapping evaluation, and leaves it to those
\* whose output it overwrites, which have the same input in their memory.
LEMMA CallSound == ASSUME Inv, NEW r \in Request, Call(r) PROVE \A q \in Request : Sound(q)'
<1> USE DEF Inv, TypeOK, Call, request, engine
<1>1. CASE Fallback(r) /\ UNCHANGED output
  <2>1. ASSUME NEW q \in Request, q # r PROVE Sound(q)'
    BY <1>1, <2>1, StaysSound DEF OfRequest, Fallback, Decide, Goto
  <2>2. KnownBearer(r)' /\ OwnMemory(r)' /\ Picked(r)' /\ Reasoned(r)'
    BY <1>1, FallbackReasoned
    DEF Sound, KnownBearer, OwnMemory, Picked, Admitted, Fallback, Decide, Goto
  <2>3. QED
    BY <2>1, <2>2 DEF Sound
<1>2. CASE Output(r) /\ Goto(r, "read") /\ UNCHANGED decision
  <2>1. ASSUME NEW q \in Request
        PROVE  \/ output'[q] = output[q] /\ q # r
               \/ /\ output'[q] = input[using[q]]
                  /\ q = r \/ pc[q] = "read"
    BY <1>2 DEF Output, InMemory
  <2>2. ASSUME NEW q \in Request PROVE Sound(q)'
    <3>1. pc'[q] = IF q = r THEN "read" ELSE pc[q]
      BY <1>2 DEF Goto
    <3>2. OwnMemory(q)'
      BY <1>2, <2>1, <3>1 DEF Sound, OwnMemory
    <3>3. KnownBearer(q)' /\ Picked(q)'
      BY <1>2, <3>1 DEF Sound, KnownBearer, Picked, Admitted
    <3>4. pc'[q] \in Decided => Reasoned(q)'
      BY <1>2, <3>1 DEF Sound, Reasoned, Decided
    <3>5. QED
      BY <3>2, <3>3, <3>4 DEF Sound
  <2>3. QED
    BY <2>2
<1>3. QED
  BY <1>1, <1>2

LEMMA ReadOutputSound ==
    ASSUME Inv, NEW r \in Request, ReadOutput(r) PROVE \A q \in Request : Sound(q)'
<1> USE DEF Inv, TypeOK, ReadOutput, request, engine, memory
<1>1. ASSUME NEW q \in Request, q # r PROVE Sound(q)'
  BY <1>1, StaysSound DEF OfRequest, Fallback, Verdict, Decide, Goto
<1>2. KnownBearer(r)' /\ OwnMemory(r)' /\ Picked(r)'
  BY DEF Sound, KnownBearer, OwnMemory, Picked, Admitted, Fallback, Verdict, Decide, Goto
<1>3. /\ config.engine = "wasm"
      /\ output[r] # NoInput => output[r] \in overlap[r] /\ output[r] \in Principal
  BY DEF Sound, OwnMemory
<1>4. Reasoned(r)'
  <2>1. CASE Decide(r, "leftover", FALSE, principal[r])
    BY <1>3, <2>1 DEF Decide, Goto, Reasoned
  <2>2. CASE Fallback(r) \/ (output[r] # NoInput /\ Verdict(r, output[r]))
    BY <1>3, <2>2, FallbackReasoned, VerdictReasoned DEF Evaluating
  <2>3. QED
    BY <2>1, <2>2
<1>5. QED
  BY <1>1, <1>2, <1>4 DEF Sound

LEMMA RespondSound == ASSUME Inv, NEW r \in Request, Respond(r) PROVE \A q \in Request : Sound(q)'
<1> USE DEF Inv, TypeOK, Respond, Forward, Goto, TurnAway, request, evaluation, engine, memory
<1>1. ASSUME NEW q \in Request, q # r PROVE Sound(q)'
  BY <1>1, StaysSound DEF OfRequest
<1>2. Sound(r)'
  BY DEF Sound, KnownBearer, OwnMemory, Picked, Admitted, Decided, Reasoned
<1>3. QED
  BY <1>1, <1>2

-----------------------------------------------------------------------------
(* The invariant.                                                          *)

\* A session that comes up is noted for the requests that wait with its cookie.
LEMMA ReturnsSound == ASSUME Inv, SessionReturns PROVE \A q \in Request : Sound(q)'
<1> USE DEF Inv, TypeOK, SessionReturns, evaluation, engine, memory
<1> SUFFICES ASSUME NEW q \in Request PROVE Sound(q)'
  OBVIOUS
<1>1. KnownBearer(q)'
  <2>1. Sound(q)
    OBVIOUS
  <2>2. PICK s \in Session \ live :
            /\ live' = live \cup {s}
            /\ bearer'[q] = IF pc[q] = "resolve" /\ cookie[q] = s THEN s ELSE bearer[q]
    OBVIOUS
  <2>3. QED
    BY <2>1, <2>2 DEF Sound, KnownBearer, Admitted
<1>2. OwnMemory(q)' /\ Picked(q)' /\ (pc[q] \in Decided => Reasoned(q)')
  BY DEF Sound, OwnMemory, Picked, Reasoned
<1>3. QED
  BY <1>1, <1>2 DEF Sound

\* Loads and ends of sessions leave the requests as they are.
LEMMA OthersSound ==
    ASSUME Inv, SessionEnds \/ \E l \in Load : Compile(l) \/ Install(l) \/ Refuse(l)
    PROVE  \A q \in Request : Sound(q)'
<1> USE DEF Inv, TypeOK, OfRequest, request, evaluation, memory
<1>1. ASSUME NEW l \in Load, Compile(l) \/ Install(l) \/ Refuse(l)
      PROVE  \A k \in Load : stage[k] # "unused" =>
                 stage'[k] # "unused" /\ bundle'[k] = bundle[k]
  BY <1>1 DEF Compile, Install, Refuse
<1>2. ASSUME NEW l \in Load, Compile(l) \/ Install(l) \/ Refuse(l)
      PROVE  UNCHANGED <<config, live, pc, request, evaluation, memory>>
  BY <1>2 DEF Compile, Install, Refuse
<1>3. CASE SessionEnds
  BY <1>3, StaysSound DEF SessionEnds, engine
<1>4. QED
  BY <1>1, <1>2, <1>3, StaysSound

\* A load installs its module and closes the one it replaces in one step.
LEMMA ModulesKept == Inv /\ [Next]_vars => OneModuleOpen'
<1> SUFFICES ASSUME Inv, [Next]_vars PROVE OneModuleOpen'
  OBVIOUS
<1> USE NothingIsNoValue DEF Inv, TypeOK, OneModuleOpen
<1>1. ASSUME NEW r \in Request, Arrive(r) \/ Serve(r) PROVE UNCHANGED engine
  BY <1>1 DEF Arrive, Serve, Resolve, Pipeline, Pick, EvalQuery, WriteInput, Call,
      ReadOutput, Respond
<1>2. ASSUME NEW l \in Load, Compile(l) \/ Refuse(l) PROVE OneModuleOpen'
  BY <1>2 DEF Compile, Refuse
<1>3. ASSUME NEW l \in Load, Install(l) PROVE OneModuleOpen'
  BY <1>3 DEF Install
<1>4. SessionEnds \/ SessionReturns \/ UNCHANGED vars => UNCHANGED engine
  BY DEF SessionEnds, SessionReturns, vars
<1>5. UNCHANGED engine => OneModuleOpen'
  BY DEF engine
<1>6. QED
  BY <1>1, <1>2, <1>3, <1>4, <1>5 DEF Next

LEMMA NextInv == Inv /\ [Next]_vars => Inv'
<1> SUFFICES ASSUME Inv, [Next]_vars PROVE \A q \in Request : Sound(q)'
  BY TypesKept, ModulesKept DEF Inv
<1>1. CASE UNCHANGED vars
  BY <1>1, StaysSound DEF vars, OfRequest, request, evaluation, engine, memory
<1>2. QED
  BY <1>1, ArriveSound, ResolveSound, PipelineSound, PickSound, EvalQuerySound,
     WriteInputSound, CallSound, ReadOutputSound, RespondSound, OthersSound, ReturnsSound
  DEF Next, Serve

THEOREM ProxyInvariant == Spec => []Inv
BY InitInv, NextInv, PTL DEF Spec

-----------------------------------------------------------------------------
(* What the proxy guarantees.                                              *)

\* The state of the proxy is well typed.
THEOREM ProxyTypes == Spec => []TypeOK
BY ProxyInvariant, PTL DEF Inv

\* A request reaches the upstream under its own session, live at some moment
\* between its arrival and the agent's answer whichever sessions end and return,
\* or, where authentication is not required, under none.
THEOREM ProxyIdentity == Spec => []ForwardedUnderOwnSession
<1>1. Inv => ForwardedUnderOwnSession
  BY DEF Inv, Sound, KnownBearer, Admitted, ForwardedUnderOwnSession
<1>2. QED
  BY <1>1, ProxyInvariant, PTL

\* A decision is the fallback, or the loaded bundle's on an input that shared
\* the memory with the evaluation, and only what is allowed is forwarded.
THEOREM ProxyDecisions == Spec => []DecidedForAReason
<1>1. Inv => DecidedForAReason
  BY DEF Inv, Sound, Reasoned, Decided, DecidedForAReason
<1>2. QED
  BY <1>1, ProxyInvariant, PTL

\* With Rego a policy's decision is about the input of the request it decides,
\* as the comment of the WASM engine has it of that one.
THEOREM RegoDecidesOnOwnInput == Spec => [](config.engine = "rego" => DecidedOnOwnInput)
<1>1. DecidedForAReason => (config.engine = "rego" => DecidedOnOwnInput)
  BY DEF DecidedForAReason, DecidedOnOwnInput
<1>2. QED
  BY <1>1, ProxyDecisions, PTL

\* The loaded module is open and every other module is closed.
THEOREM ProxyModules == Spec => []OneModuleOpen
BY ProxyInvariant, PTL DEF Inv

-----------------------------------------------------------------------------
(* The proxy is a gate.                                                    *)

gateVars == <<Rules, live, InForce, Place, Who, Judge, Heard>>

LEMMA GateInit == Init => Gate!Init
BY DEF Init, Gate!Init, Rules, InForce, BundleOf, Place, Who, Judge, Heard, Config, Principal,
       Gate!Principal, Evaluating

\* What stays of the state, all but one request.
Others(r) == \A q \in Request \ {r} :
    /\ UNCHANGED <<pc[q], cookie[q], principal[q], using[q], decision[q]>>
    /\ pc[q] \in {"call", "read"} => overlap'[q] = overlap[q]

\* The gate sees of a step of one request that request alone.
LEMMA GateOthers ==
    ASSUME NEW r \in Request, Others(r), UNCHANGED <<config, engine>>
    PROVE  /\ UNCHANGED <<Rules, InForce>>
           /\ \A q \in Request \ {r} : /\ Place'[q] = Place[q] /\ Who'[q] = Who[q]
                                       /\ Judge'[q] = Judge[q] /\ Heard'[q] = Heard[q]
<1>1. UNCHANGED <<Rules, InForce>>
  BY DEF Rules, InForce, BundleOf, engine
<1>2. ASSUME NEW q \in Request \ {r} PROVE Place'[q] = Place[q]
  BY DEF Others, Place
<1>3. ASSUME NEW q \in Request \ {r} PROVE Who'[q] = Who[q]
  BY <1>2 DEF Others, Who
<1>4. ASSUME NEW q \in Request \ {r} PROVE Judge'[q] = Judge[q]
  BY DEF Others, Judge, BundleOf, engine
<1>5. ASSUME NEW q \in Request \ {r} PROVE Heard'[q] = Heard[q]
  BY DEF Others, Heard
<1>6. QED
  BY <1>1, <1>2, <1>3, <1>4, <1>5

\* The step as the gate sees it, from what it makes of the request.
LEMMA GateStep ==
    ASSUME NEW r \in Request, Others(r), UNCHANGED <<config, engine>>
    PROVE  /\ UNCHANGED <<Rules, InForce>>
           /\ Place' = [Place EXCEPT ![r] = Place'[r]]
           /\ Who' = [Who EXCEPT ![r] = Who'[r]]
           /\ Judge' = [Judge EXCEPT ![r] = Judge'[r]]
           /\ Heard' = [Heard EXCEPT ![r] = Heard'[r]]
           /\ Place'[r] = Place[r] => Place' = Place
           /\ Who'[r] = Who[r] => Who' = Who
           /\ Judge'[r] = Judge[r] => Judge' = Judge
           /\ Heard'[r] = Heard[r] => Heard' = Heard
<1>1. /\ DOMAIN Place = Request /\ DOMAIN Place' = Request
      /\ Place = [q \in Request |-> Place[q]] /\ Place' = [q \in Request |-> Place'[q]]
  BY DEF Place
<1>2. /\ DOMAIN Who = Request /\ DOMAIN Who' = Request
      /\ Who = [q \in Request |-> Who[q]] /\ Who' = [q \in Request |-> Who'[q]]
  BY DEF Who
<1>3. /\ DOMAIN Judge = Request /\ DOMAIN Judge' = Request
      /\ Judge = [q \in Request |-> Judge[q]] /\ Judge' = [q \in Request |-> Judge'[q]]
  BY DEF Judge
<1>4. /\ DOMAIN Heard = Request /\ DOMAIN Heard' = Request
      /\ Heard = [q \in Request |-> Heard[q]] /\ Heard' = [q \in Request |-> Heard'[q]]
  BY DEF Heard
<1>5. QED
  BY <1>1, <1>2, <1>3, <1>4, GateOthers

\* Where the gate has a request, by where the proxy has it.
AtGate(r) ==
    /\ pc[r] = "idle" => Place[r] = "away" /\ Who[r] = NoOne
    /\ pc[r] = "resolve" => Place[r] = "waiting" /\ Who[r] = cookie[r]
    /\ pc[r] = "pipeline" => Place[r] = "known" /\ Who[r] = principal[r]
    /\ pc[r] = "policy" => Place[r] = "asking" /\ Who[r] = principal[r]
    /\ pc[r] \in Evaluating =>
           Place[r] = "judging" /\ Who[r] = principal[r] /\ Judge[r] = BundleOf(using[r])
    /\ pc[r] = "respond" /\ decision[r].allow => Place[r] = "allowed" /\ Who[r] = principal[r]
    /\ pc[r] = "respond" /\ ~decision[r].allow => Place[r] = "away" /\ Who[r] = NoOne
    /\ pc[r] = "forwarded" => Place[r] = "passed" /\ Who[r] = principal[r]
    /\ pc[r] \notin Evaluating => Judge[r] = NoBundle
    /\ pc[r] \notin {"call", "read"} => Heard[r] = {}
    /\ pc[r] \in {"call", "read"} => Heard[r] = overlap[r]

LEMMA GatePlaces == \A r \in Request : AtGate(r) /\ AtGate(r)'
<1>1. ASSUME NEW r \in Request PROVE AtGate(r)
  BY DEF AtGate, Place, Who, Judge, Heard, Evaluating
<1>2. ASSUME NEW r \in Request PROVE AtGate(r)'
  BY DEF AtGate, Place, Who, Judge, Heard, Evaluating, BundleOf
<1>3. QED
  BY <1>1, <1>2

LEMMA ArriveEnters == ASSUME Inv, NEW r \in Request, Arrive(r) PROVE Gate!Enter(r)
<1>1. /\ Others(r) /\ UNCHANGED <<config, engine, live>>
      /\ pc[r] \in {"idle", "forwarded"} /\ pc'[r] = "resolve"
      /\ \E s \in Principal : cookie'[r] = s
  BY DEF Inv, TypeOK, Arrive, Goto, Others, memory
<1>2. AtGate(r) /\ AtGate(r)'
  BY GatePlaces
<1>3. Judge' = Judge /\ Heard' = Heard
  BY <1>1, <1>2, GateStep DEF AtGate, Evaluating
<1>4. Place[r] \in {"away", "passed"} /\ Place' = [Place EXCEPT ![r] = "waiting"]
  BY <1>1, <1>2, GateStep DEF AtGate
<1>5. \E s \in Gate!Principal : Who' = [Who EXCEPT ![r] = s]
  BY <1>1, <1>2, GateStep DEF AtGate, Principal, Gate!Principal
<1>6. QED
  BY <1>1, <1>3, <1>4, <1>5, GateStep DEF Gate!Enter, Gate!Move

\* A request the proxy answers itself leaves the gate.
LEMMA LeavesGate ==
    ASSUME NEW r \in Request, Others(r), UNCHANGED <<config, engine, live>>,
           pc[r] \in {"resolve", "pipeline", "policy"} \cup Evaluating,
           pc'[r] = "idle" \/ (pc'[r] = "respond" /\ ~decision'[r].allow)
    PROVE  Gate!TurnAway(r)
<1>1. AtGate(r) /\ AtGate(r)'
  BY GatePlaces
<1>2. Place[r] \notin {"away", "passed"}
  BY <1>1 DEF AtGate
<1>3. Place'[r] = "away" /\ Who'[r] = NoOne /\ Judge'[r] = NoBundle /\ Heard'[r] = {}
  BY <1>1 DEF AtGate, Evaluating
<1>4. QED
  BY <1>2, <1>3, GateStep DEF Gate!TurnAway, Gate!Dismiss

\* An allowed request is done with its judge.
LEMMA AllowedAtGate ==
    ASSUME NEW r \in Request, Others(r), UNCHANGED <<config, engine, live, principal>>,
           pc[r] \in {"pipeline", "policy"} \cup Evaluating,
           pc'[r] = "respond", decision'[r].allow,
           pc[r] = "policy" => module = NoModule /\ config.fallbackAllow,
           pc[r] \in Evaluating =>
               config.fallbackAllow \/ Gate!Judged(r) \cap Permits[Judge[r]] # {}
    PROVE  Gate!Allow(r)
<1>1. AtGate(r) /\ AtGate(r)'
  BY GatePlaces
<1>2. Place' = [Place EXCEPT ![r] = "allowed"] /\ UNCHANGED Who
  BY <1>1, GateStep DEF AtGate
<1>3. Gate!Dismiss(r)
  BY <1>1, GateStep DEF AtGate, Evaluating, Gate!Dismiss
<1>4. Rules.fallbackAllow = config.fallbackAllow
  BY DEF Rules
<1>5. module = NoModule => InForce = NoBundle
  BY DEF InForce, BundleOf
<1>6. QED
  BY <1>1, <1>2, <1>3, <1>4, <1>5 DEF AtGate, Gate!Allow, Gate!Move

LEMMA FallbackAtGate ==
    ASSUME Inv, NEW r \in Request, Fallback(r), Others(r),
           UNCHANGED <<config, engine, live, principal>>,
           (pc[r] = "policy" /\ module = NoModule) \/ pc[r] \in Evaluating
    PROVE  Gate!Allow(r) \/ Gate!TurnAway(r)
<1>1. pc'[r] = "respond" /\ decision'[r].allow = config.fallbackAllow
  BY DEF Inv, TypeOK, Fallback, Decide, Goto
<1>2. pc[r] \in {"pipeline", "policy"} \cup Evaluating /\ (pc[r] = "policy" => module = NoModule)
  BY DEF Evaluating
<1>3. QED
  BY <1>1, <1>2, AllowedAtGate, LeavesGate

LEMMA VerdictAtGate ==
    ASSUME Inv, NEW r \in Request, NEW on \in Principal, Verdict(r, on), Others(r),
           UNCHANGED <<config, engine, live, principal>>,
           pc[r] \in Evaluating, on \in Gate!Judged(r)
    PROVE  Gate!Allow(r) \/ Gate!TurnAway(r)
<1>1. pc'[r] = "respond" /\ decision'[r].allow = (on \in Permits[bundle[using[r]]])
  BY DEF Inv, TypeOK, Verdict, Decide, Goto
<1>2. using[r] # NoModule /\ pc[r] # "policy"
  BY DEF Inv, TypeOK, Evaluating
<1>3. Judge[r] = bundle[using[r]]
  BY <1>2, GatePlaces DEF AtGate, BundleOf
<1>4. decision'[r].allow => Gate!Judged(r) \cap Permits[Judge[r]] # {}
  BY <1>1, <1>3
<1>5. CASE decision'[r].allow
  BY <1>1, <1>2, <1>4, <1>5, AllowedAtGate
<1>6. CASE ~decision'[r].allow
  BY <1>1, <1>6, LeavesGate
<1>7. QED
  BY <1>5, <1>6

LEMMA ResolveAtGate ==
    ASSUME Inv, NEW r \in Request, Resolve(r) PROVE Gate!Identify(r) \/ Gate!TurnAway(r)
<1>1. Others(r) /\ UNCHANGED <<config, engine, live, cookie>> /\ pc[r] = "resolve"
  BY DEF Inv, TypeOK, Resolve, Goto, TurnAway, Others, evaluation, memory
<1>2. CASE pc'[r] = "idle"
  BY <1>1, <1>2, LeavesGate DEF Evaluating
<1>3. CASE pc'[r] = "pipeline"
  <2>1. /\ principal'[r] \in {NoOne} \cup ({cookie[r]} \cap live)
        /\ config.requireAuth => principal'[r] # NoOne
    BY <1>3 DEF Inv, TypeOK, Resolve, Goto, TurnAway, Resolved, Admitted
  <2>2. AtGate(r) /\ AtGate(r)'
    BY GatePlaces
  <2>3. Place[r] = "waiting" /\ Place' = [Place EXCEPT ![r] = "known"]
    BY <1>1, <1>3, <2>2, GateStep DEF AtGate
  <2>4. /\ Who' = [Who EXCEPT ![r] = principal'[r]] /\ Who[r] = cookie[r]
        /\ Who'[r] = principal'[r]
    BY <1>1, <1>3, <2>2, GateStep DEF AtGate
  <2>5. principal'[r] \in {NoOne} \cup ({Who[r]} \cap live)
    BY <2>1, <2>4
  <2>6. Judge' = Judge /\ Heard' = Heard
    BY <1>1, <1>3, <2>2, GateStep DEF AtGate, Evaluating
  <2>7. Rules.requireAuth => principal'[r] # NoOne
    BY <2>1 DEF Rules
  <2>8. QED
    BY <1>1, <2>3, <2>4, <2>5, <2>6, <2>7, GateStep DEF Gate!Identify, Gate!Move
<1>4. QED
  BY <1>2, <1>3 DEF Inv, TypeOK, Resolve, Goto, TurnAway

LEMMA PipelineAtGate ==
    ASSUME Inv, NEW r \in Request, Pipeline(r)
    PROVE  Gate!Ask(r) \/ Gate!Allow(r) \/ Gate!TurnAway(r)
<1>1. /\ Others(r) /\ UNCHANGED <<config, engine, live, principal>> /\ pc[r] = "pipeline"
      /\ pc'[r] \in {"idle", "respond", "policy"}
  BY DEF Inv, TypeOK, Pipeline, Goto, TurnAway, Decide, Others, request, memory
<1>2. CASE pc'[r] = "idle"
  BY <1>1, <1>2, LeavesGate DEF Evaluating
<1>3. CASE pc'[r] = "respond"
  BY <1>1, <1>3, LeavesGate, AllowedAtGate DEF Evaluating
<1>4. CASE pc'[r] = "policy"
  <2>1. AtGate(r) /\ AtGate(r)'
    BY GatePlaces
  <2>2. Place[r] = "known" /\ Place' = [Place EXCEPT ![r] = "asking"]
    BY <1>1, <1>4, <2>1, GateStep DEF AtGate
  <2>3. Who' = Who /\ Judge' = Judge /\ Heard' = Heard
    BY <1>1, <1>4, <2>1, GateStep DEF AtGate, Evaluating
  <2>4. QED
    BY <1>1, <2>2, <2>3, GateStep DEF Gate!Ask, Gate!Move
<1>5. QED
  BY <1>1, <1>2, <1>3, <1>4

LEMMA PickAtGate ==
    ASSUME Inv, NEW r \in Request, Pick(r)
    PROVE  Gate!Consult(r) \/ Gate!Allow(r) \/ Gate!TurnAway(r)
<1>1. Others(r) /\ UNCHANGED <<config, engine, live, principal>> /\ pc[r] = "policy"
  BY DEF Inv, TypeOK, Pick, Goto, Fallback, Decide, Others, request, memory
<1>2. CASE module = NoModule
  BY <1>1, <1>2, FallbackAtGate DEF Pick
<1>3. CASE module # NoModule
  <2>1. pc'[r] = "evaluate" /\ using'[r] = module
    BY <1>3 DEF Inv, TypeOK, Pick, Goto
  <2>2. AtGate(r) /\ AtGate(r)'
    BY GatePlaces
  <2>3. module \in Load /\ stage[module] = "loaded" /\ bundle[module] # NoBundle
    BY <1>3 DEF Inv, TypeOK, OneModuleOpen
  <2>4. InForce = bundle[module] /\ InForce # NoBundle /\ Judge'[r] = InForce
    BY <1>1, <1>3, <2>1, <2>2, <2>3 DEF AtGate, InForce, BundleOf, Evaluating, engine
  <2>5. Place[r] = "asking" /\ Place' = [Place EXCEPT ![r] = "judging"]
    BY <1>1, <2>1, <2>2, GateStep DEF AtGate, Evaluating
  <2>6. Who' = Who /\ Heard' = Heard
    BY <1>1, <2>1, <2>2, GateStep DEF AtGate, Evaluating
  <2>7. QED
    BY <1>1, <2>4, <2>5, <2>6, GateStep DEF Gate!Consult, Gate!Move
<1>4. QED
  BY <1>2, <1>3

LEMMA EvalQueryAtGate ==
    ASSUME Inv, NEW r \in Request, EvalQuery(r) PROVE Gate!Allow(r) \/ Gate!TurnAway(r)
<1>1. /\ Others(r) /\ UNCHANGED <<config, engine, live, principal>>
      /\ pc[r] = "evaluate" /\ pc[r] \in Evaluating /\ config.engine = "rego"
  BY DEF Inv, TypeOK, EvalQuery, ResultOrFallback, Fallback, Verdict, Decide, Goto, Others,
         request, memory, Evaluating
<1>2. principal[r] \in Gate!Judged(r) /\ principal[r] \in Principal
  BY <1>1, GatePlaces DEF AtGate, Gate!Judged, Rules, Inv, TypeOK
<1>3. QED
  BY <1>1, <1>2, FallbackAtGate, VerdictAtGate DEF EvalQuery, ResultOrFallback

\* The output of a call is about an input of the shared memory.
LEMMA ReadOutputAtGate ==
    ASSUME Inv, NEW r \in Request, ReadOutput(r) PROVE Gate!Allow(r) \/ Gate!TurnAway(r)
<1>1. /\ Others(r) /\ UNCHANGED <<config, engine, live, principal>>
      /\ pc[r] = "read" /\ pc[r] \in Evaluating
  BY DEF Inv, TypeOK, ReadOutput, Fallback, Verdict, Decide, Goto, Others, request, memory,
         Evaluating
<1>2. /\ config.engine = "wasm"
      /\ output[r] # NoInput => output[r] \in overlap[r] /\ output[r] \in Principal
  BY <1>1 DEF Inv, TypeOK, Sound, OwnMemory
<1>3. output[r] # NoInput => output[r] \in Gate!Judged(r)
  BY <1>1, <1>2, GatePlaces DEF AtGate, Gate!Judged, Rules
<1>4. CASE Decide(r, "leftover", FALSE, principal[r])
  <2>1. pc'[r] = "respond" /\ ~decision'[r].allow
    BY <1>4 DEF Inv, TypeOK, Decide, Goto
  <2>2. QED
    BY <1>1, <2>1, LeavesGate
<1>5. QED
  BY <1>1, <1>2, <1>3, <1>4, FallbackAtGate, VerdictAtGate DEF ReadOutput

\* A write to the memory is a hearing shared with those that are in it.
LEMMA WriteInputAtGate ==
    ASSUME Inv, NEW r \in Request, WriteInput(r)
    PROVE  Gate!Hear(r) \/ Gate!Allow(r) \/ Gate!TurnAway(r)
<1>1. /\ UNCHANGED <<config, engine, live, cookie, principal, using>>
      /\ config.engine = "wasm" /\ pc[r] = "evaluate" /\ pc[r] \in Evaluating
  BY DEF Inv, TypeOK, WriteInput, request, Evaluating
<1>2. CASE Fallback(r) /\ UNCHANGED <<overlap, memory>>
  <2>1. Others(r)
    BY <1>1, <1>2 DEF Inv, TypeOK, Fallback, Decide, Goto, Others
  <2>2. QED
    BY <1>1, <1>2, <2>1, FallbackAtGate
<1>3. CASE Goto(r, "call") /\ overlap' = Overlapping(r) /\ UNCHANGED decision
  <2> DEFINE Q == InMemory(r)
  <2>1. pc' = [pc EXCEPT ![r] = "call"] /\ pc'[r] = "call" /\ pc \in [Request -> PC]
    BY <1>3 DEF Inv, TypeOK, Goto
  <2>2. UNCHANGED <<Rules, InForce>>
    BY <1>1 DEF Rules, InForce, BundleOf, engine
  <2>3. \A q \in Request :
           /\ q # r => pc'[q] = pc[q]
           /\ pc'[q] \in Evaluating <=> pc[q] \in Evaluating
    BY <2>1, <1>1 DEF Evaluating
  <2>4. Judge' = Judge
    BY <1>1, <2>3 DEF Judge, BundleOf, engine
  <2>5. Place' = Place
    BY <1>1, <1>3, <2>1, <2>3 DEF Place, Evaluating
  <2>6. Who' = Who
    BY <1>1, <2>5 DEF Who
  <2>7. ASSUME NEW q \in Q
        PROVE  /\ q \in Request /\ q # r /\ pc[q] \in {"call", "read"}
               /\ Judge[q] = Judge[r] /\ Heard[q] = overlap[q] /\ Heard[q] # {}
               /\ Who[q] = principal[q]
    <3>1. q \in Request /\ q # r /\ pc[q] \in {"call", "read"} /\ using[q] = using[r]
      BY DEF InMemory
    <3>2. pc[q] \in Evaluating
      BY <3>1 DEF Evaluating
    <3>3. overlap[q] # {}
      BY <3>1 DEF Inv, Sound, OwnMemory
    <3>4. QED
      BY <1>1, <3>1, <3>2, <3>3, GatePlaces DEF AtGate
  <2>8. Place[r] = "judging" /\ Heard[r] = {} /\ Who[r] = principal[r]
    BY <1>1, GatePlaces DEF AtGate
  <2>9. Q \in SUBSET {q \in Request : Judge[q] = Judge[r] /\ Heard[q] # {}}
    BY <2>7
  <2>10. {Who[o] : o \in Q} = {principal[o] : o \in Q}
    BY <2>7
  <2>11. ASSUME NEW q \in Request
         PROVE  Heard'[q] = CASE q = r -> {Who[r]} \cup {Who[o] : o \in Q}
                              [] q \in Q -> Heard[q] \cup {Who[r]}
                              [] OTHER -> Heard[q]
    <3>1. overlap'[q] = CASE q = r -> {principal[r]} \cup {principal[o] : o \in Q}
                          [] q \in Q -> overlap[q] \cup {principal[r]}
                          [] OTHER -> overlap[q]
      BY <1>3 DEF Overlapping
    <3>2. Heard'[q] = IF pc'[q] \in {"call", "read"} THEN overlap'[q] ELSE {}
      BY DEF Heard
    <3>3. CASE q = r
      <4>1. r \notin Q
        BY <2>7
      <4>2. overlap'[r] = {Who[r]} \cup {Who[o] : o \in Q}
        BY <2>8, <2>10, <3>1, <3>3, <4>1
      <4>3. Heard'[r] = overlap'[r]
        BY <2>1, <3>2, <3>3
      <4>4. QED
        BY <3>3, <4>1, <4>2, <4>3
    <3>4. CASE q \in Q
      <4>1. /\ q # r /\ pc[q] \in {"call", "read"} /\ pc'[q] = pc[q]
            /\ Heard[q] = overlap[q]
        BY <2>3, <2>7, <3>4
      <4>2. Heard'[q] = Heard[q] \cup {Who[r]}
        BY <2>8, <3>1, <3>2, <3>4, <4>1
      <4>3. QED
        BY <3>4, <4>1, <4>2
    <3>5. CASE q # r /\ q \notin Q
      BY <2>3, <3>1, <3>2, <3>5 DEF Heard
    <3>6. QED
      BY <3>3, <3>4, <3>5
  <2>12. Heard' = [q \in Request |-> CASE q = r -> {Who[r]} \cup {Who[o] : o \in Q}
                                       [] q \in Q -> Heard[q] \cup {Who[r]}
                                       [] OTHER -> Heard[q]]
    <3>1. Heard' = [q \in Request |-> Heard'[q]]
      BY DEF Heard
    <3>2. QED
      BY <2>11, <3>1
  <2>13. Rules.shared
    BY <1>1 DEF Rules
  <2>14. QED
    BY <1>1, <2>2, <2>4, <2>5, <2>6, <2>8, <2>9, <2>12, <2>13 DEF Gate!Hear
<1>4. QED
  BY <1>2, <1>3 DEF WriteInput

\* A call that does not fail is no step of the gate.
LEMMA CallAtGate ==
    ASSUME Inv, NEW r \in Request, Call(r)
    PROVE  Gate!Allow(r) \/ Gate!TurnAway(r) \/ UNCHANGED gateVars
<1>1. /\ Others(r) /\ UNCHANGED <<config, engine, live, principal, using, overlap>>
      /\ pc[r] = "call" /\ pc[r] \in Evaluating
  BY DEF Inv, TypeOK, Call, Fallback, Decide, Goto, Others, request, Evaluating
<1>2. CASE Fallback(r)
  BY <1>1, <1>2, FallbackAtGate
<1>3. CASE Goto(r, "read") /\ UNCHANGED decision
  <2>1. pc'[r] = "read" /\ pc'[r] \in Evaluating
    BY <1>3 DEF Inv, TypeOK, Goto, Evaluating
  <2>2. AtGate(r) /\ AtGate(r)'
    BY GatePlaces
  <2>3. BundleOf(using[r])' = BundleOf(using[r])
    BY <1>1 DEF BundleOf, engine
  <2>4. Place'[r] = Place[r] /\ Who'[r] = Who[r] /\ Judge'[r] = Judge[r] /\ Heard'[r] = Heard[r]
    BY <1>1, <2>1, <2>2, <2>3 DEF AtGate
  <2>5. QED
    BY <1>1, <2>4, GateStep DEF gateVars
<1>4. QED
  BY <1>2, <1>3 DEF Call

LEMMA RespondAtGate ==
    ASSUME Inv, NEW r \in Request, Respond(r) PROVE Gate!Pass(r) \/ UNCHANGED gateVars
<1>1. /\ Others(r) /\ UNCHANGED <<config, engine, live, principal, decision>>
      /\ pc[r] = "respond"
      /\ pc'[r] = IF decision[r].allow THEN "forwarded" ELSE "idle"
  BY DEF Inv, TypeOK, Respond, Forward, TurnAway, Goto, Others, request, evaluation, memory
<1>2. AtGate(r) /\ AtGate(r)'
  BY GatePlaces
<1>3. Judge'[r] = Judge[r] /\ Heard'[r] = Heard[r]
  BY <1>1, <1>2 DEF AtGate, Evaluating
<1>4. CASE decision[r].allow
  <2>1. Place[r] = "allowed" /\ Place' = [Place EXCEPT ![r] = "passed"] /\ Who' = Who
    BY <1>1, <1>2, <1>4, GateStep DEF AtGate
  <2>2. QED
    BY <1>1, <1>3, <2>1, GateStep DEF Gate!Pass, Gate!Move
<1>5. CASE ~decision[r].allow
  <2>1. Place'[r] = Place[r] /\ Who'[r] = Who[r]
    BY <1>1, <1>2, <1>5 DEF AtGate
  <2>2. QED
    BY <1>1, <1>3, <2>1, GateStep DEF gateVars
<1>6. QED
  BY <1>4, <1>5

-----------------------------------------------------------------------------
(* Loads, and ends and returns of sessions.                                *)

\* What a load does to the bundles of others is nothing; the modules in use and
\* in force came from a load that was called before.
LEMMA LoadAtGate ==
    ASSUME Inv, NEW l \in Load, Compile(l) \/ Install(l) \/ Refuse(l)
    PROVE  Gate!NewPolicy \/ UNCHANGED gateVars
<1>1. /\ UNCHANGED <<config, live, pc, cookie, principal, using, decision, overlap>>
      /\ \A k \in Load : stage[k] # "unused" => bundle'[k] = bundle[k]
  BY DEF Inv, TypeOK, Compile, Install, Refuse, request, evaluation
<1>2. \A r \in Request : pc[r] \in Evaluating => BundleOf(using[r])' = BundleOf(using[r])
  BY <1>1 DEF Inv, TypeOK, Sound, Picked, BundleOf
<1>3. Judge' = Judge
  BY <1>1, <1>2 DEF Judge
<1>4. Place' = Place
  BY <1>1 DEF Place
<1>5. Who' = Who /\ Heard' = Heard /\ Rules' = Rules
  BY <1>1, <1>4 DEF Who, Heard, Rules
<1>6. CASE module' = module
  <2>1. module # NoModule => stage[module] # "unused"
    BY DEF Inv, TypeOK, OneModuleOpen
  <2>2. InForce' = InForce
    BY <1>1, <1>6, <2>1 DEF InForce, BundleOf, Inv, TypeOK
  <2>3. QED
    BY <1>1, <1>3, <1>4, <1>5, <2>2 DEF gateVars
<1>7. CASE Install(l)
  <2>1. bundle[l] \in Bundle /\ bundle' = bundle /\ module' = l /\ l # NoModule
    BY <1>7, NothingIsNoValue DEF Inv, TypeOK, Install
  <2>2. InForce' \in Bundle
    BY <2>1 DEF InForce, BundleOf
  <2>3. QED
    BY <1>1, <1>3, <1>4, <1>5, <2>2 DEF Gate!NewPolicy
<1>8. QED
  BY <1>6, <1>7 DEF Compile, Refuse

LEMMA SessionEndsAtGate == ASSUME SessionEnds PROVE Gate!SessionEnds
<1>1. /\ UNCHANGED <<config, pc, cookie, principal, using, decision, overlap, module, bundle>>
      /\ \E s \in live : live' = live \ {s}
  BY DEF SessionEnds, request, evaluation, engine
<1>2. UNCHANGED <<Rules, InForce, Place, Judge, Heard>>
  BY <1>1 DEF Rules, InForce, BundleOf, Place, Judge, Heard
<1>3. UNCHANGED Who
  BY <1>1, <1>2 DEF Who
<1>4. QED
  BY <1>1, <1>2, <1>3 DEF Gate!SessionEnds

LEMMA SessionReturnsAtGate == ASSUME SessionReturns PROVE Gate!SessionReturns
<1>1. /\ UNCHANGED <<config, pc, cookie, principal, using, decision, overlap, module, bundle>>
      /\ \E s \in Session \ live : live' = live \cup {s}
  BY DEF SessionReturns, evaluation, engine
<1>2. UNCHANGED <<Rules, InForce, Place, Judge, Heard>>
  BY <1>1 DEF Rules, InForce, BundleOf, Place, Judge, Heard
<1>3. UNCHANGED Who
  BY <1>1, <1>2 DEF Who
<1>4. QED
  BY <1>1, <1>2, <1>3 DEF Gate!SessionReturns

LEMMA IdleAtGate == ASSUME UNCHANGED vars PROVE UNCHANGED gateVars
<1>1. UNCHANGED <<config, live, pc, cookie, principal, using, decision, overlap, module, bundle>>
  BY DEF vars, request, evaluation, engine
<1>2. UNCHANGED <<Rules, InForce, Place, Judge, Heard>>
  BY <1>1 DEF Rules, InForce, BundleOf, Place, Judge, Heard
<1>3. UNCHANGED Who
  BY <1>1, <1>2 DEF Who
<1>4. QED
  BY <1>1, <1>2, <1>3 DEF gateVars

LEMMA NextAtGate == Inv /\ [Next]_vars => [Gate!Next]_(Gate!vars)
<1> SUFFICES ASSUME Inv, [Next]_vars PROVE Gate!Next \/ UNCHANGED gateVars
  BY DEF gateVars, Gate!vars
<1>1. CASE \E r \in Request : Arrive(r)
  BY <1>1, ArriveEnters DEF Gate!Next
<1>2. CASE \E r \in Request : Serve(r)
  <2>1. PICK r \in Request : Serve(r)
    BY <1>2
  <2>2. \/ Gate!Identify(r) \/ Gate!Ask(r) \/ Gate!Consult(r) \/ Gate!Hear(r)
        \/ Gate!Allow(r) \/ Gate!TurnAway(r) \/ Gate!Pass(r)
        \/ UNCHANGED gateVars
    BY <2>1, ResolveAtGate, PipelineAtGate, PickAtGate, EvalQueryAtGate, WriteInputAtGate,
       CallAtGate, ReadOutputAtGate, RespondAtGate DEF Serve
  <2>3. QED
    BY <2>2 DEF Gate!Next
<1>3. CASE \E l \in Load : Compile(l) \/ Install(l) \/ Refuse(l)
  BY <1>3, LoadAtGate DEF Gate!Next
<1>4. CASE SessionEnds \/ SessionReturns
  BY <1>4, SessionEndsAtGate, SessionReturnsAtGate DEF Gate!Next
<1>5. CASE UNCHANGED vars
  BY <1>5, IdleAtGate
<1>6. QED
  BY <1>1, <1>2, <1>3, <1>4, <1>5 DEF Next

\* The proxy implements the gate, for any requests, sessions, bundles and loads:
\* however evaluations share a memory, loads replace it and sessions end and
\* return, what passes had a live session, or was taken for nobody, at one instant
\* and was allowed at a later one.
THEOREM ProxyImplementsGate == Spec => ImplementsGate
BY GateInit, NextAtGate, ProxyInvariant, PTL DEF Spec, ImplementsGate, Gate!Spec
=============================================================================
