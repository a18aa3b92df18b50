----------------------------- MODULE AccessGate -----------------------------
(***************************************************************************)
(* What the proxy promises: a gate that requests pass one by one.  A       *)
(* request becomes known in an instant, as whom the session it names       *)
(* belongs to, if there is that session then, or as nobody; the policy     *)
(* that judges it is the one in force at a later instant; and it passes    *)
(* only if a plugin allows it, that policy does, or the fallback stands in *)
(* for the policy.  There are no modules and no memory here.  Only where   *)
(* the rules have requests share their hearing may one be judged by what   *)
(* was heard of another.  Taking a request for nobody's, or turning it     *)
(* away, is always in order.                                               *)
(***************************************************************************)
CONSTANTS Request, Session, NoOne, Bundle, Permits, NoBundle

Principal == Session \cup {NoOne}

VARIABLES
    rules,   \* whether a session is required, the fallback allows, hearings are shared
    live,    \* the sessions there are
    policy,  \* the bundle in force
    place,   \* where a request is
    who,     \* whom a request claims to be, and, once it is known, who it is
    judge,   \* the bundle that judges a request
    heard    \* whom a request was heard with, once it was heard

vars == <<rules, live, policy, place, who, judge, heard>>

Init ==
    /\ rules \in [requireAuth : BOOLEAN, fallbackAllow : BOOLEAN, shared : BOOLEAN]
    /\ live \in SUBSET Session
    /\ policy = NoBundle
    /\ place = [r \in Request |-> "away"]
    /\ who = [r \in Request |-> NoOne]
    /\ judge = [r \in Request |-> NoBundle]
    /\ heard = [r \in Request |-> {}]

Move(r, from, to) == place[r] = from /\ place' = [place EXCEPT ![r] = to]

\* What a request is judged by is over when it is allowed or turned away.
Dismiss(r) ==
    /\ judge' = [judge EXCEPT ![r] = NoBundle]
    /\ heard' = [heard EXCEPT ![r] = {}]
    /\ UNCHANGED <<rules, live, policy>>

Enter(r) ==
    /\ Move(r, "away", "waiting") \/ Move(r, "passed", "waiting")
    /\ \E s \in Principal : who' = [who EXCEPT ![r] = s]
    /\ UNCHANGED <<rules, live, policy, judge, heard>>

Identify(r) ==
    /\ Move(r, "waiting", "known")
    /\ \E p \in {NoOne} \cup ({who[r]} \cap live) :
        /\ rules.requireAuth => p # NoOne
        /\ who' = [who EXCEPT ![r] = p]
    /\ UNCHANGED <<rules, live, policy, judge, heard>>

Ask(r) ==
    /\ Move(r, "known", "asking")
    /\ UNCHANGED <<rules, live, policy, who, judge, heard>>

Consult(r) ==
    /\ Move(r, "asking", "judging")
    /\ policy # NoBundle
    /\ judge' = [judge EXCEPT ![r] = policy]
    /\ UNCHANGED <<rules, live, policy, who, heard>>

\* A shared hearing of r and of some that the same policy has heard and is
\* still to judge.
Hear(r) ==
    /\ rules.shared
    /\ place[r] = "judging"
    /\ heard[r] = {}
    /\ \E Q \in SUBSET {q \in Request : judge[q] = judge[r] /\ heard[q] # {}} :
           heard' = [q \in Request |->
               CASE q = r -> {who[r]} \cup {who[o] : o \in Q}
                 [] q \in Q -> heard[q] \cup {who[r]}
                 [] OTHER -> heard[q]]
    /\ UNCHANGED <<rules, live, policy, place, who, judge>>

Judged(r) == IF rules.shared THEN heard[r] ELSE {who[r]}

\* By a plugin, the fallback or the policy.
Allow(r) ==
    /\ \/ Move(r, "known", "allowed")
       \/ Move(r, "asking", "allowed") /\ policy = NoBundle /\ rules.fallbackAllow
       \/ /\ Move(r, "judging", "allowed")
          /\ rules.fallbackAllow \/ Judged(r) \cap Permits[judge[r]] # {}
    /\ UNCHANGED who
    /\ Dismiss(r)

TurnAway(r) ==
    /\ place[r] \notin {"away", "passed"}
    /\ place' = [place EXCEPT ![r] = "away"]
    /\ who' = [who EXCEPT ![r] = NoOne]
    /\ Dismiss(r)

Pass(r) ==
    /\ Move(r, "allowed", "passed")
    /\ UNCHANGED <<rules, live, policy, who, judge, heard>>

NewPolicy ==
    /\ policy' \in Bundle
    /\ UNCHANGED <<rules, live, place, who, judge, heard>>

SessionEnds ==
    /\ \E s \in live : live' = live \ {s}
    /\ UNCHANGED <<rules, policy, place, who, judge, heard>>

SessionReturns ==
    /\ \E s \in Session \ live : live' = live \cup {s}
    /\ UNCHANGED <<rules, policy, place, who, judge, heard>>

Next ==
    \/ \E r \in Request :
          \/ Enter(r) \/ Identify(r) \/ Ask(r) \/ Consult(r) \/ Hear(r)
          \/ Allow(r) \/ TurnAway(r) \/ Pass(r)
    \/ NewPolicy \/ SessionEnds \/ SessionReturns

Spec == Init /\ [][Next]_vars
=============================================================================
