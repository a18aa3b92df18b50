------------------------- MODULE RefreshExclusion --------------------------
(***************************************************************************)
(* What the refresh lock of a session promises: a critical section whose   *)
(* lease may run out.  Somebody may enter while those inside have all      *)
(* outlived a lease, and no lease is charged for twice.  With no lapse it  *)
(* is mutual exclusion; k lapses let at most k + 1 inside together.        *)
(***************************************************************************)
EXTENDS Naturals, FiniteSets

CONSTANTS Session, Handler

VARIABLES
    inside,  \* the handlers refreshing a session
    lapsed   \* the leases of a session that ran out with somebody inside

Init ==
    /\ inside = [s \in Session |-> {}]
    /\ lapsed = [s \in Session |-> 0]

Enter(s, h) ==
    /\ h \notin inside[s]
    /\ Cardinality(inside[s]) <= lapsed[s]
    /\ inside' = [inside EXCEPT ![s] = @ \cup {h}]
    /\ UNCHANGED lapsed

Leave(s, h) ==
    /\ h \in inside[s]
    /\ inside' = [inside EXCEPT ![s] = @ \ {h}]
    /\ UNCHANGED lapsed

Lapse(s) ==
    /\ inside[s] # {}
    /\ lapsed' = [lapsed EXCEPT ![s] = @ + 1]
    /\ UNCHANGED inside

Next ==
    \E s \in Session :
        \/ \E h \in Handler : Enter(s, h) \/ Leave(s, h)
        \/ Lapse(s)

Spec == Init /\ [][Next]_<<inside, lapsed>>
=============================================================================
