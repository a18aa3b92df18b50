---------------------------- MODULE RateLimiter ----------------------------
(***************************************************************************)
(* The rate-limit plugin of the proxy (pkg/plugins/pipeline/ratelimit): a  *)
(* token bucket for each key, shared by all requests in flight.  A request *)
(* reads the clock before it waits for the mutex, so a bucket may see the  *)
(* readings in another order than that of the clock.                       *)
(*                                                                         *)
(* A bucket is counted in shares of a token: Refill shares come back per   *)
(* tick, and a request takes Cost of them.  The code keeps the same        *)
(* quotient (requests_per_minute / 60 tokens per second) in floating       *)
(* point, whose rounding is left out.                                      *)
(***************************************************************************)
EXTENDS Integers

CONSTANTS
    Request,    \* slots for requests in flight
    Key,        \* limit keys: an address, a subject or a header value
    NoBucket,   \* a key without an entry in the map
    NotWaiting, \* a request that is not at the mutex
    Burst,      \* tokens a bucket holds
    Cost,       \* shares in a token
    Refill,     \* shares that come back per tick
    MaxTime     \* bound: the last tick

Capacity == Burst * Cost
Bucket == [tokens : 0 .. Capacity, last : Nat]
Reading == [key : Key, now : Nat]

\* What Configure accepts.
ASSUME LimitsConfigured ==
    Burst \in Nat \ {0} /\ Cost \in Nat \ {0} /\ Refill \in Nat \ {0}
ASSUME NothingIsNoValue == NoBucket \notin Bucket /\ NotWaiting \notin Reading
ASSUME TimeBounded == MaxTime \in Nat

VARIABLES
    clock,
    buckets,    \* the buckets of the plugin
    waiting,    \* the key and the clock reading of a request at the mutex
    admitted,   \* history: requests of a key let through
    refused,    \* history: whether a request of a key was ever refused
    opened,     \* history: the reading that made the bucket of a key
    rewound     \* history: ticks by which the readings of a key went back

limits == <<buckets, waiting, admitted, refused, opened, rewound>>
vars == <<clock, limits>>

TypeOK ==
    /\ clock \in Nat
    /\ buckets \in [Key -> Bucket \cup {NoBucket}]
    /\ waiting \in [Request -> Reading \cup {NotWaiting}]
    /\ \A r \in Request : waiting[r] # NotWaiting => waiting[r].now <= clock
    /\ admitted \in [Key -> Nat]
    /\ refused \in [Key -> BOOLEAN]
    /\ opened \in [Key -> Nat]
    /\ rewound \in [Key -> Nat]

Init ==
    /\ clock = 0
    /\ buckets = [k \in Key |-> NoBucket]
    /\ waiting = [r \in Request |-> NotWaiting]
    /\ admitted = [k \in Key |-> 0]
    /\ refused = [k \in Key |-> FALSE]
    /\ opened = [k \in Key |-> 0]
    /\ rewound = [k \in Key |-> 0]

Tick ==
    /\ clock < MaxTime
    /\ clock' = clock + 1
    /\ UNCHANGED limits

\* deriveKey, and the reading of the clock.
ReadClock(r) ==
    /\ waiting[r] = NotWaiting
    /\ \E k \in Key : waiting' = [waiting EXCEPT ![r] = [key |-> k, now |-> clock]]
    /\ UNCHANGED <<clock, buckets, admitted, refused, opened, rewound>>

\* The bucket of a key, made full by the first request that needs it.
Opened(k, now) ==
    IF buckets[k] = NoBucket THEN [tokens |-> Capacity, last |-> now] ELSE buckets[k]

\* The shares of a bucket after the time between two readings.
RefilledNoCap(b, now) ==
    IF now > b.last THEN b.tokens + (now - b.last) * Refill ELSE b.tokens
RefilledBothWays(b, now) ==
    LET t == b.tokens + (now - b.last) * Refill IN
    IF t > Capacity THEN Capacity ELSE IF t < 0 THEN 0 ELSE t
Refilled(b, now) ==
    LET t == b.tokens + (now - b.last) * Refill IN
    IF now <= b.last THEN b.tokens ELSE IF t > Capacity THEN Capacity ELSE t

\* The reading a bucket keeps: that of the request, even when it lies before
\* the bucket's own.
StampKept(b, now) == b.last
Stamp(b, now) == now

Later(x, y) == IF x > y THEN x - y ELSE 0

\* Everything Handle does under the mutex.
Handle(r) ==
    LET k == waiting[r].key
        now == waiting[r].now
        b == Opened(k, now)
        t == Refilled(b, now)
    IN
    /\ waiting[r] # NotWaiting
    /\ \/ /\ t >= Cost
          /\ buckets' = [buckets EXCEPT ![k] = [tokens |-> t - Cost, last |-> Stamp(b, now)]]
          /\ admitted' = [admitted EXCEPT ![k] = @ + 1]
          /\ UNCHANGED refused
       \/ /\ t < Cost
          /\ buckets' = [buckets EXCEPT ![k] = [tokens |-> t, last |-> Stamp(b, now)]]
          /\ refused' = [refused EXCEPT ![k] = TRUE]
          /\ UNCHANGED admitted
    /\ waiting' = [waiting EXCEPT ![r] = NotWaiting]
    /\ opened' = IF buckets[k] = NoBucket THEN [opened EXCEPT ![k] = now] ELSE opened
    /\ rewound' = [rewound EXCEPT ![k] = @ + Later(b.last, now)]
    /\ UNCHANGED clock

Next == Tick \/ \E r \in Request : ReadClock(r) \/ Handle(r)

Spec == Init /\ [][Next]_vars

-----------------------------------------------------------------------------
(* What the limiter guarantees.                                            *)

\* A key is let through at most a burst and what came back since its first
\* request; readings that arrive out of order give back no more than the time
\* they went back by.
AdmissionBounded ==
    \A k \in Key : buckets[k] # NoBucket =>
        Cost * admitted[k] <= Capacity + Refill * (clock - opened[k] + rewound[k])

\* A key is refused nothing before it has used up a whole burst of its own,
\* whatever the order of the readings and the load of the other keys.
BurstGranted == \A k \in Key : refused[k] => admitted[k] >= Burst
=============================================================================
