------------------------- MODULE RateLimiterProofs -------------------------
(* Proofs about the rate limiter, for any limits, keys and requests.       *)
EXTENDS RateLimiter, TLAPS

\* What a bucket remembers of its key: the shares it took out and holds are at
\* most the first burst and what came back, and at least the first burst.
Accounted(k) ==
    LET b == buckets[k] IN
    /\ b.last <= clock
    /\ Cost * admitted[k] + b.tokens
          <= Capacity + Refill * (b.last - opened[k] + rewound[k])
    /\ Capacity <= Cost * admitted[k] + b.tokens

\* A key without a bucket has not been served.
Unused(k) == admitted[k] = 0 /\ ~refused[k] /\ rewound[k] = 0

Ledger ==
    /\ TypeOK
    /\ \A k \in Key : IF buckets[k] = NoBucket THEN Unused(k) ELSE Accounted(k)
    /\ BurstGranted

\* Multiplication keeps the order of the integers and distributes.
LEMMA Multiplication ==
    /\ \A n \in Nat, x, y \in Int : x <= y => n * x <= n * y
    /\ \A n, x, y \in Int : n * (x + y) = n * x + n * y
    /\ \A n, x \in Int : n * x \in Int
    /\ \A n, x \in Nat : n * x \in Nat
OBVIOUS

\* Fewer shares than a token are left of a burst only when as many requests as
\* the burst has tokens were let through.
LEMMA SpentBurst ==
    ASSUME NEW a \in Nat, NEW t \in Nat, t < Cost, Capacity <= Cost * a + t
    PROVE  a >= Burst
<1> USE LimitsConfigured DEF Capacity
<1> SUFFICES ASSUME a + 1 <= Burst PROVE FALSE
  OBVIOUS
<1>1. Cost * (a + 1) <= Cost * Burst
  BY Multiplication
<1>2. Cost * (a + 1) = Cost * a + Cost
  OBVIOUS
<1>3. Cost * Burst = Burst * Cost /\ Cost * a \in Nat
  BY Multiplication
<1>4. QED
  BY <1>1, <1>2, <1>3

\* The limiter starts without buckets.
LEMMA InitLedger == Init => Ledger
BY NothingIsNoValue DEF Init, Ledger, TypeOK, Unused, BurstGranted

\* Time passes: it leaves every bucket as it is.
LEMMA TickLedger == Ledger /\ Tick => Ledger'
<1> SUFFICES ASSUME Ledger, Tick PROVE Ledger'
  OBVIOUS
<1>1. TypeOK'
  BY TimeBounded DEF Ledger, TypeOK, Tick, limits, Reading
<1>2. ASSUME NEW k \in Key
      PROVE  (IF buckets[k] = NoBucket THEN Unused(k) ELSE Accounted(k))'
  BY <1>2 DEF Ledger, TypeOK, Tick, limits, Unused, Accounted, Capacity, Bucket
<1>3. QED
  BY <1>1, <1>2 DEF Ledger, BurstGranted, Tick, limits

\* What Handle computes of a bucket: a number of shares within its capacity,
\* no more than time gives back between the readings, and none taken.
LEMMA RefilledBounds ==
    ASSUME NEW b \in Bucket, NEW now \in Nat
    PROVE  /\ Refilled(b, now) \in 0 .. Capacity
           /\ b.tokens <= Refilled(b, now)
           /\ Refilled(b, now) <= b.tokens + Refill * (now - b.last + Later(b.last, now))
<1> USE LimitsConfigured
<1>1. b.tokens \in 0 .. Capacity /\ b.last \in Nat /\ Capacity \in Nat
  BY Multiplication DEF Bucket, Capacity
<1>2. CASE now <= b.last
  <2>1. now - b.last + Later(b.last, now) = 0
    BY <1>1, <1>2 DEF Later
  <2>2. QED
    BY <1>1, <1>2, <2>1 DEF Refilled
<1>3. CASE now > b.last
  <2>1. now - b.last + Later(b.last, now) = now - b.last
    BY <1>1, <1>3 DEF Later
  <2>2. (now - b.last) * Refill \in Nat /\ Refill * (now - b.last) = (now - b.last) * Refill
    BY <1>1, <1>3, Multiplication
  <2>3. QED
    BY <1>1, <1>3, <2>1, <2>2 DEF Refilled
<1>4. QED
  BY <1>1, <1>2, <1>3

\* A request that begins to wait carries a reading of the past.
LEMMA ReadClockLedger ==
    ASSUME Ledger, NEW r \in Request, ReadClock(r) PROVE Ledger'
<1>1. TypeOK'
  BY DEF Ledger, TypeOK, ReadClock, Reading
<1>2. UNCHANGED <<clock, buckets, admitted, refused, opened, rewound>>
  BY DEF ReadClock
<1>3. QED
  BY <1>1, <1>2 DEF Ledger, Unused, Accounted, BurstGranted

\* The account of the bucket a request works on, before the request; a bucket
\* it has just made owes nothing.
LEMMA OpenedAccount ==
    ASSUME Ledger, NEW r \in Request, Handle(r),
           NEW k, k = waiting[r].key, NEW now, now = waiting[r].now,
           NEW b, b = Opened(k, now)
    PROVE  /\ k \in Key /\ now \in Nat /\ now <= clock
           /\ b \in Bucket
           /\ opened'[k] \in Nat
           /\ Cost * admitted[k] + b.tokens
                 <= Capacity + Refill * (b.last - opened'[k] + rewound[k])
           /\ Capacity <= Cost * admitted[k] + b.tokens
<1> USE LimitsConfigured
<1>1. waiting[r] \in Reading /\ k \in Key /\ now \in Nat /\ now <= clock
  BY DEF Ledger, TypeOK, Handle, Reading
<1>2. opened' = IF buckets[k] = NoBucket THEN [opened EXCEPT ![k] = now] ELSE opened
  BY DEF Handle
<1>3. Capacity \in Nat
  BY Multiplication DEF Capacity
<1>4. CASE buckets[k] = NoBucket
  <2>1. b = [tokens |-> Capacity, last |-> now] /\ b \in Bucket
    BY <1>1, <1>3, <1>4 DEF Opened, Bucket
  <2>2. opened'[k] = now /\ admitted[k] = 0 /\ rewound[k] = 0
    BY <1>1, <1>2, <1>4 DEF Ledger, TypeOK, Unused
  <2>3. Cost * 0 = 0 /\ Refill * (now - now + 0) = 0
    BY <1>1
  <2>4. QED
    BY <1>1, <1>3, <2>1, <2>2, <2>3
<1>5. CASE buckets[k] # NoBucket
  <2>1. b = buckets[k] /\ b \in Bucket /\ opened'[k] = opened[k] /\ opened[k] \in Nat
    BY <1>1, <1>2, <1>5 DEF Ledger, TypeOK, Opened
  <2>2. Accounted(k)
    BY <1>1, <1>5 DEF Ledger
  <2>3. QED
    BY <1>1, <2>1, <2>2 DEF Accounted
<1>6. QED
  BY <1>4, <1>5

\* Whether it is let through or refused, a request leaves the ledger in order.
LEMMA HandleLedger ==
    ASSUME Ledger, NEW r \in Request, Handle(r) PROVE Ledger'
<1> USE LimitsConfigured
<1> SUFFICES ASSUME NEW k, k = waiting[r].key, NEW now, now = waiting[r].now,
                    NEW b, b = Opened(k, now), NEW t, t = Refilled(b, now),
                    NEW back, back = Later(b.last, now)
             PROVE  Ledger'
  OBVIOUS
<1>1. /\ k \in Key /\ now \in Nat /\ now <= clock /\ b \in Bucket /\ opened'[k] \in Nat
      /\ Cost * admitted[k] + b.tokens
            <= Capacity + Refill * (b.last - opened'[k] + rewound[k])
      /\ Capacity <= Cost * admitted[k] + b.tokens
  BY OpenedAccount
<1>2. /\ t \in 0 .. Capacity
      /\ b.tokens <= t
      /\ t <= b.tokens + Refill * (now - b.last + back)
  BY <1>1, RefilledBounds
<1>3. /\ Capacity \in Nat /\ back \in Nat
      /\ b.last \in Nat /\ b.tokens \in Nat
      /\ admitted[k] \in Nat /\ rewound[k] \in Nat /\ clock \in Nat
      /\ Cost * admitted[k] \in Nat
  BY <1>1, Multiplication DEF Bucket, Capacity, Later, Ledger, TypeOK
<1>4. rewound'[k] = rewound[k] + back
  BY <1>1 DEF Handle, Ledger, TypeOK
<1>5. /\ Cost * admitted[k] + t
            <= Capacity + Refill * (now - opened'[k] + rewound'[k])
      /\ Capacity <= Cost * admitted[k] + t
  <2>1. Refill * (b.last - opened'[k] + rewound[k]) + Refill * (now - b.last + back)
          = Refill * (now - opened'[k] + rewound'[k])
    BY <1>1, <1>3, <1>4, Multiplication
  <2> DEFINE x == Refill * (b.last - opened'[k] + rewound[k])
             y == Refill * (now - b.last + back)
  <2>2. x \in Int /\ y \in Int
    BY <1>1, <1>3, Multiplication
  <2> HIDE DEF x, y
  <2>3. Cost * admitted[k] + t <= Capacity + x + y
    BY <1>1, <1>2, <1>3, <2>2 DEF x, y
  <2>4. QED
    BY <1>1, <1>2, <1>3, <2>1, <2>2, <2>3 DEF x, y
<1>6. /\ clock' = clock
      /\ \A j \in Key \ {k} :
            UNCHANGED <<buckets[j], admitted[j], refused[j], opened[j], rewound[j]>>
  BY <1>1 DEF Handle, Ledger, TypeOK
<1>7. ASSUME NEW j \in Key, j # k
      PROVE  /\ (IF buckets[j] = NoBucket THEN Unused(j) ELSE Accounted(j))'
             /\ refused'[j] => admitted'[j] >= Burst
  BY <1>6, <1>7 DEF Ledger, Unused, Accounted, BurstGranted
<1>8. /\ opened' \in [Key -> Nat]
      /\ rewound' \in [Key -> Nat]
      /\ waiting' \in [Request -> Reading \cup {NotWaiting}]
      /\ \A q \in Request : waiting'[q] # NotWaiting => waiting'[q].now <= clock'
  BY <1>1, <1>3 DEF Handle, Ledger, TypeOK
<1>9. CASE /\ t >= Cost
           /\ buckets' = [buckets EXCEPT ![k] = [tokens |-> t - Cost, last |-> now]]
           /\ admitted' = [admitted EXCEPT ![k] = @ + 1]
           /\ UNCHANGED refused
  <2>1. [tokens |-> t - Cost, last |-> now] \in Bucket
    BY <1>1, <1>2, <1>3, <1>9 DEF Bucket
  <2>2. TypeOK'
    BY <1>1, <1>6, <1>8, <1>9, <2>1 DEF Ledger, TypeOK
  <2>3. buckets'[k] = [tokens |-> t - Cost, last |-> now] /\ admitted'[k] = admitted[k] + 1
    BY <1>1, <1>9 DEF Ledger, TypeOK
  <2>4. Cost * admitted'[k] + (t - Cost) = Cost * admitted[k] + t
    BY <1>2, <1>3, <2>3
  <2>5. Accounted(k)'
    <3>1. buckets'[k].last = now /\ buckets'[k].tokens = t - Cost /\ clock' = clock
      BY <1>6, <2>3
    <3>2. QED
      BY <1>1, <1>5, <2>4, <3>1 DEF Accounted, Capacity
  <2>6. refused'[k] => admitted'[k] >= Burst
    BY <1>1, <1>3, <1>9, <2>3 DEF Ledger, BurstGranted
  <2>7. buckets'[k] # NoBucket
    BY <2>1, <2>3, NothingIsNoValue
  <2>8. ASSUME NEW j \in Key
        PROVE  /\ (IF buckets[j] = NoBucket THEN Unused(j) ELSE Accounted(j))'
               /\ refused'[j] => admitted'[j] >= Burst
    <3>1. CASE j = k
      BY <3>1, <2>5, <2>6, <2>7
    <3>2. CASE j # k
      BY <3>2, <1>7
    <3>3. QED
      BY <3>1, <3>2
  <2>9. QED
    BY <2>2, <2>8 DEF Ledger, BurstGranted
<1>10. CASE /\ t < Cost
            /\ buckets' = [buckets EXCEPT ![k] = [tokens |-> t, last |-> now]]
            /\ refused' = [refused EXCEPT ![k] = TRUE]
            /\ UNCHANGED admitted
  <2>1. [tokens |-> t, last |-> now] \in Bucket
    BY <1>1, <1>2 DEF Bucket
  <2>2. TypeOK'
    BY <1>1, <1>6, <1>8, <1>10, <2>1 DEF Ledger, TypeOK
  <2>3. buckets'[k] = [tokens |-> t, last |-> now] /\ admitted'[k] = admitted[k]
    BY <1>1, <1>10 DEF Ledger, TypeOK
  <2>4. Accounted(k)'
    <3>1. buckets'[k].last = now /\ buckets'[k].tokens = t /\ clock' = clock
      BY <1>6, <2>3
    <3>2. QED
      BY <1>1, <1>5, <2>3, <3>1 DEF Accounted, Capacity
  <2>5. admitted'[k] >= Burst
    <3>1. t \in Nat /\ t < Cost /\ admitted[k] \in Nat
      BY <1>1, <1>10, <2>1 DEF Bucket, Ledger, TypeOK
    <3>2. Capacity <= Cost * admitted[k] + t
      BY <1>5
    <3>3. admitted[k] >= Burst
      BY <3>1, <3>2, SpentBurst
    <3>4. QED
      BY <2>3, <3>3
  <2>6. buckets'[k] # NoBucket
    BY <2>1, <2>3, NothingIsNoValue
  <2>7. ASSUME NEW j \in Key
        PROVE  /\ (IF buckets[j] = NoBucket THEN Unused(j) ELSE Accounted(j))'
               /\ refused'[j] => admitted'[j] >= Burst
    <3>1. CASE j = k
      BY <3>1, <2>4, <2>5, <2>6
    <3>2. CASE j # k
      BY <3>2, <1>7
    <3>3. QED
      BY <3>1, <3>2
  <2>8. QED
    BY <2>2, <2>7 DEF Ledger, BurstGranted
<1>11. QED
  BY <1>9, <1>10 DEF Handle, Stamp

\* The ledger is in order in every state.
THEOREM LedgerKept == Spec => []Ledger
<1>1. Ledger /\ [Next]_vars => Ledger'
  <2>1. Ledger /\ UNCHANGED vars => Ledger'
    BY DEF Ledger, TypeOK, Unused, Accounted, BurstGranted, vars, limits
  <2>2. QED
    BY <2>1, TickLedger, ReadClockLedger, HandleLedger DEF Next
<1>2. QED
  BY InitLedger, <1>1, PTL DEF Spec

\* For any limits: a key is let through at most a burst and what came back.
THEOREM LimiterAdmission == Spec => []AdmissionBounded
<1> USE LimitsConfigured
<1>1. Ledger => AdmissionBounded
  <2> SUFFICES ASSUME Ledger, NEW k \in Key, buckets[k] # NoBucket
               PROVE  Cost * admitted[k]
                         <= Capacity + Refill * (clock - opened[k] + rewound[k])
    BY DEF AdmissionBounded
  <2> DEFINE x == buckets[k].last - opened[k] + rewound[k]
             y == clock - opened[k] + rewound[k]
  <2>1. /\ Accounted(k) /\ buckets[k] \in Bucket
        /\ clock \in Nat /\ opened[k] \in Nat /\ rewound[k] \in Nat /\ admitted[k] \in Nat
    BY DEF Ledger, TypeOK
  <2>2. x \in Int /\ y \in Int /\ x <= y
    BY <2>1 DEF Accounted, Bucket
  <2>3. Refill * x <= Refill * y /\ Refill * x \in Int /\ Refill * y \in Int
    BY <2>2, Multiplication
  <2>4. Cost * admitted[k] + buckets[k].tokens <= Capacity + Refill * x
    BY <2>1 DEF Accounted
  <2>5. buckets[k].tokens \in Nat /\ Capacity \in Nat /\ Cost * admitted[k] \in Nat
    BY <2>1, Multiplication DEF Bucket, Capacity
  <2> HIDE DEF x, y
  <2>6. Cost * admitted[k] <= Capacity + Refill * y
    BY <2>3, <2>4, <2>5
  <2>7. QED
    BY <2>6 DEF y
<1>2. QED
  BY LedgerKept, <1>1, PTL

\* For any limits: no key is refused before it has used up a burst.
THEOREM LimiterGrantsBurst == Spec => []BurstGranted
<1>1. Ledger => BurstGranted
  BY DEF Ledger
<1>2. QED
  BY LedgerKept, <1>1, PTL

\* For any limits: the shares of a bucket stay between none and its capacity,
\* in whatever order the readings come, and no reading is of the future.
THEOREM LimiterTypes == Spec => []TypeOK
<1>1. Ledger => TypeOK
  BY DEF Ledger
<1>2. QED
  BY LedgerKept, <1>1, PTL
=============================================================================
