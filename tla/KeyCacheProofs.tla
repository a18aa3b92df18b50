--------------------------- MODULE KeyCacheProofs ---------------------------
(* Proofs about the key cache, for any callers, keys, TTL and delay.       *)
EXTENDS KeyCache, TLAPS

\* A key set and the provider disagree about a key; what is no key set says
\* nothing about any.
Differs(k, keys) == keys # NoKeySet /\ ~(k \in keys <=> k \in published)

\* What an answer under way gets wrong has changed since it was sent, and what
\* a fresh entry gets wrong since the answer it came from.
AnswerRecent ==
    answer # NoEntry => \A k \in Key : Differs(k, answer.keys) => since[k] <= answer.age
CacheRecent ==
    Fresh => \A k \in Key : Differs(k, cache.keys) => since[k] <= Limit - cache.left

\* Nothing is fetched while the entry is fresh.
FetchNeeded == writer # Nobody => ~Fresh

Inv == TypeOK /\ AnswerRecent /\ CacheRecent /\ FetchNeeded

USE TTLPositive, TransitNat, NobodyIsNoCaller, NoKeyIsNoKey, NoEntryIsNoEntry

LEMMA InitInv == Init => Inv
BY DEF Init, Inv, TypeOK, AnswerRecent, CacheRecent, FetchNeeded, Fresh, Limit,
       Fetching, provider

\* The caller of a fetch is the writer, and there is no other.
LEMMA OneFetch ==
    ASSUME TypeOK, NEW c \in Caller, pc[c] \in Fetching
    PROVE  /\ writer = c
           /\ \A d \in Caller : pc[d] \in Fetching => d = c
BY DEF TypeOK

\* The end of a call by an error.
LEMMA FailInv ==
    ASSUME Inv, NEW c \in Caller, pc[c] \in Fetching, Fail(c)
    PROVE  Inv'
<1>1. TypeOK'
  BY OneFetch DEF Inv, TypeOK, Fail, Goto, Fetching, provider
<1>2. AnswerRecent' /\ CacheRecent' /\ FetchNeeded'
  BY DEF Inv, Fail, AnswerRecent, CacheRecent, FetchNeeded, Fresh, Differs, provider
<1>3. QED
  BY <1>1, <1>2 DEF Inv

\* Calls that hold no lock afterwards and leave cache and provider alone.
LEMMA ValidateInv == ASSUME Inv, NEW c \in Caller, Validate(c) PROVE Inv'
<1>1. TypeOK'
  BY DEF Inv, TypeOK, Validate, Goto, Fetching, provider
<1>2. AnswerRecent' /\ CacheRecent' /\ FetchNeeded'
  BY DEF Inv, Validate, AnswerRecent, CacheRecent, FetchNeeded, Fresh, Differs, provider
<1>3. QED
  BY <1>1, <1>2 DEF Inv

LEMMA ReadCacheInv == ASSUME Inv, NEW c \in Caller, ReadCache(c) PROVE Inv'
<1>1. TypeOK'
  BY DEF Inv, TypeOK, ReadCache, Judge, Goto, Fetching, provider
<1>2. AnswerRecent' /\ CacheRecent' /\ FetchNeeded'
  BY DEF Inv, ReadCache, AnswerRecent, CacheRecent, FetchNeeded, Fresh, Differs, provider
<1>3. QED
  BY <1>1, <1>2 DEF Inv

LEMMA LockInv == ASSUME Inv, NEW c \in Caller, Lock(c) PROVE Inv'
<1>1. TypeOK'
  BY DEF Inv, TypeOK, Lock, Judge, Goto, Fetching, provider
<1>2. AnswerRecent' /\ CacheRecent'
  BY DEF Inv, Lock, AnswerRecent, CacheRecent, Fresh, Differs, provider
<1>3. FetchNeeded'
  BY DEF Inv, Lock, Judge, FetchNeeded, FilledMeanwhile, Fresh
<1>4. QED
  BY <1>1, <1>2, <1>3 DEF Inv

\* A fetch: a key set it brings is the provider's when it was sent.
LEMMA FetchInv == ASSUME Inv, NEW c \in Caller, Fetch(c) PROVE Inv'
<1>1. pc[c] \in Fetching
  BY DEF Fetch, FetchJWKSURI, FetchJWKS, Store, Fetching
<1>2. CASE Fail(c)
  BY <1>1, <1>2, FailInv
<1>3. CASE FetchJWKSURI(c) /\ ~Fail(c)
  <2>1. TypeOK'
    BY <1>3 DEF Inv, TypeOK, FetchJWKSURI, Goto, Fetching, provider
  <2>2. AnswerRecent' /\ CacheRecent' /\ FetchNeeded'
    BY <1>3 DEF Inv, FetchJWKSURI, AnswerRecent, CacheRecent, FetchNeeded, Fresh,
                Differs, provider
  <2>3. QED
    BY <2>1, <2>2 DEF Inv
<1>4. CASE FetchJWKS(c) /\ ~Fail(c)
  <2>1. TypeOK'
    BY <1>4 DEF Inv, TypeOK, FetchJWKS, Goto, Fetching, provider, Answer, Body
  <2>2. AnswerRecent'
    BY <1>4 DEF FetchJWKS, AnswerRecent, Differs, provider
  <2>3. CacheRecent' /\ FetchNeeded'
    BY <1>4 DEF Inv, FetchJWKS, CacheRecent, FetchNeeded, Fresh, Differs, provider
  <2>4. QED
    BY <2>1, <2>2, <2>3 DEF Inv
<1>5. CASE Store(c) /\ ~Fail(c)
  <2>1. answer \in Answer
    BY <1>5 DEF Inv, TypeOK, Store
  <2>2. TypeOK'
    BY <1>1, <1>5, <2>1, OneFetch
       DEF Inv, TypeOK, Store, Judge, Goto, Fetching, provider, Answer, Entry
  <2>3. CacheRecent'
    <3>1. \A k \in Key : Differs(k, answer.keys) => since[k] <= Transit
      BY <2>1 DEF Inv, TypeOK, AnswerRecent, Answer, Limit
    <3>2. cache' = [keys |-> answer.keys, left |-> TTL] /\ UNCHANGED provider
      BY <1>5 DEF Store
    <3>3. QED
      BY <3>1, <3>2 DEF CacheRecent, Differs, Limit, provider
  <2>4. AnswerRecent' /\ FetchNeeded'
    BY <1>5 DEF Store, AnswerRecent, FetchNeeded
  <2>5. QED
    BY <2>2, <2>3, <2>4 DEF Inv
<1>6. QED
  BY <1>2, <1>3, <1>4, <1>5 DEF Fetch

\* A key that changes at the provider has just changed.
LEMMA RotateInv == ASSUME Inv, NEW k \in Key, Rotate(k) PROVE Inv'
<1>1. TypeOK'
  BY DEF Inv, TypeOK, Rotate, Limit
<1>2. \A j \in Key : j = k \/ (since'[j] = since[j] /\ (j \in published' <=> j \in published))
  BY DEF Rotate, Inv, TypeOK
<1>3. since'[k] = 0
  BY DEF Rotate, Inv, TypeOK
<1>4. AnswerRecent'
  BY <1>2, <1>3 DEF Inv, TypeOK, Rotate, AnswerRecent, Differs, Answer
<1>5. CacheRecent'
  <2>1. Fresh => cache.left <= Limit /\ cache.left \in Nat
    BY DEF Inv, TypeOK, Fresh, Entry, Limit
  <2>2. QED
    BY <1>2, <1>3, <2>1 DEF Inv, TypeOK, Rotate, CacheRecent, Fresh, Differs, Limit
<1>6. FetchNeeded'
  BY DEF Inv, Rotate, FetchNeeded, Fresh
<1>7. QED
  BY <1>1, <1>4, <1>5, <1>6 DEF Inv

\* Time makes a disagreement at most as much older as the answer or the entry.
LEMMA TickInv == ASSUME Inv, Tick PROVE Inv'
<1>1. \A k \in Key : since'[k] \in 0 .. Limit /\ since'[k] <= since[k] + 1
  BY DEF Inv, TypeOK, Tick, Limit
<1>2. answer # NoEntry => /\ answer \in Answer /\ answer'.keys = answer.keys
                          /\ answer'.age = answer.age + 1 /\ answer' \in Answer
  BY DEF Inv, TypeOK, Tick, Answer
<1>3. Fresh => /\ cache \in Entry /\ cache'.keys = cache.keys
               /\ cache'.left = cache.left - 1 /\ cache' \in Entry
  BY DEF Inv, TypeOK, Tick, Fresh, Entry
<1>4. ~Fresh => cache' = cache
  BY DEF Tick
<1>5. TypeOK'
  <2>1. answer' \in Answer \cup {NoEntry} /\ (answer' # NoEntry <=> answer # NoEntry)
    BY <1>2 DEF Tick
  <2>2. cache' \in Entry \cup {NoEntry}
    BY <1>3, <1>4 DEF Inv, TypeOK
  <2>3. since' \in [Key -> 0 .. Limit]
    BY <1>1 DEF Tick
  <2>4. QED
    BY <2>1, <2>2, <2>3 DEF Inv, TypeOK, Tick
<1>6. AnswerRecent'
  <2> SUFFICES ASSUME answer' # NoEntry, NEW k \in Key, Differs(k, answer.keys)
               PROVE  since'[k] <= answer.age + 1
    BY <1>2 DEF AnswerRecent, Differs, Tick
  <2>1. answer # NoEntry
    BY DEF Tick
  <2>2. since[k] <= answer.age
    BY <2>1 DEF Inv, AnswerRecent
  <2>3. QED
    BY <1>1, <1>2, <2>1, <2>2 DEF Inv, TypeOK, Answer, Limit
<1>7. CacheRecent'
  <2>1. Fresh' => Fresh
    BY <1>4 DEF Fresh
  <2> SUFFICES ASSUME Fresh, NEW k \in Key, Differs(k, cache.keys)
               PROVE  since'[k] <= Limit - (cache.left - 1)
    BY <1>3, <2>1 DEF CacheRecent, Differs, Tick
  <2>2. since[k] <= Limit - cache.left
    BY DEF Inv, CacheRecent
  <2>3. QED
    BY <1>1, <1>3, <2>2 DEF Inv, TypeOK, Entry, Limit
<1>8. FetchNeeded'
  BY <1>4 DEF Inv, FetchNeeded, Fresh, Tick
<1>9. QED
  BY <1>5, <1>6, <1>7, <1>8 DEF Inv

LEMMA NextInv == Inv /\ [Next]_vars => Inv'
<1> SUFFICES ASSUME Inv, [Next]_vars PROVE Inv'
  OBVIOUS
<1>1. ASSUME NEW c \in Caller, Validate(c) \/ ReadCache(c) \/ Lock(c) \/ Fetch(c)
      PROVE  Inv'
  BY <1>1, ValidateInv, ReadCacheInv, LockInv, FetchInv
<1>2. CASE UNCHANGED vars
  BY <1>2 DEF vars, provider, Inv, TypeOK, AnswerRecent, CacheRecent, FetchNeeded,
              Fresh, Differs
<1>3. QED
  BY <1>1, <1>2, RotateInv, TickInv DEF Next

LEMMA AlwaysInv == Spec => []Inv
BY InitInv, NextInv, PTL DEF Spec

\* The types of the key cache, and that the mutex is held exactly during a
\* fetch and by the caller that fetches.
THEOREM CacheTypes == Spec => []TypeOK
<1>1. Inv => TypeOK
  BY DEF Inv
<1>2. QED
  BY <1>1, AlwaysInv, PTL

\* A key set used for a judgement is wrong about recent changes only.
LEMMA JudgeStep ==
    ASSUME Inv, Next, NEW c \in Caller, Answered(c)
    PROVE  verdict'[c] = "failed" \/ \E keys \in SUBSET Key :
              /\ verdict'[c] = IF token[c] \in keys THEN "accepted" ELSE "refused"
              /\ \A k \in Key : Differs(k, keys) => since[k] < Limit
<1>1. ASSUME NEW d \in Caller, Validate(d) PROVE FALSE
  BY <1>1 DEF Validate, Goto, Answered, Inv, TypeOK
<1>2. ASSUME UNCHANGED pc PROVE FALSE
  BY <1>2 DEF Answered
<1>3. ASSUME NEW d \in Caller, ReadCache(d) \/ Lock(d) \/ Fetch(d), d # c PROVE FALSE
  BY <1>3 DEF ReadCache, Lock, Fetch, FetchJWKSURI, FetchJWKS, Store, Judge, Fail,
              Goto, Answered, Inv, TypeOK
<1>4. CASE Fresh /\ Judge(c, cache.keys)
  <2>1. cache.keys \in Body /\ cache.left \in 1 .. TTL
    BY <1>4 DEF Fresh, Inv, TypeOK, Entry
  <2>2. \A k \in Key : Differs(k, cache.keys) => since[k] < Limit
    BY <1>4, <2>1 DEF Inv, TypeOK, CacheRecent, Limit
  <2>3. \/ verdict'[c] = "failed"
        \/ /\ cache.keys # NoKeySet
           /\ verdict'[c] = IF token[c] \in cache.keys THEN "accepted" ELSE "refused"
    BY <1>4 DEF Judge, Inv, TypeOK
  <2>4. QED
    BY <2>1, <2>2, <2>3 DEF Body
<1>5. CASE pc[c] = "store" /\ Judge(c, answer.keys)
  <2>1. answer \in Answer /\ answer # NoEntry
    BY <1>5 DEF Inv, TypeOK
  <2>2. \A k \in Key : Differs(k, answer.keys) => since[k] < Limit
    BY <2>1 DEF Inv, TypeOK, AnswerRecent, Answer, Limit
  <2>3. \/ verdict'[c] = "failed"
        \/ /\ answer.keys # NoKeySet
           /\ verdict'[c] = IF token[c] \in answer.keys THEN "accepted" ELSE "refused"
    BY <1>5 DEF Judge, Inv, TypeOK
  <2>4. QED
    BY <2>1, <2>2, <2>3 DEF Answer, Body
<1>6. CASE Fail(c)
  BY <1>6 DEF Fail, Inv, TypeOK
<1>7. ASSUME ReadCache(c) \/ Lock(c) \/ Fetch(c)
      PROVE  \/ Fresh /\ Judge(c, cache.keys)
             \/ pc[c] = "store" /\ Judge(c, answer.keys)
             \/ Fail(c)
  BY <1>7 DEF ReadCache, Lock, FilledMeanwhile, Fetch, FetchJWKSURI, FetchJWKS, Store,
              Goto, Answered, Inv, TypeOK
<1>8. QED
  BY <1>1, <1>2, <1>3, <1>4, <1>5, <1>6, <1>7 DEF Next, Rotate, Tick

\* No token is accepted by a key withdrawn, nor refused for a key published,
\* longer ago than the TTL and the time of an answer (JudgedByRecentKeys).
THEOREM KeysRecent == Spec => JudgedByRecentKeys
<1>1. ASSUME Inv, Next, NEW c \in Caller, Answered(c)
      PROVE  /\ verdict'[c] = "accepted" => token[c] \in published \/ since[token[c]] < Limit
             /\ verdict'[c] = "refused" /\ token[c] # NoKey =>
                   token[c] \notin published \/ since[token[c]] < Limit
  BY <1>1, JudgeStep DEF Differs, NoKeySet, Inv, TypeOK
<1>2. Inv /\ [Next]_vars => [\A c \in Caller : Answered(c) =>
          /\ verdict'[c] = "accepted" => token[c] \in published \/ since[token[c]] < Limit
          /\ verdict'[c] = "refused" /\ token[c] # NoKey =>
                token[c] \notin published \/ since[token[c]] < Limit]_vars
  BY <1>1
<1>3. QED
  BY <1>2, AlwaysInv, PTL DEF Spec, JudgedByRecentKeys

\* Only time touches an entry that is fresh: the keys are fetched once for a
\* TTL however many callers miss the cache (FetchedOncePerTTL).
THEOREM KeysFetchedOnce == Spec => FetchedOncePerTTL
<1>1. ASSUME Inv, Next, cache' # cache, Fresh
      PROVE  cache'.keys = cache.keys /\ cache'.left = cache.left - 1
  <2>1. ASSUME NEW c \in Caller, Store(c) PROVE FALSE
    BY <1>1, <2>1 DEF Inv, TypeOK, FetchNeeded, Store, Fetching
  <2>2. CASE Tick
    BY <1>1, <2>2 DEF Tick, Fresh, Inv, TypeOK, Entry
  <2>3. QED
    BY <1>1, <2>1, <2>2 DEF Next, Validate, ReadCache, Lock, Fetch, FetchJWKSURI,
                            FetchJWKS, Fail, Rotate, provider
<1>2. Inv /\ [Next]_vars => [cache' # cache /\ Fresh =>
          cache'.keys = cache.keys /\ cache'.left = cache.left - 1]_vars
  BY <1>1
<1>3. QED
  BY <1>2, AlwaysInv, PTL DEF Spec, FetchedOncePerTTL
=============================================================================
