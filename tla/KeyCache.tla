------------------------------ MODULE KeyCache ------------------------------
(***************************************************************************)
(* The provider's signing keys in the agent (pkg/token): HTTPJWKSSource    *)
(* keeps the key set it fetched last for a TTL, behind one RWMutex that a  *)
(* caller holds for writing while it fetches, and ValidateIDToken judges a *)
(* token by the key set it is given.  Meanwhile the provider publishes and *)
(* withdraws keys.                                                         *)
(*                                                                         *)
(* Clock times are kept as ages: a Tick makes everything one older.  What  *)
(* a caller does with a key set it holds takes no time on that scale.      *)
(***************************************************************************)
EXTENDS Integers

CONSTANTS
    Caller,     \* slots for validations in flight
    Key,
    NoKey,      \* in the place of the key of a token nobody can verify
    NoEntry,    \* the cache before the first fetch, and no answer
    Nobody,
    TTL,        \* ticks an entry lasts
    Transit     \* ticks an answer of the provider may be under way

\* NewHTTPJWKSSource replaces a TTL that is not positive.
ASSUME TTLPositive == TTL \in Nat \ {0}
ASSUME TransitNat == Transit \in Nat
ASSUME NobodyIsNoCaller == Nobody \notin Caller
ASSUME NoKeyIsNoKey == NoKey \notin Key

\* fetchURL returns the body of any answer with status 200, and it is cached
\* as it is: keyFuncFromJWKS finds out if it is no key set, which is kept here
\* as a set no provider publishes.
NoKeySet == {NoKey}
Body == (SUBSET Key) \cup {NoKeySet}

\* left is what the entry still has of its TTL.
Entry == [keys : Body, left : 0 .. TTL]

Answer == [keys : Body, age : 0 .. Transit]

ASSUME NoEntryIsNoEntry == NoEntry \notin Entry \cup Answer

VARIABLES
    pc,         \* the call a validation makes next
    token,      \* the key that signed its token
    writer,     \* who holds the mutex for writing
    answer,     \* the key set the provider has sent it, and how long ago
    cache,
    published,  \* the keys at the provider's jwks_uri
    since,      \* how long a key has been, or not been, among them
    verdict     \* what became of the last token of a caller

provider == <<published, since>>
vars == <<pc, token, writer, answer, cache, provider, verdict>>

\* No verdict depends on a longer past.
Limit == TTL + Transit
Fetching == {"discovery", "jwks", "store"}

TypeOK ==
    /\ pc \in [Caller -> {"idle", "read", "lock"} \cup Fetching]
    /\ token \in [Caller -> Key \cup {NoKey}]
    /\ writer \in Caller \cup {Nobody}
    /\ \A c \in Caller : pc[c] \in Fetching <=> writer = c
    /\ answer \in Answer \cup {NoEntry}
    /\ answer # NoEntry <=> \E c \in Caller : pc[c] = "store"
    /\ cache \in Entry \cup {NoEntry}
    /\ published \subseteq Key
    /\ since \in [Key -> 0 .. Limit]
    /\ verdict \in [Caller -> {"none", "accepted", "refused", "failed"}]

Init ==
    /\ pc = [c \in Caller |-> "idle"]
    /\ token = [c \in Caller |-> NoKey]
    /\ writer = Nobody
    /\ answer = NoEntry
    /\ cache = NoEntry
    /\ published \in SUBSET Key
    /\ since = [k \in Key |-> Limit]
    /\ verdict = [c \in Caller |-> "none"]

Goto(c, to) == pc' = [pc EXCEPT ![c] = to]

FreshOnceFetched == cache # NoEntry
Fresh == cache # NoEntry /\ cache.left > 0

\* keyFuncFromJWKS finds the key of the token in a key set, or does not, or
\* there is no key set: then every token fails for as long as the entry lasts.
\* A token that nobody can verify stands for the other refusals too: a wrong
\* signature, issuer, audience, nonce or date.
Judge(c, keys) ==
    /\ verdict' = [verdict EXCEPT ![c] =
           CASE keys = NoKeySet -> "failed"
             [] keys # NoKeySet /\ token[c] \in keys -> "accepted"
             [] OTHER -> "refused"]
    /\ Goto(c, "idle")

\* An error of GetJWKS, whose deferred call unlocks.
FailAndKeep(c) ==
    /\ verdict' = [verdict EXCEPT ![c] = "failed"]
    /\ answer' = NoEntry
    /\ Goto(c, "idle")
    /\ UNCHANGED <<token, writer, cache, provider>>
Fail(c) ==
    /\ verdict' = [verdict EXCEPT ![c] = "failed"]
    /\ writer' = Nobody
    /\ answer' = NoEntry
    /\ Goto(c, "idle")
    /\ UNCHANGED <<token, cache, provider>>

Validate(c) ==
    /\ pc[c] = "idle"
    /\ \E k \in Key \cup {NoKey} : token' = [token EXCEPT ![c] = k]
    /\ verdict' = [verdict EXCEPT ![c] = "none"]
    /\ Goto(c, "read")
    /\ UNCHANGED <<writer, answer, cache, provider>>

\* Under the read lock.
ReadCache(c) ==
    /\ pc[c] = "read"
    /\ writer = Nobody
    /\ \/ Fresh /\ Judge(c, cache.keys)
       \/ ~Fresh /\ Goto(c, "lock") /\ UNCHANGED verdict
    /\ UNCHANGED <<token, writer, answer, cache, provider>>

\* Another caller may have fetched while this one waited.
FilledMeanwhileIgnored == FALSE
FilledMeanwhile == Fresh

Lock(c) ==
    /\ pc[c] = "lock"
    /\ writer = Nobody
    /\ \/ FilledMeanwhile /\ Judge(c, cache.keys) /\ UNCHANGED writer
       \/ ~FilledMeanwhile /\ writer' = c /\ Goto(c, "discovery") /\ UNCHANGED verdict
    /\ UNCHANGED <<token, answer, cache, provider>>

\* The discovery document names the place of the keys.
FetchJWKSURI(c) ==
    /\ pc[c] = "discovery"
    /\ \/ /\ Goto(c, "jwks")
          /\ UNCHANGED <<token, writer, answer, cache, provider, verdict>>
       \/ Fail(c)

\* The provider answers with its keys of this moment, or something on the way
\* to it answers with a page of its own.
FetchJWKS(c) ==
    /\ pc[c] = "jwks"
    /\ \/ /\ \E keys \in {published, NoKeySet} : answer' = [keys |-> keys, age |-> 0]
          /\ Goto(c, "store")
          /\ UNCHANGED <<token, writer, cache, provider, verdict>>
       \/ Fail(c)

\* The answer arrives, or its rest does not.
Store(c) ==
    /\ pc[c] = "store"
    /\ \/ /\ cache' = [keys |-> answer.keys, left |-> TTL]
          /\ writer' = Nobody
          /\ answer' = NoEntry
          /\ Judge(c, answer.keys)
          /\ UNCHANGED <<token, provider>>
       \/ Fail(c)

\* The provider publishes or withdraws a key.
Rotate(k) ==
    /\ published' = IF k \in published THEN published \ {k} ELSE published \cup {k}
    /\ since' = [since EXCEPT ![k] = 0]
    /\ UNCHANGED <<pc, token, writer, answer, cache, verdict>>

\* The timeout of the HTTP client ends what is under way for too long.
Tick ==
    /\ answer # NoEntry => answer.age < Transit
    /\ answer' = IF answer = NoEntry THEN NoEntry ELSE [answer EXCEPT !.age = @ + 1]
    /\ cache' = IF Fresh THEN [cache EXCEPT !.left = @ - 1] ELSE cache
    /\ since' = [k \in Key |-> IF since[k] < Limit THEN since[k] + 1 ELSE Limit]
    /\ UNCHANGED <<pc, token, writer, published, verdict>>

Fetch(c) == FetchJWKSURI(c) \/ FetchJWKS(c) \/ Store(c)

Next ==
    \/ \E c \in Caller : Validate(c) \/ ReadCache(c) \/ Lock(c) \/ Fetch(c)
    \/ \E k \in Key : Rotate(k)
    \/ Tick

\* A fetch ends by its timeout if not before; sync.RWMutex lets nobody wait
\* for ever, neither behind writers nor behind readers.
Fairness == \A c \in Caller :
    WF_vars(Fetch(c)) /\ SF_vars(ReadCache(c)) /\ SF_vars(Lock(c))

Spec == Init /\ [][Next]_vars
FairSpec == Spec /\ Fairness

-----------------------------------------------------------------------------
(* What callers may rely on.                                               *)

Answered(c) == pc[c] # "idle" /\ pc'[c] = "idle"

\* A token is accepted or refused as the provider's keys would have it, but
\* for changes of its key that are younger than the TTL and the time of an
\* answer: withdrawn keys lapse and new ones come to be known.
JudgedByRecentKeys ==
    [][\A c \in Caller : Answered(c) =>
          /\ verdict'[c] = "accepted" => token[c] \in published \/ since[token[c]] < Limit
          /\ verdict'[c] = "refused" /\ token[c] # NoKey =>
                token[c] \notin published \/ since[token[c]] < Limit]_vars

\* However many callers miss the cache at once, the keys are fetched once for
\* a TTL: nothing that is still fresh is replaced.
FetchedOncePerTTL == [][cache' # cache /\ Fresh =>
    cache'.keys = cache.keys /\ cache'.left = cache.left - 1]_vars

\* Every validation is answered, although all wait for one mutex that is held
\* during two requests to the provider.
ValidationsAnswered == \A c \in Caller : pc[c] # "idle" ~> pc[c] = "idle"
=============================================================================
