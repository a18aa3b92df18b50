------------------------ MODULE AgentSessionsProofs ------------------------
(* Proofs about AgentSessions, for every set of sessions and handlers, every *)
(* way calls may fail and every bound.                                       *)
EXTENDS AgentSessions, FiniteSetTheorems, TLAPS

\* The variables have their types, and a handler holds a copy of its session
\* exactly while it has one to write back.
LEMMA InitTypeOK == Init => TypeOK
BY NoSessionIsNoRecord DEF Init, TypeOK, Record, PC, WritingPC, CriticalPC

\* Every step keeps the types, and a handler lets go of its copy when it has
\* stored it, given up or stopped.
LEMMA NextTypeOK == TypeOK /\ [Next]_vars => TypeOK'
<1> SUFFICES ASSUME TypeOK, [Next]_vars PROVE TypeOK'
  OBVIOUS
<1> USE NoSessionIsNoRecord, CookieNamesSession, RepliesPossible
    DEF TypeOK, PC, WritingPC, CriticalPC, redis, provider, history, Goto, Forget, Answer,
        Forfeit
<1>1. ASSUME NEW h \in Handler, Arrive(h) PROVE TypeOK'
  BY <1>1 DEF Arrive, First
<1>2. ASSUME NEW h \in Handler, ResolveGet(h) PROVE TypeOK'
  BY <1>2 DEF ResolveGet
<1>3. ASSUME NEW h \in Handler, RefreshGet(h) PROVE TypeOK'
  BY <1>3 DEF RefreshGet, WorthRefreshing, Found
<1>4. ASSUME NEW h \in Handler, RefreshObtain(h) PROVE TypeOK'
  BY <1>4 DEF RefreshObtain, Missed
<1>5. ASSUME NEW h \in Handler, RefreshExchange(h) PROVE TypeOK'
  <2> DEFINE s == SessionOf[h]
  <2>1. copy[h] \in Record /\ issued[s] + 1 \in Nat
    BY <1>5 DEF RefreshExchange
  <2>2. Updated(copy[h], issued[s] + 1) \in Record
    BY <2>1 DEF Updated, Record
  <2>3. forfeited' \in [Session -> BOOLEAN]
    BY <1>5 DEF RefreshExchange
  <2>4. /\ issued' \in [Session -> Nat]
        /\ honoured' \in [Session -> Nat]
    BY <1>5, <2>1 DEF RefreshExchange, Issue
  <2>5. QED
    BY <1>5, <2>1, <2>2, <2>3, <2>4 DEF RefreshExchange
<1>6. ASSUME NEW h \in Handler, RefreshSet(h) \/ RefreshSetAgain(h) PROVE TypeOK'
  <2>1. CASE RefreshSet(h)
    BY <2>1 DEF RefreshSet, SetSession
  <2>2. CASE RefreshSetAgain(h)
    BY <2>2 DEF RefreshSetAgain, PutBack, SetSession
  <2>3. QED
    BY <1>6, <2>1, <2>2
<1>7. ASSUME NEW h \in Handler, RefreshRelease(h) \/ RefreshReleaseAgain(h) PROVE TypeOK'
  <2>1. CASE RefreshRelease(h)
    BY <2>1 DEF RefreshRelease
  <2>2. CASE RefreshReleaseAgain(h)
    <3>1. CASE LoseLock(SessionOf[h]) /\ UNCHANGED pc
      <4>1. lapses' \in [Session -> Nat]
        BY <3>1 DEF LoseLock
      <4>2. lock' \in [Session -> BOOLEAN]
        BY <3>1 DEF LoseLock
      <4>3. QED
        BY <2>2, <3>1, <4>1, <4>2 DEF RefreshReleaseAgain
    <3>2. CASE Goto(h, "idle") /\ UNCHANGED <<lock, lapses>>
      BY <2>2, <3>2 DEF RefreshReleaseAgain
    <3>3. QED
      BY <2>2, <3>1, <3>2 DEF RefreshReleaseAgain
  <2>3. QED
    BY <1>7, <2>1, <2>2
<1>8. ASSUME NEW h \in Handler, LogoutGet(h) PROVE TypeOK'
  BY <1>8 DEF LogoutGet
<1>9. ASSUME NEW h \in Handler, LogoutDelete(h) PROVE TypeOK'
  BY <1>9 DEF LogoutDelete, SetSession
<1>10. ASSUME NEW h \in Handler, EnrichGet(h) PROVE TypeOK'
  <2>1. ASSUME NEW t \in Tenant, NEW rec \in Record
        PROVE  [rec EXCEPT !.tenant = t] \in Record
    BY DEF Record
  <2>2. QED
    BY <1>10, <2>1 DEF EnrichGet, Found
<1>11. ASSUME NEW h \in Handler, EnrichSet(h) PROVE TypeOK'
  BY <1>11 DEF EnrichSet, PutBack, SetSession
<1>12. ASSUME NEW h \in Handler, Crash(h) PROVE TypeOK'
  BY <1>12 DEF Crash
<1>13. ASSUME NEW s \in Session, TokenAges(s) PROVE TypeOK'
  BY <1>13 DEF TokenAges
<1>14. ASSUME NEW s \in Session, SessionExpires(s) PROVE TypeOK'
  BY <1>14 DEF SessionExpires, SetSession
<1>15. ASSUME NEW s \in Session, LockExpires(s) PROVE TypeOK'
  BY <1>15 DEF LockExpires, LoseLock
<1>16. CASE UNCHANGED vars
  BY <1>16 DEF vars
<1>17. QED
  BY <1>1, <1>2, <1>3, <1>4, <1>5, <1>6, <1>7, <1>8, <1>9, <1>10, <1>11, <1>12,
     <1>13, <1>14, <1>15, <1>16 DEF Next, Serve

THEOREM TypeCorrect == Spec => []TypeOK
BY InitTypeOK, NextTypeOK, PTL DEF Spec

-----------------------------------------------------------------------------
(* The refresh lock.                                                       *)

\* The refreshes in progress of a session are finitely many.
LEMMA RefreshingFinite ==
    ASSUME NEW s \in Session
    PROVE  IsFiniteSet(Refreshing(s)) /\ Cardinality(Refreshing(s)) \in Nat
BY HandlersFinite, FS_Subset, FS_CardinalityType DEF Refreshing, HandlersOf

\* A handler that moves to another call joins or leaves the refreshes of its
\* own session, and no others.
LEMMA RefreshingAfterGoto ==
    ASSUME TypeOK, NEW h \in Handler, NEW c \in PC, Goto(h, c), NEW s \in Session
    PROVE  Refreshing(s)' = IF c \in CriticalPC /\ s = SessionOf[h]
                            THEN Refreshing(s) \cup {h}
                            ELSE Refreshing(s) \ {h}
<1>1. ASSUME NEW g \in Handler
      PROVE  pc'[g] = IF g = h THEN c ELSE pc[g]
  BY DEF TypeOK, Goto
<1>2. Refreshing(s)' = {g \in Handler : SessionOf[g] = s /\ pc'[g] \in CriticalPC}
  BY DEF Refreshing, HandlersOf
<1>3. Refreshing(s) = {g \in Handler : SessionOf[g] = s /\ pc[g] \in CriticalPC}
  BY DEF Refreshing, HandlersOf
<1>4. QED
  BY <1>1, <1>2, <1>3

\* Handlers whose calls stay where they are keep the refreshes as they are.
LEMMA RefreshingUnchanged ==
    ASSUME UNCHANGED pc, NEW s \in Session
    PROVE  Refreshing(s)' = Refreshing(s)
BY DEF Refreshing, HandlersOf

\* A step that adds no refresh to a session and leaves its lock and its lapses
\* alone keeps the bound.
LEMMA FewerRefreshes ==
    ASSUME TypeOK, RefreshesBounded, NEW s \in Session,
           Refreshing(s)' \subseteq Refreshing(s),
           lock'[s] = lock[s], lapses'[s] = lapses[s]
    PROVE  Cardinality(Refreshing(s)') <= lapses'[s] + (IF lock'[s] THEN 1 ELSE 0)
<1>1. Cardinality(Refreshing(s)') \in Nat
      /\ Cardinality(Refreshing(s)') <= Cardinality(Refreshing(s))
  BY RefreshingFinite, FS_Subset, FS_CardinalityType
<1>2. QED
  BY <1>1, RefreshingFinite DEF RefreshesBounded, TypeOK

\* No refresh is in progress when the agents start.
LEMMA InitRefreshesBounded == Init => RefreshesBounded
<1> SUFFICES ASSUME Init, NEW s \in Session
             PROVE  Cardinality(Refreshing(s)) <= lapses[s] + (IF lock[s] THEN 1 ELSE 0)
  BY DEF RefreshesBounded
<1>1. Refreshing(s) = {}
  BY DEF Init, Refreshing, HandlersOf, CriticalPC
<1>2. QED
  BY <1>1, FS_EmptySet DEF Init

\* A handler is where it was when its call is.
LEMMA GotoSame ==
    ASSUME TypeOK, NEW h \in Handler, UNCHANGED pc
    PROVE  \E c \in PC : Goto(h, c) /\ c = pc[h]
BY DEF TypeOK, Goto

\* What a handler does to the lock and to the calls in progress, whichever of
\* its steps it takes.
LEMMA HandlerMoves ==
    ASSUME TypeOK, NEW h \in Handler, Arrive(h) \/ Serve(h) \/ Crash(h)
    PROVE  \/ /\ UNCHANGED lapses
              /\ \/ \E c \in PC : /\ Goto(h, c)
                                  /\ c \in CriticalPC => pc[h] \in CriticalPC
                                  /\ UNCHANGED lock
                 \/ pc[h] = "obtain" /\ Goto(h, "exchange") /\ LockFree(SessionOf[h])
                    /\ lock' = [lock EXCEPT ![SessionOf[h]] = TRUE]
                 \/ pc[h] = "obtain" /\ UNCHANGED pc /\ LockFree(SessionOf[h])
                    /\ lock' = [lock EXCEPT ![SessionOf[h]] = TRUE]
                 \/ \E c \in {"idle", "releaseAgain"} :
                       /\ pc[h] = "release" /\ Goto(h, c)
                       /\ lock' = [lock EXCEPT ![SessionOf[h]] = FALSE]
           \/ UNCHANGED pc /\ LoseLock(SessionOf[h])
<1> USE RepliesPossible DEF PC, WritingPC, CriticalPC, redis, history, Answer
<1>1. CASE Arrive(h)
  <2>1. \A r \in Requests : First(r) \in {"refreshGet", "logoutGet", "enrichGet", "resolveGet"}
    BY DEF First
  <2>2. QED
    BY <1>1, <2>1 DEF Arrive
<1>2. CASE ResolveGet(h)
  BY <1>2 DEF ResolveGet
<1>3. CASE RefreshGet(h)
  BY <1>3 DEF RefreshGet
<1>4. CASE RefreshObtain(h)
  BY <1>4 DEF RefreshObtain, Missed
<1>5. CASE RefreshExchange(h)
  BY <1>5 DEF RefreshExchange
<1>6. CASE RefreshSet(h) \/ RefreshSetAgain(h)
  BY <1>6, GotoSame DEF RefreshSet, RefreshSetAgain
<1>7. CASE RefreshRelease(h) \/ RefreshReleaseAgain(h)
  BY <1>7 DEF RefreshRelease, RefreshReleaseAgain
<1>8. CASE LogoutGet(h)
  BY <1>8 DEF LogoutGet
<1>9. CASE LogoutDelete(h)
  BY <1>9, GotoSame DEF LogoutDelete
<1>10. CASE EnrichGet(h)
  BY <1>10 DEF EnrichGet
<1>11. CASE EnrichSet(h)
  BY <1>11, GotoSame DEF EnrichSet
<1>12. CASE Crash(h)
  BY <1>12 DEF Crash
<1>13. QED
  BY <1>1, <1>2, <1>3, <1>4, <1>5, <1>6, <1>7, <1>8, <1>9, <1>10, <1>11, <1>12 DEF Serve

\* A lock that goes is charged for when a refresh is in progress.
LEMMA LoseLockBounded ==
    ASSUME TypeOK, RefreshesBounded, NEW z \in Session, LoseLock(z), UNCHANGED pc,
           NEW s \in Session
    PROVE  Cardinality(Refreshing(s)') <= lapses'[s] + (IF lock'[s] THEN 1 ELSE 0)
<1>1. /\ Cardinality(Refreshing(s)) \in Nat
      /\ Cardinality(Refreshing(s)) <= lapses[s] + (IF lock[s] THEN 1 ELSE 0)
      /\ lapses[s] \in Nat
      /\ lock[s] \in BOOLEAN
  BY RefreshingFinite DEF RefreshesBounded, TypeOK
<1>2. Refreshing(s)' = Refreshing(s)
  BY RefreshingUnchanged
<1>3. CASE s # z
  <2>1. lock'[s] = lock[s] /\ lapses'[s] = lapses[s]
    BY <1>3 DEF LoseLock, TypeOK
  <2>2. QED
    BY <1>2, <2>1, FewerRefreshes
<1>4. CASE s = z /\ Refreshing(s) = {}
  <2>1. Cardinality(Refreshing(s)') = 0
    BY <1>2, <1>4, FS_EmptySet
  <2>2. lapses'[s] = lapses[s] /\ lock'[s] = FALSE
    BY <1>4 DEF LoseLock, TypeOK
  <2>3. QED
    BY <1>1, <2>1, <2>2
<1>5. CASE s = z /\ Refreshing(s) # {}
  <2>1. lapses'[s] = lapses[s] + 1 /\ lock'[s] = FALSE
    BY <1>5 DEF LoseLock, TypeOK
  <2>2. QED
    BY <1>1, <1>2, <2>1
<1>6. QED
  BY <1>3, <1>4, <1>5

\* A refresh begins only under a free lock, and a lock is freed by the end of
\* a refresh or by a lapse: every step keeps the bound.
LEMMA NextRefreshesBounded ==
    TypeOK /\ RefreshesBounded /\ [Next]_vars => RefreshesBounded'
<1> SUFFICES ASSUME TypeOK, RefreshesBounded, [Next]_vars, NEW s \in Session
             PROVE  Cardinality(Refreshing(s)') <= lapses'[s] + (IF lock'[s] THEN 1 ELSE 0)
  BY DEF RefreshesBounded
<1> DEFINE n == Cardinality(Refreshing(s))
<1>1. /\ IsFiniteSet(Refreshing(s))
      /\ n \in Nat
      /\ n <= lapses[s] + (IF lock[s] THEN 1 ELSE 0)
      /\ lapses[s] \in Nat
      /\ lock[s] \in BOOLEAN
  BY RefreshingFinite DEF RefreshesBounded, TypeOK
<1>2. ASSUME NEW h \in Handler, Arrive(h) \/ Serve(h) \/ Crash(h)
      PROVE  Cardinality(Refreshing(s)') <= lapses'[s] + (IF lock'[s] THEN 1 ELSE 0)
  <2>1. CASE UNCHANGED pc /\ LoseLock(SessionOf[h])
    BY <2>1, CookieNamesSession, LoseLockBounded
  <2>2. CASE \E c \in PC : Goto(h, c) /\ (c \in CriticalPC => pc[h] \in CriticalPC)
                           /\ UNCHANGED lock /\ UNCHANGED lapses
    <3>1. PICK c \in PC : Goto(h, c) /\ (c \in CriticalPC => pc[h] \in CriticalPC)
      BY <2>2
    <3>2. c \in CriticalPC /\ s = SessionOf[h] => h \in Refreshing(s)
      BY <3>1 DEF Refreshing, HandlersOf
    <3>3. Refreshing(s)' \subseteq Refreshing(s)
      BY <3>1, <3>2, RefreshingAfterGoto
    <3>4. QED
      BY <2>2, <3>3, FewerRefreshes
  <2>3. CASE pc[h] = "obtain" /\ Goto(h, "exchange") /\ LockFree(SessionOf[h])
             /\ lock' = [lock EXCEPT ![SessionOf[h]] = TRUE] /\ UNCHANGED lapses
    <3>1. "exchange" \in PC /\ "exchange" \in CriticalPC
      BY DEF PC, CriticalPC
    <3>2. h \notin Refreshing(s)
      BY <2>3 DEF Refreshing, HandlersOf, CriticalPC
    <3>3. CASE s = SessionOf[h]
      <4>1. Refreshing(s)' = Refreshing(s) \cup {h}
        BY <2>3, <3>1, <3>3, RefreshingAfterGoto
      <4>2. Cardinality(Refreshing(s)') = n + 1
        BY <1>1, <3>2, <4>1, FS_AddElement
      <4>3. lock[s] = FALSE /\ lock'[s] = TRUE
        BY <1>1, <2>3, <3>3 DEF LockFree, TypeOK
      <4>4. QED
        BY <1>1, <2>3, <4>2, <4>3
    <3>4. CASE s # SessionOf[h]
      <4>1. Refreshing(s)' \subseteq Refreshing(s)
        BY <2>3, <3>1, <3>4, RefreshingAfterGoto
      <4>2. lock'[s] = lock[s]
        BY <2>3, <3>4 DEF TypeOK
      <4>3. QED
        BY <2>3, <4>1, <4>2, FewerRefreshes
    <3>5. QED
      BY <3>3, <3>4
  <2>4. CASE pc[h] = "obtain" /\ UNCHANGED pc /\ LockFree(SessionOf[h])
             /\ lock' = [lock EXCEPT ![SessionOf[h]] = TRUE] /\ UNCHANGED lapses
    <3>1. Refreshing(s)' = Refreshing(s)
      BY <2>4, RefreshingUnchanged
    <3>2. lock'[s] \in BOOLEAN /\ (lock[s] => lock'[s])
      BY <1>1, <2>4 DEF TypeOK
    <3>3. QED
      BY <1>1, <2>4, <3>1, <3>2
  <2>5. ASSUME NEW c \in {"idle", "releaseAgain"}, pc[h] = "release", Goto(h, c),
               lock' = [lock EXCEPT ![SessionOf[h]] = FALSE], UNCHANGED lapses
        PROVE  Cardinality(Refreshing(s)') <= lapses'[s] + (IF lock'[s] THEN 1 ELSE 0)
    <3>1. c \in PC /\ c \notin CriticalPC
      BY DEF PC, CriticalPC
    <3>2. Refreshing(s)' = Refreshing(s) \ {h}
      BY <2>5, <3>1, RefreshingAfterGoto
    <3>3. CASE s = SessionOf[h]
      <4>1. h \in Refreshing(s)
        BY <2>5, <3>3 DEF Refreshing, HandlersOf, CriticalPC
      <4>2. Cardinality(Refreshing(s)') = n - 1
        BY <1>1, <3>2, <4>1, FS_RemoveElement
      <4>3. QED
        BY <1>1, <2>5, <4>2
    <3>4. CASE s # SessionOf[h]
      <4>1. lock'[s] = lock[s]
        BY <2>5, <3>4 DEF TypeOK
      <4>2. QED
        BY <2>5, <3>2, <4>1, FewerRefreshes
    <3>5. QED
      BY <3>3, <3>4
  <2>6. QED
    BY <1>2, <2>1, <2>2, <2>3, <2>4, <2>5, HandlerMoves
<1>3. ASSUME NEW z \in Session, TokenAges(z) \/ SessionExpires(z)
      PROVE  Cardinality(Refreshing(s)') <= lapses'[s] + (IF lock'[s] THEN 1 ELSE 0)
  <2>1. UNCHANGED <<pc, lock, lapses>>
    BY <1>3 DEF TokenAges, SessionExpires, redis, history
  <2>2. QED
    BY <2>1, RefreshingUnchanged, FewerRefreshes
<1>4. ASSUME NEW z \in Session, LockExpires(z)
      PROVE  Cardinality(Refreshing(s)') <= lapses'[s] + (IF lock'[s] THEN 1 ELSE 0)
  BY <1>4, LoseLockBounded DEF LockExpires
<1>5. CASE UNCHANGED vars
  BY <1>5, RefreshingUnchanged, FewerRefreshes DEF vars
<1>6. QED
  BY <1>2, <1>3, <1>4, <1>5 DEF Next

\* At most one refresh of a session is in progress for the lease that is held,
\* and one for each lease that ran out under its holder.
THEOREM RefreshLockBounds == Spec => []RefreshesBounded
BY TypeCorrect, InitRefreshesBounded, NextRefreshesBounded, PTL DEF Spec

\* Without a lapse, two refreshes of a session are the same one.
LEMMA OneRefresh ==
    ASSUME RefreshesBounded, TypeOK, NEW s \in Session, lapses[s] = 0,
           NEW g \in Refreshing(s), NEW h \in Refreshing(s)
    PROVE  g = h
<1> SUFFICES ASSUME g # h PROVE FALSE
  OBVIOUS
<1>1. IsFiniteSet({g}) /\ Cardinality({g}) = 1
  BY FS_Singleton
<1>2. h \notin {g} /\ 1 + 1 = 2
  OBVIOUS
<1>3. IsFiniteSet({g} \cup {h}) /\ Cardinality({g} \cup {h}) = 1 + 1
  BY <1>1, <1>2, FS_AddElement
<1>4. {g} \cup {h} \subseteq Refreshing(s)
  OBVIOUS
<1>5. Cardinality({g} \cup {h}) <= Cardinality(Refreshing(s))
  BY <1>4, RefreshingFinite, FS_Subset
<1>6. Cardinality(Refreshing(s)) \in Nat /\ Cardinality(Refreshing(s)) <= 1
  BY RefreshingFinite DEF RefreshesBounded, TypeOK
<1>7. QED
  BY <1>2, <1>3, <1>5, <1>6

\* The only refresh of a session without lapses has just been issued the
\* newest tokens, and nobody else is issued any before it stores them.
LEMMA NextRefreshStoresNewest ==
    TypeOK /\ RefreshesBounded /\ RefreshStoresNewest /\ [Next]_vars
        => RefreshStoresNewest'
<1> SUFFICES ASSUME TypeOK, RefreshesBounded, RefreshStoresNewest, [Next]_vars,
                    NEW s \in Session, lapses'[s] = 0,
                    NEW g \in Handler, SessionOf[g] = s, pc'[g] \in StoringPC
             PROVE  copy'[g].at = issued'[s]
  BY DEF RefreshStoresNewest, HandlersOf
<1> USE DEF TypeOK, redis, provider, history, Goto, Forget, Answer, StoringPC
<1>1. ASSUME lapses[s] = 0, pc[g] \in StoringPC, copy'[g] = copy[g], issued'[s] = issued[s]
      PROVE  copy'[g].at = issued'[s]
  BY <1>1 DEF RefreshStoresNewest, HandlersOf
<1>2. ASSUME NEW h \in Handler, RefreshExchange(h)
      PROVE  copy'[g].at = issued'[s]
  <2> DEFINE z == SessionOf[h]
  <2>1. lapses[s] = 0 /\ pc[h] = "exchange" /\ z \in Session
    BY <1>2, CookieNamesSession DEF RefreshExchange
  <2>2. CASE g = h
    <3>1. /\ issued'[s] = issued[s] + 1
          /\ copy'[g] = Updated(copy[g], issued[s] + 1)
      BY <1>2, <2>1, <2>2 DEF RefreshExchange, Issue
    <3>2. copy[g] \in Record
      BY <2>1, <2>2 DEF WritingPC
    <3>3. QED
      BY <3>1, <3>2 DEF Updated, Record
  <2>3. CASE g # h /\ z = s
    <3>1. pc[g] \in StoringPC
      BY <1>2, <2>3 DEF RefreshExchange
    <3>2. g \in Refreshing(s) /\ h \in Refreshing(s)
      BY <2>1, <2>3, <3>1 DEF Refreshing, HandlersOf, CriticalPC
    <3>3. QED
      BY <2>1, <2>3, <3>2, OneRefresh
  <2>4. CASE g # h /\ z # s
    <3>1. pc[g] \in StoringPC /\ copy'[g] = copy[g] /\ issued'[s] = issued[s]
      BY <1>2, <2>1, <2>4 DEF RefreshExchange, Issue
    <3>2. QED
      BY <1>1, <2>1, <3>1
  <2>5. QED
    BY <2>2, <2>3, <2>4
<1>3. ASSUME NEW h \in Handler, Arrive(h) \/ ResolveGet(h) \/ RefreshGet(h) \/ RefreshObtain(h)
               \/ RefreshRelease(h) \/ RefreshReleaseAgain(h) \/ LogoutGet(h) \/ LogoutDelete(h)
               \/ EnrichGet(h) \/ EnrichSet(h) \/ Crash(h)
      PROVE  copy'[g].at = issued'[s]
  <2>1. lapses[s] = 0 /\ issued' = issued
    <3>1. CASE RefreshReleaseAgain(h)
      BY <3>1, CookieNamesSession DEF RefreshReleaseAgain, LoseLock
    <3>2. CASE ~RefreshReleaseAgain(h)
      BY <1>3, <3>2 DEF Arrive, ResolveGet, RefreshGet, RefreshObtain, RefreshRelease,
                        LogoutGet, LogoutDelete, EnrichGet, EnrichSet, Crash
    <3>3. QED
      BY <3>1, <3>2
  <2>2. pc'[h] \notin StoringPC
    <3>1. ASSUME Arrive(h) PROVE pc'[h] \notin StoringPC
      <4>1. \A r \in Requests : First(r) \notin StoringPC
        BY RepliesPossible DEF First
      <4>2. QED
        BY <3>1, <4>1 DEF Arrive
    <3>2. QED
      BY <1>3, <3>1 DEF ResolveGet, RefreshGet, RefreshObtain, Missed, RefreshRelease,
         RefreshReleaseAgain, LogoutGet, LogoutDelete, EnrichGet, EnrichSet, Crash
  <2>3. g # h => pc'[g] = pc[g] /\ copy'[g] = copy[g]
    BY <1>3 DEF Arrive, ResolveGet, RefreshGet, RefreshObtain, Missed, RefreshRelease,
                RefreshReleaseAgain, LogoutGet, LogoutDelete, EnrichGet, EnrichSet, Crash
  <2>4. QED
    BY <1>1, <2>1, <2>2, <2>3
<1>4. ASSUME NEW h \in Handler, RefreshSet(h) \/ RefreshSetAgain(h)
      PROVE  copy'[g].at = issued'[s]
  <2>1. lapses[s] = 0 /\ issued' = issued
    BY <1>4 DEF RefreshSet, RefreshSetAgain
  <2>2. pc[g] \in StoringPC /\ copy'[g] = copy[g]
    BY <1>4 DEF RefreshSet, RefreshSetAgain
  <2>3. QED
    BY <1>1, <2>1, <2>2
<1>5. ASSUME NEW z \in Session, TokenAges(z) \/ SessionExpires(z) \/ LockExpires(z)
      PROVE  copy'[g].at = issued'[s]
  <2>1. UNCHANGED <<pc, copy, issued>>
    BY <1>5 DEF TokenAges, SessionExpires, LockExpires
  <2>2. lapses[s] = 0
    BY <1>5 DEF TokenAges, SessionExpires, LockExpires, LoseLock
  <2>3. QED
    BY <1>1, <2>1, <2>2
<1>6. CASE UNCHANGED vars
  BY <1>1, <1>6 DEF vars
<1>7. QED
  BY <1>2, <1>3, <1>5, <1>6, <1>4 DEF Next, Serve

\* Until a refresh in progress loses its lease, no two requests exchange and store a
\* session's tokens at the same time, as the documents say: whatever else fails,
\* crashes or is repeated, it takes a lease that ran out or a DEL sent again.
THEOREM ExclusiveUntilLapse ==
    Spec => []((\A s \in Session : lapses[s] = 0) => NoConcurrentRefresh)
<1>1. ASSUME TypeOK, RefreshesBounded, \A s \in Session : lapses[s] = 0
      PROVE  NoConcurrentRefresh
  <2> SUFFICES ASSUME NEW g \in Handler, NEW h \in Handler, SessionOf[g] = SessionOf[h],
                      {pc[g], pc[h]} \subseteq {"exchange", "refreshSet"}
               PROVE  g = h
    BY DEF NoConcurrentRefresh
  <2>1. SessionOf[g] \in Session
    BY CookieNamesSession
  <2>2. g \in Refreshing(SessionOf[g]) /\ h \in Refreshing(SessionOf[g])
    BY DEF Refreshing, HandlersOf, CriticalPC
  <2>3. QED
    BY <1>1, <2>1, <2>2, OneRefresh
<1>2. QED
  BY <1>1, TypeCorrect, RefreshLockBounds, PTL

\* As long as the leases of a session last, every refresh stores the newest
\* tokens the provider issued for it.
THEOREM RefreshNeverGoesBack == Spec => []RefreshStoresNewest
<1>1. Init => RefreshStoresNewest
  BY DEF Init, RefreshStoresNewest, HandlersOf, StoringPC
<1>2. QED
  BY <1>1, NextRefreshStoresNewest, TypeCorrect, RefreshLockBounds, PTL DEF Spec

\* The instance counts with the definition of FiniteSets.
LEMMA SameCardinality == \A S : Exclusion!Cardinality(S) = Cardinality(S)
BY Zenon DEF Exclusion!Cardinality, Cardinality

\* Every step of the agent is a step of the critical section with leases, or
\* leaves it as it is.
LEMMA StepImplementsExclusion ==
    TypeOK /\ RefreshesBounded /\ [Next]_vars
        => [Exclusion!Next]_<<[s \in Session |-> Refreshing(s)], lapses>>
<1> DEFINE in == [s \in Session |-> Refreshing(s)]
<1> SUFFICES ASSUME TypeOK, RefreshesBounded, Next
             PROVE  Exclusion!Next \/ UNCHANGED <<in, lapses>>
  BY RefreshingUnchanged DEF vars
<1>1. ASSUME NEW h \in Handler, NEW c \in PC, Goto(h, c), UNCHANGED lapses,
             c \in CriticalPC => \/ pc[h] \in CriticalPC
                                 \/ LockFree(SessionOf[h])
      PROVE  Exclusion!Next \/ UNCHANGED <<in, lapses>>
  <2> DEFINE z == SessionOf[h]
  <2>1. z \in Session
    BY CookieNamesSession
  <2>2. h \in Refreshing(z) <=> pc[h] \in CriticalPC
    BY DEF Refreshing, HandlersOf
  <2>3. \A s \in Session : s # z => h \notin Refreshing(s)
    BY DEF Refreshing, HandlersOf
  <2>4. CASE c \in CriticalPC /\ pc[h] \notin CriticalPC
    <3>1. \A s \in Session :
            Refreshing(s)' = IF s = z THEN in[z] \cup {h} ELSE in[s]
      BY <1>1, <2>3, <2>4, RefreshingAfterGoto
    <3>2. in' = [in EXCEPT ![z] = @ \cup {h}]
      BY <3>1
    <3>3. Cardinality(in[z]) <= lapses[z]
      BY <1>1, <2>1, <2>4, RefreshingFinite DEF RefreshesBounded, TypeOK, LockFree
    <3>4. h \notin in[z]
      BY <2>1, <2>2, <2>4
    <3>5. Exclusion!Cardinality(in[z]) <= lapses[z]
      BY <3>3, SameCardinality
    <3>6. Exclusion!Enter(z, h)
      BY <1>1, <2>1, <3>2, <3>4, <3>5 DEF Exclusion!Enter
    <3>7. QED
      BY <2>1, <3>6 DEF Exclusion!Next
  <2>5. CASE c \notin CriticalPC /\ pc[h] \in CriticalPC
    <3>1. \A s \in Session :
            Refreshing(s)' = IF s = z THEN in[z] \ {h} ELSE in[s]
      BY <1>1, <2>3, <2>5, RefreshingAfterGoto
    <3>2. in' = [in EXCEPT ![z] = @ \ {h}]
      BY <3>1
    <3>3. h \in in[z]
      BY <2>1, <2>2, <2>5
    <3>4. Exclusion!Leave(z, h)
      BY <1>1, <3>2, <3>3 DEF Exclusion!Leave
    <3>5. QED
      BY <2>1, <3>4 DEF Exclusion!Next
  <2>6. CASE c \in CriticalPC <=> pc[h] \in CriticalPC
    <3>1. \A s \in Session : Refreshing(s)' = Refreshing(s)
      BY <1>1, <2>2, <2>3, <2>6, RefreshingAfterGoto
    <3>2. QED
      BY <1>1, <3>1
  <2>7. QED
    BY <2>4, <2>5, <2>6
<1>2. ASSUME NEW z \in Session, LoseLock(z), UNCHANGED pc
      PROVE  Exclusion!Next \/ UNCHANGED <<in, lapses>>
  <2>1. UNCHANGED in
    BY <1>2, RefreshingUnchanged
  <2>2. CASE Refreshing(z) = {}
    BY <1>2, <2>1, <2>2 DEF LoseLock
  <2>3. CASE Refreshing(z) # {}
    <3>1. Exclusion!Lapse(z)
      BY <1>2, <2>1, <2>3 DEF LoseLock, Exclusion!Lapse
    <3>2. QED
      BY <3>1 DEF Exclusion!Next
  <2>4. QED
    BY <2>2, <2>3
<1>3. ASSUME NEW h \in Handler, Arrive(h) \/ Serve(h) \/ Crash(h)
      PROVE  Exclusion!Next \/ UNCHANGED <<in, lapses>>
  <2>1. CASE UNCHANGED pc /\ LoseLock(SessionOf[h])
    BY <1>2, <2>1, CookieNamesSession
  <2>2. CASE UNCHANGED pc /\ UNCHANGED lapses
    BY <2>2, RefreshingUnchanged
  <2>3. ASSUME UNCHANGED lapses, ~UNCHANGED pc
        PROVE  \E c \in PC : /\ Goto(h, c)
                             /\ c \in CriticalPC => \/ pc[h] \in CriticalPC
                                                    \/ LockFree(SessionOf[h])
    <3>1. /\ {"idle", "exchange", "releaseAgain"} \subseteq PC
          /\ {"idle", "releaseAgain"} \cap CriticalPC = {}
      BY DEF PC, CriticalPC
    <3>2. QED
      BY <1>3, <2>3, <3>1, HandlerMoves
  <2>4. QED
    BY <1>1, <1>3, <2>1, <2>2, <2>3, HandlerMoves
<1>4. ASSUME NEW z \in Session, TokenAges(z) \/ SessionExpires(z)
      PROVE  UNCHANGED <<in, lapses>>
  BY <1>4, RefreshingUnchanged DEF TokenAges, SessionExpires, history
<1>5. ASSUME NEW z \in Session, LockExpires(z)
      PROVE  Exclusion!Next \/ UNCHANGED <<in, lapses>>
  BY <1>5, <1>2 DEF LockExpires
<1>6. QED
  BY <1>3, <1>4, <1>5 DEF Next

\* The refresh lock, as the handlers use it, implements a critical section
\* with leases, whatever fails.
THEOREM RefreshLockImplementsExclusion == Spec => ImplementsExclusion
<1>1. Init => Exclusion!Init
  <2> SUFFICES ASSUME Init PROVE Exclusion!Init
    OBVIOUS
  <2>1. \A s \in Session : Refreshing(s) = {}
    BY DEF Init, Refreshing, HandlersOf, CriticalPC
  <2>2. QED
    BY <2>1 DEF Init, Exclusion!Init
<1>2. QED
  BY <1>1, StepImplementsExclusion, TypeCorrect, RefreshLockBounds, PTL
     DEF Spec, ImplementsExclusion, Exclusion!Spec

-----------------------------------------------------------------------------
(* Sessions that are gone.                                                 *)

\* A handler that does not find its session never comes to hold a copy of it.
LEMMA GoneAfterHandler ==
    ASSUME TypeOK, NEW s \in Session, Gone(s),
           NEW h \in Handler, Arrive(h) \/ Serve(h) \/ Crash(h)
    PROVE  Gone(s)'
<1> USE DEF TypeOK, redis, provider, history, Goto, Forget, Answer, WritingPC
<1> DEFINE z == SessionOf[h]
<1>1. store[s] = NoSession /\ \A g \in HandlersOf(s) : pc[g] \notin WritingPC
  BY DEF Gone, Writing
<1>2. h \in HandlersOf(s) <=> z = s
  BY DEF HandlersOf
<1>3. \A g \in Handler : g # h => pc'[g] = pc[g]
  BY DEF Arrive, Serve, ResolveGet, RefreshGet, RefreshObtain, Missed, RefreshExchange,
         RefreshSet, RefreshSetAgain, RefreshRelease, RefreshReleaseAgain, LogoutGet,
         LogoutDelete, EnrichGet, EnrichSet, Crash
<1>4. SUFFICES store'[s] = NoSession /\ (z = s => pc'[h] \notin WritingPC)
  BY <1>1, <1>2, <1>3 DEF Gone, Writing, HandlersOf
<1>5. CASE Arrive(h)
  <2>1. \A r \in Requests : First(r) \notin WritingPC
    BY RepliesPossible DEF First
  <2>2. QED
    BY <1>1, <1>5, <2>1 DEF Arrive
<1>6. CASE ResolveGet(h) \/ RefreshRelease(h) \/ RefreshReleaseAgain(h) \/ LogoutGet(h)
           \/ Crash(h)
  BY <1>1, <1>2, <1>6 DEF ResolveGet, RefreshRelease, RefreshReleaseAgain, LogoutGet, Crash
<1>7. CASE RefreshGet(h)
  BY <1>1, <1>7 DEF RefreshGet, WorthRefreshing, Found
<1>8. CASE EnrichGet(h)
  BY <1>1, <1>8 DEF EnrichGet, Found
<1>9. CASE LogoutDelete(h)
  BY <1>1, <1>2, <1>9 DEF LogoutDelete, SetSession
<1>10. CASE RefreshObtain(h) \/ RefreshExchange(h) \/ RefreshSet(h) \/ RefreshSetAgain(h)
            \/ EnrichSet(h)
  <2>1. z # s
    BY <1>1, <1>2, <1>10
       DEF RefreshObtain, RefreshExchange, RefreshSet, RefreshSetAgain, EnrichSet
  <2>2. store'[s] = store[s]
    BY <1>10, <2>1 DEF RefreshObtain, RefreshExchange, RefreshSet, RefreshSetAgain,
                       EnrichSet, PutBack, SetSession
  <2>3. QED
    BY <1>1, <2>1, <2>2
<1>11. QED
  BY <1>5, <1>6, <1>7, <1>8, <1>9, <1>10 DEF Serve

\* A session that is gone comes back only through a request that read it
\* before: once none is left, no request, failure or expiry brings it back.
THEOREM GoneSessionsStayGone == Spec => GoneForGood
<1>1. ASSUME TypeOK, Next, NEW s \in Session, Gone(s)
      PROVE  Gone(s)'
  <2>1. ASSUME NEW z \in Session, TokenAges(z) \/ SessionExpires(z) \/ LockExpires(z)
        PROVE  Gone(s)'
    <3>1. UNCHANGED pc /\ store'[s] = NoSession
      BY <1>1, <2>1 DEF Gone, TypeOK, redis, TokenAges, SessionExpires, LockExpires, SetSession
    <3>2. QED
      BY <1>1, <3>1 DEF Gone, Writing, HandlersOf
  <2>2. QED
    BY <1>1, <2>1, GoneAfterHandler DEF Next
<1>2. TypeOK /\ [Next]_vars => [\A s \in Session : Gone(s) => Gone(s)']_vars
  BY <1>1
<1>3. QED
  BY <1>2, TypeCorrect, PTL DEF Spec, GoneForGood

-----------------------------------------------------------------------------
(* Refresh tokens that are retired when they are used.                     *)

\* Why a session stays refreshable: the token the provider honours is in the
\* hands of the one refresh that is about to store it, in the session, or
\* forfeited.
TokenInHand ==
    /\ \A s \in Session :
          /\ honoured[s] <= issued[s]
          /\ Found(s) => store[s].rt <= honoured[s]
    /\ \A h \in Handler : pc[h] \in WritingPC => copy[h].rt <= honoured[SessionOf[h]]
    /\ \A h \in Handler : pc[h] = "refreshSet" =>
          LET s == SessionOf[h] IN
          /\ copy[h].rt = honoured[s]
          /\ Found(s) => store[s].rt < honoured[s]
          /\ \A g \in HandlersOf(s) \ {h} :
                pc[g] \in WritingPC => copy[g].rt < honoured[s]
    /\ StaysRefreshable

Retired == RefreshTokens = "retired"

\* A session begins with the refresh token its provider honours.
LEMMA InitTokenInHand == Init => TokenInHand
BY CookieNamesSession, NoSessionIsNoRecord
   DEF Init, TokenInHand, StaysRefreshable, HandlersOf, WritingPC

\* Every step keeps the honoured refresh token in one place, the record in
\* Redis or the copy of the one refresh about to store it, or forfeits it.
LEMMA NextTokenInHand ==
    Retired /\ TypeOK /\ TokenInHand /\ [Next]_vars => TokenInHand'
<1> SUFFICES ASSUME Retired, TypeOK, TokenInHand, [Next]_vars
             PROVE  TokenInHand'
  OBVIOUS
<1> USE CookieNamesSession, NoSessionIsNoRecord
    DEF TypeOK, redis, provider, history, Goto, Forget, Answer, Found
<1>1. ASSUME UNCHANGED <<issued, honoured>>,
             NEW h \in Handler,
             \A g \in Handler : g # h => pc'[g] = pc[g] /\ copy'[g] = copy[g],
             \A s \in Session : store'[s] \in {store[s], NoSession},
             \A s \in Session : forfeited[s] => forfeited'[s],
             pc'[h] # "refreshSet",
             pc[h] = "refreshSet" => forfeited'[SessionOf[h]],
             pc'[h] \in WritingPC =>
                \/ pc[h] \in WritingPC /\ copy'[h] = copy[h]
                \/ Found(SessionOf[h]) /\ copy'[h].rt = store[SessionOf[h]].rt
      PROVE  TokenInHand'
  BY <1>1 DEF TokenInHand, StaysRefreshable, HandlersOf, Record, Retired
<1>2. ASSUME NEW h \in Handler, Arrive(h) PROVE TokenInHand'
  <2>1. \A r \in Requests : First(r) \in {"refreshGet", "logoutGet", "resolveGet", "enrichGet"}
    BY RepliesPossible DEF First
  <2>2. pc'[h] \in {"refreshGet", "logoutGet", "resolveGet", "enrichGet"}
    BY <1>2, <2>1 DEF Arrive
  <2>3. QED
    BY <1>1, <1>2, <2>2 DEF Arrive, WritingPC
<1>3. ASSUME NEW h \in Handler, ResolveGet(h) \/ LogoutGet(h) PROVE TokenInHand'
  BY <1>1, <1>3 DEF ResolveGet, LogoutGet, WritingPC
<1>4. ASSUME NEW h \in Handler, RefreshGet(h) PROVE TokenInHand'
  BY <1>1, <1>4 DEF RefreshGet, WorthRefreshing, WritingPC
<1>5. ASSUME NEW h \in Handler, RefreshObtain(h) PROVE TokenInHand'
  BY <1>1, <1>5 DEF RefreshObtain, Missed, WritingPC
<1>6. ASSUME NEW h \in Handler, RefreshRelease(h) \/ RefreshReleaseAgain(h)
      PROVE  TokenInHand'
  BY <1>1, <1>6 DEF RefreshRelease, RefreshReleaseAgain, WritingPC
<1>7. ASSUME NEW h \in Handler, LogoutDelete(h) PROVE TokenInHand'
  BY <1>1, <1>7 DEF LogoutDelete, SetSession, WritingPC
<1>8. ASSUME NEW h \in Handler, RefreshExchange(h) PROVE TokenInHand'
  <2> DEFINE z == SessionOf[h]
  <2>1. pc[h] = "exchange" /\ z \in Session /\ copy[h] \in Record /\ issued[z] \in Nat
        /\ honoured[z] \in Nat
    BY <1>8 DEF RefreshExchange, WritingPC
  <2>2. CASE /\ \A s \in Session : forfeited'[s] = (forfeited[s] \/ s = z)
             /\ Issue(z, copy[h].rt) /\ Forget(h) /\ Goto(h, "release")
    <3>1. /\ honoured' = [honoured EXCEPT ![z] = issued[z] + 1]
          /\ issued' = [issued EXCEPT ![z] = issued[z] + 1]
          /\ copy[h].rt = honoured[z]
      BY <2>2 DEF Issue, Retired
    <3>2. honoured[z] < issued[z] + 1
      BY <2>1 DEF TokenInHand
    <3>3. /\ UNCHANGED store
          /\ \A g \in Handler : g # h => pc'[g] = pc[g] /\ copy'[g] = copy[g]
          /\ pc'[h] \notin WritingPC
      BY <1>8, <2>2 DEF RefreshExchange, WritingPC
    <3>4. \A g \in HandlersOf(z) : pc[g] # "refreshSet"
      BY <2>1, <3>1 DEF TokenInHand, HandlersOf, WritingPC
    <3>5. \A g \in Handler : copy[g] # NoSession => copy[g].rt \in Nat
      BY DEF Record
    <3>6. \A s \in Session : store[s] # NoSession => store[s].rt \in Nat
      BY DEF Record
    <3>7. \A s \in Session : honoured'[s] <= issued'[s]
                             /\ (Found(s) => store[s].rt <= honoured'[s])
      BY <2>1, <3>1, <3>2, <3>6 DEF TokenInHand
    <3>8. \A g \in Handler : pc'[g] \in WritingPC => copy'[g].rt <= honoured'[SessionOf[g]]
      <4> SUFFICES ASSUME NEW g \in Handler, pc'[g] \in WritingPC
                   PROVE  copy'[g].rt <= honoured'[SessionOf[g]]
        OBVIOUS
      <4>1. g # h /\ copy[g].rt <= honoured[SessionOf[g]] /\ copy[g].rt \in Nat
        BY <3>3, <3>5 DEF TokenInHand
      <4>2. CASE SessionOf[g] = z
        BY <2>1, <3>1, <3>2, <3>3, <4>1, <4>2
      <4>3. CASE SessionOf[g] # z
        BY <3>1, <3>3, <4>1, <4>3
      <4>4. QED
        BY <4>2, <4>3
    <3>9. ASSUME NEW g \in Handler, pc'[g] = "refreshSet"
          PROVE  /\ copy'[g].rt = honoured'[SessionOf[g]]
                 /\ Found(SessionOf[g]) => store[SessionOf[g]].rt < honoured'[SessionOf[g]]
                 /\ \A f \in HandlersOf(SessionOf[g]) \ {g} :
                       pc'[f] \in WritingPC => copy'[f].rt < honoured'[SessionOf[g]]
      <4>1. g # h /\ pc[g] = "refreshSet" /\ SessionOf[g] # z
        BY <3>3, <3>4, <3>9 DEF HandlersOf, WritingPC
      <4>2. \A f \in HandlersOf(SessionOf[g]) : pc'[f] = pc[f] /\ copy'[f] = copy[f]
        BY <3>3, <4>1 DEF HandlersOf
      <4>3. QED
        BY <3>1, <3>3, <4>1, <4>2 DEF TokenInHand
    <3>10. StaysRefreshable'
      <4> SUFFICES ASSUME NEW s \in Session, ~forfeited'[s], Found(s),
                          \A g \in HandlersOf(s) : pc'[g] # "refreshSet"
                   PROVE  store[s].rt = honoured'[s]
        BY <3>3 DEF StaysRefreshable, HandlersOf
      <4>1. s # z /\ ~forfeited[s] /\ \A g \in HandlersOf(s) : pc[g] # "refreshSet"
        BY <2>2, <3>3 DEF HandlersOf
      <4>2. QED
        BY <3>1, <4>1 DEF TokenInHand, StaysRefreshable, Retired
    <3>11. QED
      BY <3>3, <3>7, <3>8, <3>9, <3>10 DEF TokenInHand, HandlersOf
  <2>3. CASE Issue(z, copy[h].rt) /\ copy' = [copy EXCEPT ![h] = Updated(@, issued[z] + 1)]
             /\ Goto(h, "refreshSet") /\ UNCHANGED forfeited
    <3>1. copy[h].rt = honoured[z] /\ honoured' = [honoured EXCEPT ![z] = issued[z] + 1]
          /\ issued' = [issued EXCEPT ![z] = issued[z] + 1]
      BY <2>3 DEF Issue, Retired
    <3>2. \A g \in HandlersOf(z) : pc[g] # "refreshSet"
      BY <2>1, <3>1 DEF TokenInHand, HandlersOf, WritingPC
    <3>3. copy'[h].rt = issued[z] + 1
      BY <2>1, <2>3 DEF Updated, Record, Retired
    <3>4. UNCHANGED store
      BY <1>8 DEF RefreshExchange
    <3>5. \A g \in Handler : g # h => pc'[g] = pc[g] /\ copy'[g] = copy[g]
      BY <2>3
    <3>6. \A g \in Handler : copy[g] # NoSession => copy[g].rt \in Nat
      BY DEF Record
    <3>7. \A s \in Session : store[s] # NoSession => store[s].rt \in Nat
      BY DEF Record
    <3>8. \A s \in Session : honoured'[s] <= issued'[s]
                             /\ (Found(s) => store[s].rt <= honoured'[s])
                             /\ (s = z /\ Found(s) => store[s].rt < honoured'[s])
      BY <2>1, <3>1, <3>7 DEF TokenInHand
    <3>9. \A g \in HandlersOf(z) : g # h /\ pc[g] \in WritingPC => copy[g].rt < honoured'[z]
      BY <2>1, <3>1, <3>6 DEF TokenInHand, HandlersOf
    <3>10. \A g \in Handler : pc'[g] \in WritingPC => copy'[g].rt <= honoured'[SessionOf[g]]
      <4> SUFFICES ASSUME NEW g \in Handler, pc'[g] \in WritingPC
                   PROVE  copy'[g].rt <= honoured'[SessionOf[g]]
        OBVIOUS
      <4>1. CASE g = h
        BY <2>1, <3>1, <3>3, <4>1
      <4>2. CASE g # h /\ SessionOf[g] = z
        BY <2>1, <3>1, <3>5, <3>6, <3>9, <4>2 DEF HandlersOf
      <4>3. CASE g # h /\ SessionOf[g] # z
        BY <3>1, <3>5, <4>3 DEF TokenInHand
      <4>4. QED
        BY <4>1, <4>2, <4>3
    <3>11. ASSUME NEW g \in Handler, pc'[g] = "refreshSet"
           PROVE  /\ copy'[g].rt = honoured'[SessionOf[g]]
                  /\ Found(SessionOf[g]) => store[SessionOf[g]].rt < honoured'[SessionOf[g]]
                  /\ \A f \in HandlersOf(SessionOf[g]) \ {g} :
                        pc'[f] \in WritingPC => copy'[f].rt < honoured'[SessionOf[g]]
      <4>1. CASE g = h
        BY <2>1, <3>1, <3>3, <3>5, <3>8, <3>9, <4>1 DEF HandlersOf
      <4>2. CASE g # h
        <5>1. pc[g] = "refreshSet" /\ SessionOf[g] # z
          BY <3>2, <3>5, <3>11, <4>2 DEF HandlersOf
        <5>2. honoured'[SessionOf[g]] = honoured[SessionOf[g]]
          BY <3>1, <5>1
        <5>3. \A f \in HandlersOf(SessionOf[g]) : pc'[f] = pc[f] /\ copy'[f] = copy[f]
          BY <3>5, <5>1 DEF HandlersOf
        <5>4. QED
          BY <3>5, <4>2, <5>1, <5>2, <5>3 DEF TokenInHand
      <4>3. QED
        BY <4>1, <4>2
    <3>12. StaysRefreshable'
      <4> SUFFICES ASSUME NEW s \in Session, ~forfeited[s], Found(s),
                          \A g \in HandlersOf(s) : pc'[g] # "refreshSet"
                   PROVE  store[s].rt = honoured'[s]
        BY <2>3, <3>4 DEF StaysRefreshable, HandlersOf
      <4>1. s # z /\ \A g \in HandlersOf(s) : pc[g] # "refreshSet"
        BY <2>3, <3>5 DEF HandlersOf
      <4>2. QED
        BY <3>1, <4>1 DEF TokenInHand, StaysRefreshable, Retired
    <3>13. QED
      BY <3>4, <3>8, <3>10, <3>11, <3>12 DEF TokenInHand, HandlersOf
  <2>4. CASE UNCHANGED <<provider, forfeited>> /\ Forget(h) /\ Goto(h, "release")
    BY <1>1, <1>8, <2>1, <2>4 DEF RefreshExchange, WritingPC
  <2>5. QED
    BY <1>8, <2>1, <2>2, <2>3, <2>4 DEF RefreshExchange, Forfeit
<1>9. ASSUME NEW h \in Handler, RefreshSet(h), store' = [store EXCEPT ![SessionOf[h]] = copy[h]],
             UNCHANGED forfeited,
             \/ Goto(h, "release") /\ Forget(h)
             \/ Goto(h, "refreshSetAgain") /\ UNCHANGED copy
      PROVE  TokenInHand'
  <2> DEFINE z == SessionOf[h]
  <2>1. /\ pc[h] = "refreshSet"
        /\ pc'[h] # "refreshSet"
        /\ \A g \in Handler : g # h => pc'[g] = pc[g] /\ copy'[g] = copy[g]
        /\ pc'[h] \in WritingPC => copy'[h] = copy[h]
        /\ store' = [store EXCEPT ![z] = copy[h]]
        /\ UNCHANGED <<issued, honoured>>
        /\ z \in Session
    BY <1>9 DEF RefreshSet, WritingPC
  <2>2. copy[h].rt = honoured[z] /\ copy[h] \in Record /\ honoured[z] \in Nat
    BY <2>1 DEF TokenInHand, WritingPC
  <2>3. \A g \in HandlersOf(z) : g # h => pc[g] # "refreshSet"
    <3>1. SUFFICES ASSUME NEW g \in HandlersOf(z), g # h, pc[g] = "refreshSet"
                   PROVE  FALSE
      OBVIOUS
    <3>2. copy[g].rt = honoured[z] /\ copy[g].rt < honoured[z]
      BY <2>1, <3>1 DEF TokenInHand, HandlersOf, WritingPC
    <3>3. QED
      BY <2>2, <3>2
  <2>4. StaysRefreshable'
    <3> SUFFICES ASSUME NEW s \in Session, ~forfeited[s], store'[s] # NoSession,
                        \A g \in HandlersOf(s) : pc'[g] # "refreshSet"
                 PROVE  store'[s].rt = honoured[s]
      BY <1>9, <2>1 DEF StaysRefreshable, HandlersOf
    <3>1. CASE s = z
      BY <2>1, <2>2, <3>1
    <3>2. CASE s # z
      <4>1. \A g \in HandlersOf(s) : pc[g] # "refreshSet"
        BY <2>1, <3>2 DEF HandlersOf
      <4>2. QED
        BY <2>1, <3>2, <4>1 DEF TokenInHand, StaysRefreshable, Retired
    <3>3. QED
      BY <3>1, <3>2
  <2>5. QED
    BY <2>1, <2>2, <2>3, <2>4 DEF TokenInHand, HandlersOf, WritingPC
<1>10. ASSUME NEW h \in Handler, RefreshSet(h), UNCHANGED store, Forfeit(SessionOf[h]),
              Forget(h), Goto(h, "release")
       PROVE  TokenInHand'
  <2>1. (\A s \in Session : forfeited[s] => forfeited'[s]) /\ forfeited'[SessionOf[h]]
    BY <1>10 DEF Forfeit
  <2>2. /\ UNCHANGED <<issued, honoured, store>>
        /\ \A g \in Handler : g # h => pc'[g] = pc[g] /\ copy'[g] = copy[g]
        /\ pc'[h] \notin WritingPC
    BY <1>10 DEF RefreshSet, WritingPC
  <2>3. QED
    BY <1>1, <2>1, <2>2 DEF WritingPC
<1>11. ASSUME NEW h \in Handler, EnrichGet(h) PROVE TokenInHand'
  <2>1. ASSUME NEW t \in Tenant, NEW rec \in Record
        PROVE  [rec EXCEPT !.tenant = t].rt = rec.rt
    BY DEF Record
  <2>2. /\ UNCHANGED <<issued, honoured, store, forfeited>>
        /\ \A g \in Handler : g # h => pc'[g] = pc[g] /\ copy'[g] = copy[g]
        /\ pc[h] = "enrichGet" /\ pc'[h] # "refreshSet"
    BY <1>11 DEF EnrichGet
  <2>3. pc'[h] \in WritingPC =>
            Found(SessionOf[h]) /\ copy'[h].rt = store[SessionOf[h]].rt
    <3>1. CASE Goto(h, "enrichSet")
      <4>1. PICK t \in Tenant : copy' = [copy EXCEPT ![h] = [store[SessionOf[h]] EXCEPT !.tenant = t]]
        BY <1>11, <3>1 DEF EnrichGet
      <4>2. Found(SessionOf[h])
        BY <1>11, <3>1 DEF EnrichGet
      <4>3. QED
        BY <2>1, <4>1, <4>2
    <3>2. CASE Answer(h)
      BY <3>2 DEF WritingPC
    <3>3. QED
      BY <1>11, <3>1, <3>2 DEF EnrichGet
  <2>4. QED
    BY <1>1, <2>2, <2>3
<1>12. ASSUME NEW h \in Handler, EnrichSet(h), UNCHANGED <<store, forfeited>>
       PROVE  TokenInHand'
  BY <1>1, <1>12 DEF EnrichSet, WritingPC
<1>13. ASSUME NEW h \in Handler, PutBack(h), pc[h] \in {"refreshSetAgain", "enrichSet"},
              UNCHANGED <<issued, honoured>>,
              UNCHANGED <<pc, copy>> \/ Answer(h)
       PROVE  TokenInHand'
  <2> DEFINE z == SessionOf[h]
  <2>1. /\ pc[h] # "refreshSet" /\ pc'[h] # "refreshSet" /\ pc[h] \in WritingPC
        /\ \A g \in Handler : g # h => pc'[g] = pc[g] /\ copy'[g] = copy[g]
        /\ pc'[h] \in WritingPC => copy'[h] = copy[h]
        /\ store' = [store EXCEPT ![z] = copy[h]]
        /\ UNCHANGED <<issued, honoured>>
        /\ z \in Session
    BY <1>13 DEF PutBack, SetSession, WritingPC
  <2>2. copy[h] \in Record /\ copy[h].rt <= honoured[z] /\ h \in HandlersOf(z)
    BY <2>1 DEF TokenInHand, WritingPC, HandlersOf
  <2>3. \A g \in Handler : pc'[g] = "refreshSet" => pc[g] = "refreshSet" /\ g # h
    BY <2>1
  <2>4. \A g \in HandlersOf(z) : pc[g] = "refreshSet" => copy[h].rt < honoured[z]
    BY <2>1, <2>2 DEF TokenInHand, HandlersOf, WritingPC
  <2>5. ASSUME NEW s \in Session PROVE forfeited[s] => forfeited'[s]
    BY <1>13 DEF PutBack, Forfeit
  <2>6. StaysRefreshable'
    <3> SUFFICES ASSUME NEW s \in Session, ~forfeited'[s], store'[s] # NoSession,
                        \A g \in HandlersOf(s) : pc'[g] # "refreshSet"
                 PROVE  store'[s].rt = honoured[s]
      BY <2>1 DEF StaysRefreshable, HandlersOf
    <3>1. \A g \in HandlersOf(s) : pc[g] # "refreshSet"
      BY <2>1 DEF HandlersOf
    <3>2. CASE s = z
      <4>1. ~Outdated(z, copy[h])
        BY <1>13, <2>1, <3>2 DEF PutBack, Forfeit
      <4>2. QED
        BY <2>1, <3>1, <3>2, <4>1 DEF Outdated
    <3>3. CASE s # z
      BY <2>1, <2>5, <3>1, <3>3 DEF TokenInHand, StaysRefreshable, Retired
    <3>4. QED
      BY <3>2, <3>3
  <2>7. QED
    BY <2>1, <2>2, <2>3, <2>4, <2>6 DEF TokenInHand, HandlersOf, WritingPC
<1>14. ASSUME NEW h \in Handler, Crash(h) PROVE TokenInHand'
  BY <1>1, <1>14 DEF Crash, Forfeit, WritingPC
<1>15. ASSUME UNCHANGED <<issued, honoured, pc, copy, forfeited>>,
              \A s \in Session : store'[s] \in {store[s], NoSession}
       PROVE  TokenInHand'
  BY <1>15 DEF TokenInHand, StaysRefreshable, HandlersOf
<1>16. ASSUME NEW s \in Session, TokenAges(s) \/ SessionExpires(s) \/ LockExpires(s)
       PROVE  TokenInHand'
  BY <1>15, <1>16 DEF TokenAges, SessionExpires, LockExpires, LoseLock, SetSession
<1>17. CASE UNCHANGED vars
  BY <1>15, <1>17 DEF vars
<1>18. ASSUME NEW h \in Handler, RefreshSetAgain(h), Forget(h), Goto(h, "release"),
              UNCHANGED <<store, forfeited>>
       PROVE  TokenInHand'
  BY <1>1, <1>18 DEF RefreshSetAgain, WritingPC
<1>19. ASSUME NEW h \in Handler, RefreshSet(h) \/ RefreshSetAgain(h) \/ EnrichSet(h)
       PROVE  TokenInHand'
  <2>1. CASE RefreshSet(h)
    BY <1>9, <1>10, <2>1 DEF RefreshSet, SetSession
  <2>2. CASE RefreshSetAgain(h)
    BY <1>13, <1>18, <2>2 DEF RefreshSetAgain
  <2>3. CASE EnrichSet(h)
    BY <1>12, <1>13, <2>3 DEF EnrichSet
  <2>4. QED
    BY <1>19, <2>1, <2>2, <2>3
<1>20. QED
  BY <1>2, <1>3, <1>4, <1>5, <1>6, <1>7, <1>8, <1>11, <1>14, <1>16, <1>17, <1>19
     DEF Next, Serve

\* A session keeps the refresh token the provider honours, however the leases
\* run out and whatever fails, unless a lost answer, a failed SET, a crash or
\* an enrichment forfeits it.
THEOREM SessionsStayRefreshable == Spec => []StaysRefreshable
<1>1. CASE Retired
  <2>1. TypeOK /\ TokenInHand /\ [Next]_vars => TokenInHand'
    BY <1>1, NextTokenInHand
  <2>2. TokenInHand => StaysRefreshable
    BY DEF TokenInHand
  <2>3. QED
    BY <2>1, <2>2, InitTokenInHand, TypeCorrect, PTL DEF Spec
<1>2. CASE ~Retired
  <2>1. StaysRefreshable
    BY <1>2 DEF Retired, StaysRefreshable
  <2>2. QED
    BY <2>1, PTL
<1>3. QED
  BY <1>1, <1>2

=============================================================================
