-------------------------- MODULE AgentLoginProofs --------------------------
(* Proofs about signing in, for any logins, handlers and session ids.      *)
EXTENDS AgentLogin, TLAPS

\* A session id a handler or the browser has from the agent is a stored one,
\* and every session is of a login that was completed at the provider.
HasOwner(s) == s # NoSession => owner[s] # NoLogin

Authentic ==
    /\ \A l \in pkce : phase[l] # "none"
    /\ \A h \in Handler : pc[h] \in CallbackPC => phase[login[h]] = "authenticated"
    /\ \A h \in Handler : pc[h] = "welcome" => HasOwner(made[h])
    /\ \A s \in Session : owner[s] # NoLogin => phase[owner[s]] = "authenticated"
    /\ HasOwner(jar)

\* With a provider that exchanges a code once: the code of a login is spent
\* for one callback, or for one session, and never for both.
Holding(h, l) == login[h] = l /\ pc[h] \in {"validate", "sessionSet"}

SpentOnce ==
    SingleUse =>
        /\ \A l \in Login, h \in Handler : Holding(h, l) =>
              /\ l \in spent
              /\ \A g \in Handler : Holding(g, l) => g = h
              /\ \A s \in Session : owner[s] # l
        /\ \A s \in Session : owner[s] # NoLogin => owner[s] \in spent
        /\ OneSessionPerLogin

LoginInv == TypeOK /\ Authentic /\ SpentOnce

\* The agent starts without logins and sessions.
LEMMA InitLogin == Init => LoginInv
BY NothingIsNoId DEF Init, LoginInv, TypeOK, Authentic, HasOwner, SpentOnce, Holding,
    OneSessionPerLogin, PC, CallbackPC, LogoutPC

\* Every step keeps the types.
LEMMA TypesKept == TypeOK /\ [Next]_vars => TypeOK'
<1> SUFFICES ASSUME TypeOK, [Next]_vars PROVE TypeOK'
  OBVIOUS
<1> USE NothingIsNoId DEF TypeOK, redis, provider, handlers, PC, CallbackPC, LogoutPC
<1>1. ASSUME NEW l \in Login, LoginStart(l) PROVE TypeOK'
  BY <1>1 DEF LoginStart, HaveDocument, NoDocument
<1>2. ASSUME NEW l \in Login, Authenticate(l) \/ PkceExpires(l) PROVE TypeOK'
  BY <1>2 DEF Authenticate, PkceExpires
<1>3. ASSUME NEW h \in Handler, Callback(h) PROVE TypeOK'
  BY <1>3 DEF Callback, Goto
<1>4. ASSUME NEW h \in Handler, PkceGet(h) PROVE TypeOK'
  BY <1>4 DEF PkceGet, Goto, GiveUp
<1>5. ASSUME NEW h \in Handler, PkceDelete(h) PROVE TypeOK'
  BY <1>5 DEF PkceDelete, Goto
<1>6. ASSUME NEW h \in Handler, ExchangeCode(h) PROVE TypeOK'
  BY <1>6 DEF ExchangeCode, Goto, GiveUp, HaveDocument, NoDocument
<1>7. ASSUME NEW h \in Handler, ValidateIDToken(h) PROVE TypeOK'
  BY <1>7 DEF ValidateIDToken, Goto, GiveUp
<1>8. ASSUME NEW h \in Handler, SessionSet(h) PROVE TypeOK'
  BY <1>8 DEF SessionSet, StoreSession, Abandon, Goto
<1>9. ASSUME NEW h \in Handler, Welcome(h) \/ Clear(h) PROVE TypeOK'
  BY <1>9 DEF Welcome, Clear, Cleared, Abandon, Goto
<1>10. ASSUME NEW h \in Handler, Logout(h) PROVE TypeOK'
  BY <1>10 DEF Logout, Goto
<1>11. ASSUME NEW h \in Handler, LogoutGet(h) \/ LogoutDelete(h) \/ EndSessionURL(h)
       PROVE TypeOK'
  BY <1>11 DEF LogoutGet, LogoutDelete, EndSessionURL, Goto, HaveDocument, NoDocument
<1>12. ASSUME NEW s \in Session, SessionExpires(s) PROVE TypeOK'
  BY <1>12 DEF SessionExpires
<1>13. CASE CookieExpires \/ ProviderFlips
  BY <1>13 DEF CookieExpires, ProviderFlips
<1>14. CASE Restart
  BY <1>14 DEF Restart
<1>15. CASE UNCHANGED vars
  BY <1>15 DEF vars
<1>16. QED
  BY <1>1, <1>2, <1>3, <1>4, <1>5, <1>6, <1>7, <1>8, <1>9, <1>10, <1>11, <1>12,
     <1>13, <1>14, <1>15 DEF Next, Serve

\* A callback is of a login that was completed at the provider, and a session
\* id is handed out when the session is stored, not before.
LEMMA AuthenticKept == LoginInv /\ [Next]_vars => Authentic'
<1> SUFFICES ASSUME LoginInv, [Next]_vars PROVE Authentic'
  OBVIOUS
<1> USE NothingIsNoId DEF LoginInv, TypeOK, Authentic, HasOwner, redis, provider,
      handlers, CallbackPC, LogoutPC
<1>1. ASSUME NEW l \in Login, LoginStart(l) PROVE Authentic'
  BY <1>1 DEF LoginStart, HaveDocument, NoDocument
<1>2. ASSUME NEW l \in Login, Authenticate(l) \/ PkceExpires(l) PROVE Authentic'
  BY <1>2 DEF Authenticate, PkceExpires
<1>3. ASSUME NEW h \in Handler, Callback(h) PROVE Authentic'
  BY <1>3 DEF Callback, Goto
<1>4. ASSUME NEW h \in Handler, PkceGet(h) PROVE Authentic'
  BY <1>4 DEF PkceGet, Goto, GiveUp
<1>5. ASSUME NEW h \in Handler, PkceDelete(h) PROVE Authentic'
  BY <1>5 DEF PkceDelete, Goto
<1>6. ASSUME NEW h \in Handler, ExchangeCode(h) PROVE Authentic'
  BY <1>6 DEF ExchangeCode, Goto, GiveUp
<1>7. ASSUME NEW h \in Handler, ValidateIDToken(h) PROVE Authentic'
  BY <1>7 DEF ValidateIDToken, Goto, GiveUp
<1>8. ASSUME NEW h \in Handler, SessionSet(h) PROVE Authentic'
  BY <1>8 DEF SessionSet, StoreSession, Fresh, Abandon, Goto
<1>9. ASSUME NEW h \in Handler, Welcome(h) \/ Clear(h) PROVE Authentic'
  BY <1>9 DEF Welcome, Clear, Cleared, Abandon, Goto
<1>10. ASSUME NEW h \in Handler, Logout(h) PROVE Authentic'
  BY <1>10 DEF Logout, Goto
<1>11. ASSUME NEW h \in Handler, LogoutGet(h) \/ LogoutDelete(h) \/ EndSessionURL(h) PROVE Authentic'
  BY <1>11 DEF LogoutGet, LogoutDelete, EndSessionURL, Goto
<1>12. ASSUME NEW s \in Session, SessionExpires(s) PROVE Authentic'
  BY <1>12 DEF SessionExpires
<1>13. CASE CookieExpires \/ ProviderFlips
  BY <1>13 DEF CookieExpires, ProviderFlips
<1>14. CASE Restart
  BY <1>14 DEF Restart
<1>15. CASE UNCHANGED vars
  BY <1>15 DEF vars
<1>16. QED
  BY <1>1, <1>2, <1>3, <1>4, <1>5, <1>6, <1>7, <1>8, <1>9, <1>10, <1>11, <1>12, <1>13, <1>14, <1>15 DEF Next, Serve

\* The code of a login that waits at the exchange, or the session made of it,
\* stays the only one.
LEMMA SpentKept == LoginInv /\ [Next]_vars => SpentOnce'
<1> SUFFICES ASSUME LoginInv, [Next]_vars PROVE SpentOnce'
  OBVIOUS
<1> USE NothingIsNoId DEF LoginInv, TypeOK, SpentOnce, Holding, OneSessionPerLogin,
      redis, provider, handlers, CallbackPC
<1>1. ASSUME NEW l \in Login, LoginStart(l) PROVE SpentOnce'
  BY <1>1 DEF LoginStart, HaveDocument, NoDocument
<1>2. ASSUME NEW l \in Login, Authenticate(l) \/ PkceExpires(l) PROVE SpentOnce'
  BY <1>2 DEF Authenticate, PkceExpires
<1>3. ASSUME NEW h \in Handler, Callback(h) PROVE SpentOnce'
  BY <1>3 DEF Callback, Goto
<1>4. ASSUME NEW h \in Handler, PkceGet(h) PROVE SpentOnce'
  BY <1>4 DEF PkceGet, Goto, GiveUp
<1>5. ASSUME NEW h \in Handler, PkceDelete(h) PROVE SpentOnce'
  BY <1>5 DEF PkceDelete, Goto
<1>6. ASSUME NEW h \in Handler, ExchangeCode(h) PROVE SpentOnce'
  BY <1>6 DEF ExchangeCode, Goto, GiveUp
<1>7. ASSUME NEW h \in Handler, ValidateIDToken(h) PROVE SpentOnce'
  BY <1>7 DEF ValidateIDToken, Goto, GiveUp
<1>8. ASSUME NEW h \in Handler, SessionSet(h) PROVE SpentOnce'
  BY <1>8 DEF SessionSet, StoreSession, Fresh, Abandon, Goto
<1>9. ASSUME NEW h \in Handler, Welcome(h) \/ Clear(h) PROVE SpentOnce'
  BY <1>9 DEF Welcome, Clear, Cleared, Abandon, Goto
<1>10. ASSUME NEW h \in Handler, Logout(h) PROVE SpentOnce'
  BY <1>10 DEF Logout, Goto
<1>11. ASSUME NEW h \in Handler, LogoutGet(h) \/ LogoutDelete(h) \/ EndSessionURL(h) PROVE SpentOnce'
  BY <1>11 DEF LogoutGet, LogoutDelete, EndSessionURL, Goto
<1>12. ASSUME NEW s \in Session, SessionExpires(s) PROVE SpentOnce'
  BY <1>12 DEF SessionExpires
<1>13. CASE CookieExpires \/ ProviderFlips
  BY <1>13 DEF CookieExpires, ProviderFlips
<1>14. CASE Restart
  BY <1>14 DEF Restart
<1>15. CASE UNCHANGED vars
  BY <1>15 DEF vars
<1>16. QED
  BY <1>1, <1>2, <1>3, <1>4, <1>5, <1>6, <1>7, <1>8, <1>9, <1>10, <1>11, <1>12, <1>13, <1>14, <1>15 DEF Next, Serve

\* The invariant holds in every state.
THEOREM LoginCorrect == Spec => []LoginInv
<1>1. LoginInv /\ [Next]_vars => LoginInv'
  BY TypesKept, AuthenticKept, SpentKept DEF LoginInv
<1>2. QED
  BY <1>1, InitLogin, PTL DEF Spec

\* The variables of AgentLogin have their types.
THEOREM LoginTypes == Spec => []TypeOK
<1>1. LoginInv => TypeOK
  BY DEF LoginInv
<1>2. QED
  BY <1>1, LoginCorrect, PTL

\* The browser's cookie names a session that was stored for a completed login.
THEOREM LoginCookie == Spec => []CookieNamesLogin
<1>1. LoginInv => CookieNamesLogin
  BY DEF LoginInv, TypeOK, Authentic, HasOwner, CookieNamesLogin
<1>2. QED
  BY <1>1, LoginCorrect, PTL

\* A login gives one session at most when the provider exchanges codes once.
THEOREM LoginOneSession == Spec => []OneSessionPerLogin
<1>1. LoginInv => OneSessionPerLogin
  BY DEF LoginInv, SpentOnce, OneSessionPerLogin
<1>2. QED
  BY <1>1, LoginCorrect, PTL

\* A login that is over gives no session any more.
THEOREM LoginStaysOver == Spec => LoginIsOver
<1> DEFINE Stays == \A l \in Login : Over(l) =>
                      /\ Over(l)'
                      /\ \A s \in Session : owner'[s] = l => owner[s] = l
<1>1. LoginInv /\ [Next]_vars => Stays
  <2> SUFFICES ASSUME LoginInv, [Next]_vars PROVE Stays
    OBVIOUS
  <2> USE NothingIsNoId DEF LoginInv, TypeOK, Over, Using, redis, provider, handlers,
        CallbackPC, LogoutPC
  <2>1. ASSUME NEW l \in Login, LoginStart(l) PROVE Stays
    BY <2>1 DEF LoginStart, HaveDocument, NoDocument
  <2>2. ASSUME NEW l \in Login, Authenticate(l) \/ PkceExpires(l) PROVE Stays
    BY <2>2 DEF Authenticate, PkceExpires
  <2>3. ASSUME NEW h \in Handler, Callback(h) PROVE Stays
    BY <2>3 DEF Callback, Goto
  <2>4. ASSUME NEW h \in Handler, PkceGet(h) PROVE Stays
    BY <2>4 DEF PkceGet, Goto, GiveUp
  <2>5. ASSUME NEW h \in Handler, PkceDelete(h) PROVE Stays
    BY <2>5 DEF PkceDelete, Goto
  <2>6. ASSUME NEW h \in Handler, ExchangeCode(h) PROVE Stays
    BY <2>6 DEF ExchangeCode, Goto, GiveUp
  <2>7. ASSUME NEW h \in Handler, ValidateIDToken(h) PROVE Stays
    BY <2>7 DEF ValidateIDToken, Goto, GiveUp
  <2>8. ASSUME NEW h \in Handler, SessionSet(h) PROVE Stays
    BY <2>8 DEF SessionSet, StoreSession, Fresh, Abandon, Goto
  <2>9. ASSUME NEW h \in Handler, Welcome(h) \/ Clear(h) PROVE Stays
    BY <2>9 DEF Welcome, Clear, Cleared, Abandon, Goto
  <2>10. ASSUME NEW h \in Handler, Logout(h) PROVE Stays
    BY <2>10 DEF Logout, Goto
  <2>11. ASSUME NEW h \in Handler, LogoutGet(h) \/ LogoutDelete(h) \/ EndSessionURL(h) PROVE Stays
    BY <2>11 DEF LogoutGet, LogoutDelete, EndSessionURL, Goto
  <2>12. ASSUME NEW s \in Session, SessionExpires(s) PROVE Stays
    BY <2>12 DEF SessionExpires
  <2>13. CASE CookieExpires \/ ProviderFlips
    BY <2>13 DEF CookieExpires, ProviderFlips
  <2>14. CASE Restart
    BY <2>14 DEF Restart
  <2>15. CASE UNCHANGED vars
    BY <2>15 DEF vars
  <2>16. QED
    BY <2>1, <2>2, <2>3, <2>4, <2>5, <2>6, <2>7, <2>8, <2>9, <2>10, <2>11, <2>12, <2>13, <2>14, <2>15 DEF Next, Serve
<1>2. QED
  BY <1>1, LoginCorrect, PTL DEF Spec, LoginIsOver

-----------------------------------------------------------------------------
(* A login is a ticket.                                                    *)

Completed == {l \in Login : phase[l] = "authenticated"}
ticketVars == <<Tickets, Completed, spent, Steps, Claims, Badges, owner, store, jar>>

LEMMA InitTicket == Init => Ticket!Init
BY DEF Init, Ticket!Init, Tickets, Steps, Claims, Badges, Held, CallbackPC

\* Only the PKCE state and the browser's progress matter to a ticket.
LEMMA TicketsStay ==
    ASSUME UNCHANGED <<pkce, phase>> PROVE UNCHANGED <<Tickets, Completed>>
BY DEF Tickets, Completed

LEMMA TicketTurns ==
    ASSUME NEW l \in Login, \A k \in Login \ {l} : (k \in pkce' <=> k \in pkce) /\ phase'[k] = phase[k]
    PROVE  Tickets' = [Tickets EXCEPT ![l] = Tickets'[l]]
<1>1. Tickets = [k \in Login |-> Tickets[k]] /\ Tickets' = [k \in Login |-> Tickets'[k]]
  BY DEF Tickets
<1>2. ASSUME NEW k \in Login \ {l} PROVE Tickets'[k] = Tickets[k]
  BY DEF Tickets
<1>3. QED
  BY <1>1, <1>2

\* Only the calls of callbacks matter to a clerk.
LEMMA ClerksStay == ASSUME UNCHANGED handlers PROVE UNCHANGED <<Steps, Claims, Badges>>
BY DEF handlers, Steps, Claims, Badges, Held

LEMMA CloseTurns ==
    ASSUME LoginInv, NEW l \in pkce, pkce' = pkce \ {l}, UNCHANGED <<phase, spent, owner, store, jar>>,
           UNCHANGED <<Steps, Claims, Badges>>
    PROVE  Ticket!Turn(l, {"open"}, {"closed"})
<1>1. l \in Login /\ phase[l] # "none"
  BY DEF LoginInv, TypeOK, Authentic
<1>2. Completed' = Completed /\ Tickets' = [Tickets EXCEPT ![l] = Tickets'[l]]
  BY <1>1, TicketTurns DEF Completed
<1>3. Tickets[l] = "open" /\ Tickets'[l] = "closed"
  BY <1>1 DEF Tickets
<1>4. QED
  BY <1>2, <1>3 DEF Ticket!Turn, Ticket!agent, Ticket!sessions, Completed

\* What a handler is as a clerk, by its next call.
AsClerk(h) ==
    /\ Steps[h] \in {"free", "claimed", "redeemed", "serving"}
    /\ pc[h] \in {"pkceDelete", "exchange"} <=> Steps[h] = "claimed"
    /\ pc[h] \in {"validate", "sessionSet"} <=> Steps[h] = "redeemed"
    /\ pc[h] = "welcome" <=> Steps[h] = "serving"
    /\ Steps[h] # "free" => Claims[h] = login[h]
    /\ Steps[h] = "free" => Claims[h] = NoLogin
    /\ Steps[h] = "serving" => Badges[h] = made[h]
    /\ Steps[h] # "serving" => Badges[h] = NoSession

LEMMA Clerks == \A h \in Handler : AsClerk(h) /\ AsClerk(h)'
<1>1. ASSUME NEW h \in Handler PROVE AsClerk(h)
  BY DEF AsClerk, Steps, Claims, Badges, Held, CallbackPC
<1>2. ASSUME NEW h \in Handler PROVE AsClerk(h)'
  BY DEF AsClerk, Steps, Claims, Badges, Held, CallbackPC
<1>3. QED
  BY <1>1, <1>2

OnlyOf(h) == \A g \in Handler \ {h} : UNCHANGED <<pc[g], login[g], made[g]>>

\* A step of one handler, as a step of its clerk.
LEMMA ClerkMoves ==
    ASSUME NEW h \in Handler, OnlyOf(h)
    PROVE  /\ Steps' = [Steps EXCEPT ![h] = Steps'[h]]
           /\ Claims' = [Claims EXCEPT ![h] = Claims'[h]]
           /\ Badges' = [Badges EXCEPT ![h] = Badges'[h]]
           /\ Steps'[h] = Steps[h] => Steps' = Steps
           /\ Claims'[h] = Claims[h] => Claims' = Claims
           /\ Badges'[h] = Badges[h] => Badges' = Badges
<1>1. /\ Steps = [g \in Handler |-> Steps[g]] /\ Steps' = [g \in Handler |-> Steps'[g]]
      /\ Claims = [g \in Handler |-> Claims[g]] /\ Claims' = [g \in Handler |-> Claims'[g]]
      /\ Badges = [g \in Handler |-> Badges[g]] /\ Badges' = [g \in Handler |-> Badges'[g]]
  BY DEF Steps, Claims, Badges
<1>2. ASSUME NEW g \in Handler \ {h}
      PROVE  Steps'[g] = Steps[g] /\ Claims'[g] = Claims[g] /\ Badges'[g] = Badges[g]
  BY DEF OnlyOf, Steps, Claims, Badges, Held
<1>3. QED
  BY <1>1, <1>2

\* Where the clerk is as it was, nothing of the clerks has changed.
LEMMA ClerkRests ==
    ASSUME NEW h \in Handler, OnlyOf(h), Steps'[h] = Steps[h],
           Steps[h] # "free" => login'[h] = login[h],
           Steps[h] = "serving" => made'[h] = made[h]
    PROVE  UNCHANGED <<Steps, Claims, Badges>>
<1>1. Claims'[h] = Claims[h] /\ Badges'[h] = Badges[h]
  BY Clerks DEF AsClerk
<1>2. QED
  BY <1>1, ClerkMoves

\* A handler that ends its callback is a clerk that is done.
LEMMA ClerkDone ==
    ASSUME NEW h \in Handler, OnlyOf(h), Steps'[h] = "free"
    PROVE  Ticket!Done({h})
<1>1. Claims'[h] = NoLogin /\ Badges'[h] = NoSession
  BY Clerks DEF AsClerk
<1>2. /\ Steps' = [g \in Handler |-> IF g \in {h} THEN "free" ELSE Steps[g]]
      /\ Claims' = [g \in Handler |-> IF g \in {h} THEN NoLogin ELSE Claims[g]]
      /\ Badges' = [g \in Handler |-> IF g \in {h} THEN NoSession ELSE Badges[g]]
  <2>1. /\ Steps = [g \in Handler |-> Steps[g]]
        /\ Claims = [g \in Handler |-> Claims[g]]
        /\ Badges = [g \in Handler |-> Badges[g]]
    BY DEF Steps, Claims, Badges
  <2>2. QED
    BY <1>1, <2>1, ClerkMoves
<1>3. QED
  BY <1>2 DEF Ticket!Done

LEMMA LoginTicket ==
    ASSUME LoginInv, NEW l \in Login, LoginStart(l) \/ Authenticate(l) \/ PkceExpires(l)
    PROVE  Ticket!Open(l) \/ Ticket!Close(l) \/ Ticket!Complete(l)
<1> USE DEF LoginInv, TypeOK, Authentic, redis, provider
<1>1. CASE LoginStart(l)
  <2>1. /\ UNCHANGED <<store, jar, spent, owner, handlers>>
        /\ phase[l] = "none" /\ phase' \in {[phase EXCEPT ![l] = p] : p \in {"asked", "begun"}}
        /\ pkce' \in {pkce, pkce \cup {l}}
    BY <1>1 DEF LoginStart
  <2>2. Completed' = Completed
    BY <2>1 DEF Completed
  <2>3. Tickets' = [Tickets EXCEPT ![l] = Tickets'[l]]
    BY <2>1, TicketTurns
  <2>4. Tickets[l] = "none" /\ Tickets'[l] \in {"open", "closed"}
    BY <2>1 DEF Tickets
  <2>5. QED
    BY <2>1, <2>2, <2>3, <2>4, ClerksStay
       DEF Ticket!Open, Ticket!Turn, Ticket!agent, Ticket!sessions, Completed
<1>2. CASE Authenticate(l)
  <2>1. /\ UNCHANGED <<pkce, store, jar, spent, owner, handlers>>
        /\ phase[l] = "asked" /\ phase' = [phase EXCEPT ![l] = "authenticated"]
    BY <1>2 DEF Authenticate
  <2>2. Completed' = Completed \cup {l}
    BY <2>1 DEF Completed
  <2>3. Tickets[l] # "none" /\ Tickets' = Tickets
    BY <2>1 DEF Tickets
  <2>4. QED
    BY <2>1, <2>2, <2>3, ClerksStay
       DEF Ticket!Complete, Ticket!agent, Ticket!sessions, Completed
<1>3. CASE PkceExpires(l)
  <2>1. /\ UNCHANGED <<phase, store, jar, spent, owner, handlers>>
        /\ l \in pkce /\ pkce' = pkce \ {l}
    BY <1>3 DEF PkceExpires
  <2>2. Ticket!Turn(l, {"open"}, {"closed"})
    BY <2>1, CloseTurns, ClerksStay
  <2>3. QED
    BY <2>2 DEF Ticket!Close
<1>4. QED
  BY <1>1, <1>2, <1>3

LEMMA CallbackTicket ==
    ASSUME LoginInv, NEW h \in Handler, Callback(h)
    PROVE  UNCHANGED ticketVars
<1>1. /\ UNCHANGED <<pkce, phase, spent, owner, store, jar>>
      /\ OnlyOf(h) /\ Steps[h] = "free" /\ Steps'[h] = "free"
  BY DEF LoginInv, TypeOK, Callback, Goto, redis, provider, OnlyOf, Steps
<1>2. UNCHANGED <<Steps, Claims, Badges>>
  BY <1>1, ClerkRests
<1>3. QED
  BY <1>1, <1>2, TicketsStay DEF ticketVars

LEMMA PkceGetTicket ==
    ASSUME LoginInv, NEW h \in Handler, PkceGet(h)
    PROVE  Ticket!Claim(h) \/ UNCHANGED ticketVars
<1>1. /\ UNCHANGED <<pkce, phase, spent, owner, store, jar>>
      /\ OnlyOf(h) /\ pc[h] = "pkceGet"
      /\ \/ login[h] \in pkce /\ pc'[h] = "pkceDelete" /\ login'[h] = login[h]
         \/ pc'[h] = "clear"
  BY DEF LoginInv, TypeOK, PkceGet, Goto, GiveUp, redis, provider, OnlyOf
<1>2. Steps[h] = "free"
  BY <1>1 DEF Steps
<1>3. CASE pc'[h] = "clear"
  <2>1. Steps'[h] = "free"
    BY <1>3 DEF Steps
  <2>2. UNCHANGED <<Steps, Claims, Badges>>
    BY <1>1, <1>2, <2>1, ClerkRests
  <2>3. QED
    BY <1>1, <2>2, TicketsStay DEF ticketVars
<1>4. CASE login[h] \in pkce /\ pc'[h] = "pkceDelete" /\ login'[h] = login[h]
  <2>1. login[h] \in Completed /\ Tickets[login[h]] = "open"
    BY <1>1, <1>4 DEF LoginInv, TypeOK, Authentic, CallbackPC, Completed, Tickets
  <2>2. Steps'[h] = "claimed" /\ Claims'[h] = login[h] /\ Badges'[h] = NoSession
    BY <1>4, Clerks DEF AsClerk
  <2>3. Badges' = Badges
    BY <1>1, <1>2, <2>2, ClerkMoves, Clerks DEF AsClerk
  <2>4. QED
    BY <1>1, <1>2, <2>1, <2>2, <2>3, ClerkMoves, TicketsStay
       DEF Ticket!Claim, Ticket!Move, Ticket!sessions, Completed
<1>5. QED
  BY <1>1, <1>3, <1>4

LEMMA PkceDeleteTicket ==
    ASSUME LoginInv, NEW h \in Handler, PkceDelete(h)
    PROVE  Ticket!Close(login[h]) \/ UNCHANGED ticketVars
<1>1. /\ UNCHANGED <<phase, spent, owner, store, jar>>
      /\ OnlyOf(h) /\ pc[h] = "pkceDelete" /\ pc'[h] = "exchange" /\ login' = login
      /\ pkce' \in {pkce, pkce \ {login[h]}}
  BY DEF LoginInv, TypeOK, PkceDelete, Goto, redis, provider, OnlyOf
<1>2. login[h] \in Login
  BY <1>1 DEF LoginInv, TypeOK, CallbackPC
<1>3. Steps[h] = "claimed" /\ Steps'[h] = "claimed"
  BY <1>1 DEF Steps
<1>4. UNCHANGED <<Steps, Claims, Badges>>
  BY <1>1, <1>3, ClerkRests
<1>5. CASE login[h] \in pkce /\ pkce' = pkce \ {login[h]}
  <2>1. Ticket!Turn(login[h], {"open"}, {"closed"})
    BY <1>1, <1>2, <1>4, <1>5, CloseTurns DEF handlers
  <2>2. QED
    BY <2>1 DEF Ticket!Close
<1>6. CASE pkce' = pkce
  BY <1>1, <1>4, <1>6, TicketsStay DEF ticketVars
<1>7. QED
  BY <1>1, <1>5, <1>6

LEMMA ExchangeTicket ==
    ASSUME LoginInv, NEW h \in Handler, ExchangeCode(h)
    PROVE  Ticket!Redeem(h) \/ Ticket!Drop
<1>1. /\ UNCHANGED <<pkce, phase, owner, store, jar>>
      /\ OnlyOf(h) /\ pc[h] = "exchange"
      /\ \/ /\ SingleUse => login[h] \notin spent
            /\ spent' = spent \cup {login[h]}
            /\ (pc'[h] = "validate" /\ login'[h] = login[h]) \/ pc'[h] = "clear"
         \/ pc'[h] = "clear" /\ spent' = spent
  BY DEF LoginInv, TypeOK, ExchangeCode, Goto, GiveUp, redis, OnlyOf
<1>2. Steps[h] = "claimed" /\ Claims[h] = login[h] /\ Badges[h] = NoSession
  BY <1>1, Clerks DEF AsClerk
<1>3. ASSUME pc'[h] = "clear" PROVE Ticket!Done({h})
  <2>1. Steps'[h] = "free"
    BY <1>3 DEF Steps
  <2>2. QED
    BY <1>1, <2>1, ClerkDone
<1>4. CASE pc'[h] = "validate" /\ login'[h] = login[h]
  <2>1. Steps'[h] = "redeemed" /\ Claims'[h] = login[h] /\ Badges'[h] = NoSession
    BY <1>4, Clerks DEF AsClerk
  <2>2. Claims' = Claims /\ Badges' = Badges /\ Steps' = [Steps EXCEPT ![h] = "redeemed"]
    BY <1>1, <1>2, <2>1, ClerkMoves
  <2>3. QED
    BY <1>1, <1>2, <1>4, <2>2, TicketsStay
       DEF Ticket!Redeem, Ticket!Move, Ticket!sessions, Completed
<1>5. CASE pc'[h] = "clear" /\ spent' = spent
  BY <1>1, <1>3, <1>5, TicketsStay DEF Ticket!Drop, Ticket!sessions, Completed
<1>6. CASE /\ SingleUse => login[h] \notin spent
           /\ spent' = spent \cup {login[h]}
           /\ pc'[h] = "clear"
  BY <1>1, <1>2, <1>3, <1>6, TicketsStay DEF Ticket!Redeem, Ticket!sessions, Completed
<1>7. QED
  BY <1>1, <1>4, <1>5, <1>6

LEMMA ValidateTicket ==
    ASSUME LoginInv, NEW h \in Handler, ValidateIDToken(h)
    PROVE  Ticket!Drop \/ UNCHANGED ticketVars
<1>1. /\ UNCHANGED <<pkce, phase, spent, owner, store, jar>>
      /\ OnlyOf(h) /\ pc[h] = "validate"
      /\ (pc'[h] = "sessionSet" /\ login'[h] = login[h]) \/ pc'[h] = "clear"
  BY DEF LoginInv, TypeOK, ValidateIDToken, Goto, GiveUp, redis, provider, OnlyOf
<1>2. CASE pc'[h] = "clear"
  <2>1. Steps'[h] = "free"
    BY <1>2 DEF Steps
  <2>2. Ticket!Done({h})
    BY <1>1, <2>1, ClerkDone
  <2>3. QED
    BY <1>1, <2>2, TicketsStay DEF Ticket!Drop, Ticket!sessions, Completed
<1>3. CASE pc'[h] = "sessionSet" /\ login'[h] = login[h]
  <2>1. Steps[h] = "redeemed" /\ Steps'[h] = "redeemed"
    BY <1>1, <1>3 DEF Steps
  <2>2. UNCHANGED <<Steps, Claims, Badges>>
    BY <1>1, <1>3, <2>1, ClerkRests
  <2>3. QED
    BY <1>1, <2>2, TicketsStay DEF ticketVars
<1>4. QED
  BY <1>1, <1>2, <1>3

LEMMA SessionSetTicket ==
    ASSUME LoginInv, NEW h \in Handler, SessionSet(h)
    PROVE  Ticket!Make(h) \/ Ticket!Drop
<1>1. /\ UNCHANGED <<pkce, phase, spent, jar>>
      /\ OnlyOf(h) /\ pc[h] = "sessionSet"
  BY DEF LoginInv, TypeOK, SessionSet, Goto, Abandon, redis, provider, OnlyOf
<1>2. Steps[h] = "redeemed" /\ Claims[h] = login[h] /\ Badges[h] = NoSession
  BY <1>1, Clerks DEF AsClerk
<1>3. ASSUME pc'[h] = "idle" PROVE Ticket!Done({h})
  <2>1. Steps'[h] = "free"
    BY <1>3 DEF Steps
  <2>2. QED
    BY <1>1, <2>1, ClerkDone
<1>4. CASE UNCHANGED <<store, owner>> /\ Abandon(h)
  <2>1. pc'[h] = "idle"
    BY <1>4 DEF LoginInv, TypeOK, Abandon, Goto
  <2>2. QED
    BY <1>1, <1>3, <1>4, <2>1, TicketsStay DEF Ticket!Drop, Ticket!sessions, Completed
<1>5. CASE \E s \in Session : /\ Fresh(s)
                              /\ StoreSession(h, s)
                              /\ \/ /\ pc'[h] = "welcome" /\ login'[h] = login[h]
                                    /\ made'[h] = s
                                 \/ pc'[h] = "idle"
  <2>1. PICK s \in Session : /\ Fresh(s)
                             /\ StoreSession(h, s)
                             /\ \/ /\ pc'[h] = "welcome" /\ login'[h] = login[h]
                                   /\ made'[h] = s
                                \/ pc'[h] = "idle"
    BY <1>5
  <2>2. /\ owner[s] = NoLogin /\ owner' = [owner EXCEPT ![s] = Claims[h]]
        /\ store' = store \cup {s}
    BY <1>2, <2>1 DEF Fresh, StoreSession
  <2>3. CASE pc'[h] = "welcome" /\ login'[h] = login[h] /\ made'[h] = s
    <3>1. Steps'[h] = "serving" /\ Claims'[h] = login[h] /\ Badges'[h] = s
      BY <2>3, Clerks DEF AsClerk
    <3>2. /\ Steps' = [Steps EXCEPT ![h] = "serving"]
          /\ Badges' = [Badges EXCEPT ![h] = s]
          /\ Claims' = Claims
      BY <1>1, <1>2, <3>1, ClerkMoves
    <3>3. QED
      BY <1>1, <1>2, <2>2, <3>2, TicketsStay DEF Ticket!Make, Ticket!Move, Completed
  <2>4. CASE pc'[h] = "idle"
    BY <1>1, <1>2, <1>3, <2>2, <2>4, TicketsStay DEF Ticket!Make, Completed
  <2>5. QED
    BY <2>1, <2>3, <2>4
<1>6. QED
  BY <1>4, <1>5 DEF LoginInv, TypeOK, SessionSet, Goto, Abandon

LEMMA WelcomeTicket ==
    ASSUME LoginInv, NEW h \in Handler, Welcome(h)
    PROVE  Ticket!HandOut(h)
<1>1. /\ UNCHANGED <<pkce, phase, spent, owner, store>>
      /\ OnlyOf(h) /\ pc[h] = "welcome" /\ pc'[h] = "idle" /\ jar' = made[h]
  BY DEF LoginInv, TypeOK, Welcome, Abandon, Goto, redis, provider, OnlyOf
<1>2. Steps[h] = "serving" /\ Badges[h] = made[h]
  BY <1>1, Clerks DEF AsClerk
<1>3. Steps'[h] = "free"
  BY <1>1 DEF Steps
<1>4. Ticket!Done({h})
  BY <1>1, <1>3, ClerkDone
<1>5. QED
  BY <1>1, <1>2, <1>4, TicketsStay DEF Ticket!HandOut, Ticket!sessions, Completed

\* The other answers, and all of a logout but its DEL, are the browser's.
LEMMA AnswersTicket ==
    ASSUME LoginInv, NEW h \in Handler,
           Clear(h) \/ Logout(h) \/ LogoutGet(h) \/ EndSessionURL(h)
    PROVE  Ticket!Forget \/ UNCHANGED ticketVars
<1>1. /\ UNCHANGED <<pkce, phase, spent, owner, store>>
      /\ OnlyOf(h) /\ Steps[h] = "free" /\ Steps'[h] = "free"
      /\ jar' \in {jar, NoSession}
  BY DEF LoginInv, TypeOK, Clear, Cleared, Abandon, Logout, LogoutGet, EndSessionURL, Goto,
         redis, provider, OnlyOf, Steps
<1>2. Claims[h] = NoLogin /\ Claims'[h] = NoLogin /\ Badges[h] = NoSession /\ Badges'[h] = NoSession
  BY <1>1, Clerks DEF AsClerk
<1>3. UNCHANGED <<Steps, Claims, Badges>>
  BY <1>1, <1>2, ClerkMoves
<1>4. QED
  BY <1>1, <1>3, TicketsStay
     DEF Ticket!Forget, Ticket!agent, Ticket!sessions, ticketVars, Completed

LEMMA LogoutDeleteTicket ==
    ASSUME LoginInv, NEW h \in Handler, LogoutDelete(h)
    PROVE  (\E s \in Session : Ticket!End(s)) \/ UNCHANGED ticketVars
<1>1. /\ UNCHANGED <<pkce, phase, spent, owner, jar>>
      /\ OnlyOf(h) /\ Steps[h] = "free" /\ Steps'[h] = "free" /\ login' = login
      /\ store' \in {store, store \ {made[h]}}
  BY DEF LoginInv, TypeOK, LogoutDelete, Goto, redis, provider, OnlyOf, Steps
<1>2. UNCHANGED <<Steps, Claims, Badges>>
  BY <1>1, ClerkRests
<1>3. CASE made[h] \in Session /\ store' = store \ {made[h]}
  BY <1>1, <1>2, <1>3, TicketsStay DEF Ticket!End, Ticket!agent, Completed
<1>4. CASE store' = store
  BY <1>1, <1>2, <1>4, TicketsStay DEF ticketVars
<1>5. QED
  BY <1>1, <1>3, <1>4, NothingIsNoId DEF LoginInv, TypeOK

\* A restart is a day on which every clerk is done.
LEMMA RestartTicket == ASSUME Restart PROVE Ticket!Drop
<1>1. \A h \in Handler : Steps'[h] = "free" /\ Claims'[h] = NoLogin /\ Badges'[h] = NoSession
  BY DEF Restart, Steps, Claims, Badges, Held, CallbackPC
<1>2. Ticket!Done(Handler)
  BY <1>1 DEF Ticket!Done, Steps, Claims, Badges
<1>3. QED
  BY <1>2, TicketsStay DEF Restart, redis, provider, Ticket!Drop, Ticket!sessions, Completed

LEMMA RestTicket ==
    ASSUME CookieExpires \/ ProviderFlips \/ UNCHANGED vars
           \/ \E s \in Session : SessionExpires(s)
    PROVE  Ticket!Forget \/ (\E s \in Session : Ticket!End(s)) \/ UNCHANGED ticketVars
<1>1. UNCHANGED <<pkce, phase, spent, owner, handlers>>
  BY DEF CookieExpires, ProviderFlips, vars, SessionExpires, redis, provider, handlers
<1>2. UNCHANGED <<Tickets, Completed, spent, Steps, Claims, Badges, owner>>
  BY <1>1, TicketsStay, ClerksStay
<1>3. \/ UNCHANGED <<store, jar>>
      \/ jar' = NoSession /\ UNCHANGED store
      \/ \E s \in Session : store' = store \ {s} /\ UNCHANGED jar
  BY DEF CookieExpires, ProviderFlips, vars, SessionExpires, redis
<1>4. QED
  BY <1>2, <1>3
     DEF Ticket!Forget, Ticket!End, Ticket!agent, Ticket!sessions, ticketVars, Completed

LEMMA NextTicket == LoginInv /\ [Next]_vars => [Ticket!Next]_(Ticket!vars)
<1> SUFFICES ASSUME LoginInv, [Next]_vars PROVE Ticket!Next \/ UNCHANGED ticketVars
  BY DEF ticketVars, Ticket!vars, Ticket!agent, Ticket!sessions, Completed
<1>1. CASE \E l \in Login : LoginStart(l) \/ Authenticate(l) \/ PkceExpires(l)
  BY <1>1, LoginTicket DEF Ticket!Next
<1>2. ASSUME NEW h \in Handler, PkceDelete(h) PROVE Ticket!Next \/ UNCHANGED ticketVars
  <2>1. login[h] \in Login
    BY <1>2 DEF LoginInv, TypeOK, PkceDelete, CallbackPC
  <2>2. QED
    BY <1>2, <2>1, PkceDeleteTicket DEF Ticket!Next
<1>3. ASSUME NEW h \in Handler, Callback(h) \/ PkceGet(h) \/ ExchangeCode(h)
                                \/ ValidateIDToken(h) \/ SessionSet(h) \/ Welcome(h)
      PROVE  Ticket!Next \/ UNCHANGED ticketVars
  BY <1>3, CallbackTicket, PkceGetTicket, ExchangeTicket, ValidateTicket, SessionSetTicket,
     WelcomeTicket DEF Ticket!Next
<1>4. ASSUME NEW h \in Handler, Clear(h) \/ Logout(h) \/ LogoutGet(h) \/ LogoutDelete(h)
                                \/ EndSessionURL(h)
      PROVE  Ticket!Next \/ UNCHANGED ticketVars
  BY <1>4, AnswersTicket, LogoutDeleteTicket DEF Ticket!Next
<1>5. CASE Restart
  BY <1>5, RestartTicket DEF Ticket!Next
<1>6. CASE CookieExpires \/ ProviderFlips \/ UNCHANGED vars
           \/ \E s \in Session : SessionExpires(s)
  BY <1>6, RestTicket DEF Ticket!Next
<1>7. QED
  BY <1>1, <1>2, <1>3, <1>4, <1>5, <1>6 DEF Next, Serve

\* Signing in implements the one-time login: for any logins, callbacks and
\* sessions, and whatever Redis, the provider and the network do.
THEOREM LoginImplementsTicket == Spec => ImplementsOneTimeLogin
BY InitTicket, NextTicket, LoginCorrect, PTL DEF Spec, ImplementsOneTimeLogin, Ticket!Spec
=============================================================================
