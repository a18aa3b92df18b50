---------------------------- MODULE OneTimeLogin ----------------------------
(***************************************************************************)
(* What signing in promises: a login is a ticket.  The agent opens it once *)
(* and closes it at any time; a clerk claims it while it is open and the   *)
(* user has completed it, redeems it, and makes one new session of it,     *)
(* which the browser may be handed.  A redeemed ticket is not redeemed     *)
(* again where the provider sees to it, a closed one is not claimed, and a *)
(* session that has ended does not come back.  There is no Redis here and  *)
(* no provider: a clerk may drop what it holds whenever it likes.          *)
(***************************************************************************)
CONSTANTS Login, Handler, Session, NoLogin, NoSession, SingleUse

VARIABLES
    ticket,     \* of a login: "none", "open" or "closed"
    completed,  \* the logins the user completed at the provider
    redeemed,   \* the logins that were redeemed
    step,       \* of a clerk: "free", "claimed", "redeemed" or "serving"
    claim,      \* the login a clerk is at
    badge,      \* the session a clerk has made and hands out
    owner,      \* the login a session was made of
    live,       \* the sessions there are
    jar         \* the session the browser has

agent == <<step, claim, badge>>
sessions == <<owner, live>>
vars == <<ticket, completed, redeemed, agent, sessions, jar>>

Init ==
    /\ ticket = [l \in Login |-> "none"]
    /\ completed = {}
    /\ redeemed = {}
    /\ step = [h \in Handler |-> "free"]
    /\ claim = [h \in Handler |-> NoLogin]
    /\ badge = [h \in Handler |-> NoSession]
    /\ owner = [s \in Session |-> NoLogin]
    /\ live = {}
    /\ jar = NoSession

Turn(l, from, to) ==
    /\ ticket[l] \in from
    /\ ticket' \in {[ticket EXCEPT ![l] = t] : t \in to}
    /\ UNCHANGED <<completed, redeemed, agent, sessions, jar>>

\* A login whose state was not kept is never open.
Open(l) == Turn(l, {"none"}, {"open", "closed"})
Close(l) == Turn(l, {"open"}, {"closed"})

Complete(l) ==
    /\ ticket[l] # "none"
    /\ completed' = completed \cup {l}
    /\ UNCHANGED <<ticket, redeemed, agent, sessions, jar>>

Move(h, from, to) == step[h] = from /\ step' = [step EXCEPT ![h] = to]

\* The clerks of H are done, with whatever they were at.
Done(H) ==
    /\ step' = [h \in Handler |-> IF h \in H THEN "free" ELSE step[h]]
    /\ claim' = [h \in Handler |-> IF h \in H THEN NoLogin ELSE claim[h]]
    /\ badge' = [h \in Handler |-> IF h \in H THEN NoSession ELSE badge[h]]

Claim(h) ==
    /\ Move(h, "free", "claimed")
    /\ \E l \in completed : ticket[l] = "open" /\ claim' = [claim EXCEPT ![h] = l]
    /\ UNCHANGED <<ticket, completed, redeemed, badge, sessions, jar>>

Redeem(h) ==
    /\ step[h] = "claimed"
    /\ SingleUse => claim[h] \notin redeemed
    /\ redeemed' = redeemed \cup {claim[h]}
    /\ \/ Move(h, "claimed", "redeemed") /\ UNCHANGED <<claim, badge>>
       \/ Done({h})
    /\ UNCHANGED <<ticket, completed, sessions, jar>>

\* A session may be made and the clerk know nothing of it.
Make(h) ==
    /\ step[h] = "redeemed"
    /\ \E s \in Session :
          /\ owner[s] = NoLogin
          /\ owner' = [owner EXCEPT ![s] = claim[h]]
          /\ live' = live \cup {s}
          /\ \/ /\ Move(h, "redeemed", "serving")
                /\ badge' = [badge EXCEPT ![h] = s]
                /\ UNCHANGED claim
             \/ Done({h})
    /\ UNCHANGED <<ticket, completed, redeemed, jar>>

HandOut(h) ==
    /\ step[h] = "serving"
    /\ jar' = badge[h]
    /\ Done({h})
    /\ UNCHANGED <<ticket, completed, redeemed, sessions>>

Drop ==
    /\ \E H \in SUBSET Handler : Done(H)
    /\ UNCHANGED <<ticket, completed, redeemed, sessions, jar>>

Forget ==
    /\ jar' = NoSession
    /\ UNCHANGED <<ticket, completed, redeemed, agent, sessions>>

End(s) ==
    /\ live' = live \ {s}
    /\ UNCHANGED <<ticket, completed, redeemed, agent, owner, jar>>

Next ==
    \/ \E l \in Login : Open(l) \/ Close(l) \/ Complete(l)
    \/ \E h \in Handler : Claim(h) \/ Redeem(h) \/ Make(h) \/ HandOut(h)
    \/ \E s \in Session : End(s)
    \/ Drop \/ Forget

Spec == Init /\ [][Next]_vars
=============================================================================
