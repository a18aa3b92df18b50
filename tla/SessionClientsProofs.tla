------------------------ MODULE SessionClientsProofs ------------------------
(* Proofs about SessionClients, for any agents, calls, kits and faults.     *)
EXTENDS SessionClients, TLAPS

\* The variables begin with their types, and nobody is asked.
LEMMA InitTypeOK == Init => TypeOK
<1> SUFFICES ASSUME Init PROVE TypeOK
  OBVIOUS
<1>1. requireAuth \in BOOLEAN
  BY DEF Init
<1>2. base \in Agent \cup {NoAgent}
  BY DEF Init
<1>3. answer \in [Call -> Answers] /\ shown \in Info \cup {Nothing}
  BY DEF Init, Answers
<1>4. due \in BOOLEAN /\ loading \in BOOLEAN /\ mounted \in BOOLEAN
  BY DEF Init
<1>5. /\ pc \in [Call -> {"idle", "refresh", "session", "answered", "again", "catch"}]
      /\ op \in [Call -> {"load", "refresh", "request"}]
      /\ to \in [Call -> Agent \cup {NoAgent}]
      /\ \A c \in Call : pc[c] = "session" => to[c] # NoAgent
  BY DEF Init
<1>6. /\ attached \in [Call -> {"unset", "null", "authenticated", "unauthenticated"}]
      /\ ran \in [Call -> 0 .. 3]
      /\ threw \in [Call -> BOOLEAN]
  BY DEF Init
<1>7. kit \in Kits /\ live \in [Agent -> BOOLEAN] /\ possible \subseteq Info /\ faulty \in BOOLEAN
  BY DEF Init
<1>8. QED
  BY <1>1, <1>2, <1>3, <1>4, <1>5, <1>6, <1>7 DEF TypeOK

\* What is true of an agent, and what a client makes of an answer, is a
\* session state of the agent that was asked.
LEMMA InfoTypes ==
    ASSUME TypeOK
    PROVE  /\ \A a \in Agent \cup {NoAgent} : Truth(a) \in Info
           /\ \A a \in Agent : Truth(a).status \in {"authenticated", "unauthenticated"}
           /\ Truth(NoAgent).status = "unknown"
           /\ \A c \in Call : InfoOf(c) \in Info
BY NoAgentIsNoAgent DEF TypeOK, Truth, Info, Status, InfoOf, Answers

\* Sending a question keeps the types.
LEMMA AskTypes ==
    ASSUME TypeOK, NEW c \in Call, NEW a \in Agent \cup {NoAgent}, Ask(c, a)
    PROVE  /\ pc' \in [Call -> {"idle", "refresh", "session", "answered", "again", "catch"}]
           /\ to' \in [Call -> Agent \cup {NoAgent}]
           /\ answer' \in [Call -> Answers]
           /\ possible' \subseteq Info
           /\ faulty' \in BOOLEAN
           /\ \A d \in Call : pc'[d] = "session" => to'[d] # NoAgent
<1>1. Truth(a) \in Info
  BY InfoTypes
<1>2. possible' \subseteq Info /\ faulty' \in BOOLEAN
  BY <1>1 DEF Ask, Record, TypeOK
<1>3. QED
  BY <1>2 DEF Ask, ByItself, TypeOK, Answers

\* Where a call of a middleware is tells how often it has called the next
\* handler: not before the answer is back, and once before the second `then`,
\* which only the Node middleware reaches and only after a refusal.  The handler
\* of a call that is about to be caught threw, which stays known.
Served ==
    \A c \in Call :
       /\ pc[c] \in {"refresh", "session", "answered"} => ran[c] = 0
       /\ pc[c] = "again" =>
             /\ kit = "node" /\ answer[c] = "refused"
             /\ ran[c] = 1 /\ attached[c] = "null"
             /\ ~threw[c]
       /\ pc[c] = "catch" =>
             /\ kit = "node" /\ threw[c]
             /\ ran[c] \in {1, 2} /\ (ran[c] = 2 => answer[c] = "refused")
       /\ pc[c] \in {"session", "answered"} => ~threw[c]
       /\ ran[c] > 1 => kit = "node" /\ (answer[c] = "refused" \/ threw[c])
       /\ ran[c] > 2 => answer[c] = "refused" /\ threw[c]
       /\ kit \in Page => pc[c] \notin {"again", "catch"} /\ ran[c] = 0 /\ ~threw[c]

\* Every step keeps the types.
LEMMA NextTypeOK == TypeOK /\ Served /\ [Next]_vars => TypeOK'
<1> SUFFICES ASSUME TypeOK, Served, [Next]_vars PROVE TypeOK'
  OBVIOUS
<1> USE DEF settings, calls, page, server, history
<1>1. ASSUME NEW c \in Call, AgentAnswers(c) PROVE TypeOK'
  <2>1. to[c] \in Agent /\ Truth(to[c]).status \in Answers
    BY <1>1, InfoTypes DEF AgentAnswers, TypeOK, Answers
  <2>2. answer' \in [Call -> Answers]
    BY <1>1, <2>1, FaultsKnown DEF AgentAnswers, SessionAnswer, TypeOK, Answers, Fault
  <2>3. faulty' \in BOOLEAN
    BY <1>1 DEF AgentAnswers, SessionAnswer, TypeOK
  <2>4. QED
    BY <1>1, <2>2, <2>3 DEF AgentAnswers, TypeOK
<1>2. ASSUME NEW c \in Call, Load(c) PROVE TypeOK'
  BY <1>2, AskTypes DEF Load, TypeOK
<1>3. ASSUME NEW c \in Call, Refresh(c) PROVE TypeOK'
  <2>1. possible' \subseteq Info /\ faulty' \in BOOLEAN
    BY <1>3, InfoTypes DEF Refresh, Record, TypeOK
  <2>2. QED
    BY <1>3, <2>1 DEF Refresh, TypeOK
<1>4. ASSUME NEW c \in Call, RefreshReturns(c) PROVE TypeOK'
  <2>1. CASE ReactReload(c)
    BY <1>4, <2>1, AskTypes DEF RefreshReturns, ReactReload, TypeOK
  <2>2. CASE FlutterReload(c)
    BY <1>4, <2>2, AskTypes DEF RefreshReturns, FlutterReload, TypeOK
  <2>3. CASE FlutterTooLate(c)
    BY <1>4, <2>3 DEF RefreshReturns, FlutterTooLate, Over, Done, TypeOK, Answers
  <2>4. QED
    BY <1>4, <2>1, <2>2, <2>3 DEF RefreshReturns, Reload
<1>5. ASSUME NEW c \in Call, SessionReturns(c) PROVE TypeOK'
  <2>1. InfoOf(c) \in Info
    BY InfoTypes
  <2>2. shown' \in Info \cup {Nothing} /\ loading' \in BOOLEAN
    BY <1>5, <2>1 DEF SessionReturns, TypeOK
  <2>3. QED
    BY <1>5, <2>2 DEF SessionReturns, Over, Done, TypeOK, Answers
<1>6. ASSUME NEW c \in Call, Request(c) PROVE TypeOK'
  BY <1>6, AskTypes DEF Request, TypeOK
<1>7. ASSUME NEW c \in Call, RequestReturns(c) PROVE TypeOK'
  <2>1. ran[c] = 0
    BY <1>7 DEF Served, RequestReturns
  <2>2. ran' \in [Call -> 0 .. 3]
    BY <1>7, <2>1 DEF RequestReturns, NodeReturns, GoReturns, CallNext, TypeOK
  <2>3. attached' \in [Call -> {"unset", "null", "authenticated", "unauthenticated"}]
    BY <1>7 DEF RequestReturns, NodeReturns, GoReturns, Attach, TypeOK
  <2>4. /\ pc' \in [Call -> {"idle", "refresh", "session", "answered", "again", "catch"}]
        /\ threw' \in [Call -> BOOLEAN]
        /\ \A d \in Call : pc'[d] = "session" => to'[d] # NoAgent
    BY <1>7 DEF RequestReturns, NodeReturns, GoReturns, Done, NextReturns, NextThrows, TypeOK
  <2>5. QED
    BY <1>7, <2>2, <2>3, <2>4 DEF RequestReturns, TypeOK
<1>8. ASSUME NEW c \in Call, NodeAgain(c) PROVE TypeOK'
  <2>1. ran[c] = 1
    BY <1>8 DEF Served, NodeAgain
  <2>2. ran' \in [Call -> 0 .. 3]
    BY <1>8, <2>1 DEF NodeAgain, CallNext, TypeOK
  <2>3. QED
    BY <1>8, <2>2 DEF NodeAgain, Attach, NoData, NextReturns, NextThrows, TypeOK
<1>9. ASSUME NEW c \in Call, NodeCatch(c) PROVE TypeOK'
  <2>1. ran[c] \in {1, 2}
    BY <1>9 DEF Served, NodeCatch
  <2>2. ran' \in [Call -> 0 .. 3]
    BY <1>9, <2>1 DEF NodeCatch, CallNext, TypeOK
  <2>3. QED
    BY <1>9, <2>2 DEF NodeCatch, Done, TypeOK
<1>10. CASE SwitchAgent
  BY <1>10 DEF SwitchAgent, TypeOK
<1>11. CASE Leave
  BY <1>11 DEF Leave, TypeOK
<1>12. ASSUME NEW a \in Agent, SessionChanges(a) PROVE TypeOK'
  <2>1. live' \in [Agent -> BOOLEAN]
    BY <1>12 DEF SessionChanges, TypeOK
  <2>2. Truth(a)' \in Info
    BY <2>1, NoAgentIsNoAgent DEF Truth, Info, Status
  <2>3. QED
    BY <1>12, <2>1, <2>2 DEF SessionChanges, TypeOK
<1>13. CASE UNCHANGED vars
  BY <1>13 DEF vars, TypeOK
<1>14. QED
  BY <1>1, <1>2, <1>3, <1>4, <1>5, <1>6, <1>7, <1>8, <1>10, <1>11, <1>12, <1>13, <1>9
     DEF Next

-----------------------------------------------------------------------------
(* How often the next handler runs, and for whom.                          *)

LEMMA NextServed == TypeOK /\ Served /\ [Next]_vars => Served'
<1> SUFFICES ASSUME TypeOK, Served, [Next]_vars, NEW d \in Call
             PROVE  /\ pc'[d] \in {"refresh", "session", "answered"} => ran'[d] = 0
                    /\ pc'[d] = "again" =>
                          /\ kit' = "node" /\ answer'[d] = "refused"
                          /\ ran'[d] = 1 /\ attached'[d] = "null"
                          /\ ~threw'[d]
                    /\ pc'[d] = "catch" =>
                          /\ kit' = "node" /\ threw'[d]
                          /\ ran'[d] \in {1, 2} /\ (ran'[d] = 2 => answer'[d] = "refused")
                    /\ pc'[d] \in {"session", "answered"} => ~threw'[d]
                    /\ ran'[d] > 1 => kit' = "node" /\ (answer'[d] = "refused" \/ threw'[d])
                    /\ ran'[d] > 2 => answer'[d] = "refused" /\ threw'[d]
                    /\ kit' \in Page =>
                          /\ pc'[d] \notin {"again", "catch"}
                          /\ ran'[d] = 0 /\ ~threw'[d]
  BY DEF Served
<1> USE DEF settings, calls, page, server, history, TypeOK, Served
<1>0. ~("node" \in Page \/ "go" \in Page)
  BY DEF Page
<1>1. ASSUME NEW c \in Call, AgentAnswers(c) PROVE Served'
  BY <1>1 DEF AgentAnswers, SessionAnswer
<1>2. ASSUME NEW c \in Call, Load(c) PROVE Served'
  BY <1>2 DEF Load, Ask
<1>3. ASSUME NEW c \in Call, Refresh(c) PROVE Served'
  BY <1>3 DEF Refresh
<1>4. ASSUME NEW c \in Call, RefreshReturns(c) PROVE Served'
  BY <1>0, <1>4 DEF RefreshReturns, Reload, ReactReload, FlutterReload, FlutterTooLate,
     Ask, Over, Done, Page
<1>5. ASSUME NEW c \in Call, SessionReturns(c) PROVE Served'
  BY <1>5 DEF SessionReturns, Over, Done
<1>6. ASSUME NEW c \in Call, Request(c) PROVE Served'
  BY <1>0, <1>6 DEF Request, Ask, Server, Page
<1>7. ASSUME NEW c \in Call, RequestReturns(c) PROVE Served'
  BY <1>0, <1>7 DEF RequestReturns, NodeReturns, GoReturns, Attach, CallNext, Done,
     NextReturns, NextThrows
<1>8. ASSUME NEW c \in Call, NodeAgain(c) PROVE Served'
  BY <1>0, <1>8 DEF NodeAgain, Attach, CallNext, NextReturns, NextThrows
<1>9. ASSUME NEW c \in Call, NodeCatch(c) PROVE Served'
  BY <1>0, <1>9 DEF NodeCatch, CallNext, Done
<1>10. CASE SwitchAgent
  BY <1>10 DEF SwitchAgent
<1>11. CASE Leave
  BY <1>11 DEF Leave
<1>12. ASSUME NEW a \in Agent, SessionChanges(a) PROVE Served'
  BY <1>12 DEF SessionChanges
<1>13. CASE UNCHANGED vars
  BY <1>13 DEF vars
<1>14. QED
  BY <1>1, <1>2, <1>3, <1>4, <1>5, <1>6, <1>7, <1>8, <1>10, <1>11, <1>12, <1>13, <1>9
     DEF Next

THEOREM TypesAndServed == Spec => [](TypeOK /\ Served)
<1>1. Init => Served
  BY DEF Init, Served
<1>2. QED
  BY <1>1, InitTypeOK, NextTypeOK, NextServed, PTL DEF Spec

\* TypeOK: the kits keep their types, and no exchange waits for an agent that
\* is none.
THEOREM ClientTypes == Spec => []TypeOK
BY TypesAndServed, PTL

\* ServedOnce: the next handler runs once for a request, once more for the Node
\* middleware's refused question and once more for a handler that threw.
THEOREM HandlerRunsOnce == Spec => []ServedOnce
<1>1. TypeOK /\ Served => ServedOnce
  BY DEF TypeOK, Served, ServedOnce
<1>2. QED
  BY <1>1, TypesAndServed, PTL

\* NoLateIdentity: a handler that has begun keeps the identity it was given.
THEOREM NobodyArrivesLate == Spec => NoLateIdentity
<1>1. ASSUME TypeOK, Served, [Next]_vars, NEW d \in Call, pc[d] # "idle", ran[d] > 0
      PROVE  \/ attached'[d] = attached[d]
             \/ attached[d] = "null" /\ attached'[d] = "unauthenticated"
  <2> USE DEF settings, calls, page, server, history
  <2>1. \/ pc[d] = "again" /\ attached[d] = "null"
        \/ pc[d] = "catch"
    BY <1>1 DEF Served, TypeOK
  <2>2. ASSUME NEW c \in Call, Request(c) \/ RequestReturns(c)
        PROVE  attached'[d] = attached[d]
    BY <1>1, <2>1, <2>2 DEF Request, RequestReturns, NodeReturns, GoReturns, Attach, TypeOK
  <2>3. ASSUME NEW c \in Call, NodeAgain(c)
        PROVE  \/ attached'[d] = attached[d]
               \/ attached[d] = "null" /\ attached'[d] = "unauthenticated"
    BY <1>1, <2>1, <2>3 DEF NodeAgain, Attach, NoData, TypeOK
  <2>4. ASSUME NEW c \in Call,
               \/ AgentAnswers(c) \/ Load(c) \/ Refresh(c)
               \/ RefreshReturns(c) \/ SessionReturns(c) \/ NodeCatch(c)
        PROVE  UNCHANGED attached
    BY <2>4 DEF AgentAnswers, Load, Refresh, RefreshReturns, SessionReturns, NodeCatch
  <2>5. ASSUME NEW a \in Agent, SessionChanges(a) PROVE UNCHANGED attached
    BY <2>5 DEF SessionChanges
  <2>6. ASSUME SwitchAgent \/ Leave \/ UNCHANGED vars PROVE UNCHANGED attached
    BY <2>6 DEF SwitchAgent, Leave, vars
  <2>7. QED
    BY <1>1, <2>1, <2>2, <2>3, <2>4, <2>5, <2>6 DEF Next
<1>2. ASSUME TypeOK, Served, [Next]_vars
      PROVE  [\A c \in Call : pc[c] # "idle" /\ ran[c] > 0 =>
                 (attached[c] = "authenticated") = (attached'[c] = "authenticated")]_vars
  BY <1>1, <1>2
<1>3. QED
  BY <1>2, TypesAndServed, PTL DEF Spec, NoLateIdentity

-----------------------------------------------------------------------------
(* What a page shows.                                                      *)

\* Every answer that is on its way is accounted for, and so is what a page with
\* no call in progress shows.
View ==
    /\ mounted => kit \in Page
    /\ \A c \in Call : pc[c] = "session" => Truth(to[c]) \in possible
    /\ \A c \in Call : pc[c] = "answered" => Accounted(InfoOf(c))
    /\ SettledViewIsTrue

\* Asking leaves what other calls were promised, and adds what is true now.
LEMMA AskAccounts ==
    ASSUME TypeOK, View, NEW c \in Call, pc[c] \in {"idle", "refresh"},
           NEW a \in Agent \cup {NoAgent}, Ask(c, a), UNCHANGED live
    PROVE  /\ ~Settled'
           /\ \A d \in Call : pc'[d] = "session" => Truth(to[d])' \in possible'
           /\ \A d \in Call : pc'[d] = "answered" => Accounted(InfoOf(d))'
<1>1. Truth(a) \in possible'
  BY DEF Ask, Record
<1>2. \A x : Truth(x)' = Truth(x)
  BY DEF Truth
<1>3. ASSUME NEW d \in Call, d # c, pc[d] # "idle"
      PROVE  possible \subseteq possible' /\ faulty' = faulty
  BY <1>3 DEF Ask, Record, Settled, TypeOK
<1>4. ~Settled'
  BY DEF Ask, Settled, TypeOK
<1>5. ASSUME NEW d \in Call, pc'[d] = "session" PROVE Truth(to[d])' \in possible'
  <2>1. CASE d = c
    <3>1. to'[d] = a
      BY <2>1 DEF Ask, TypeOK
    <3>2. QED
      BY <1>1, <1>2, <3>1 DEF Truth
  <2>2. CASE d # c
    <3>1. to'[d] = to[d] /\ pc[d] = "session"
      BY <1>5, <2>2 DEF Ask, TypeOK
    <3>2. Truth(to[d]) \in possible
      BY <3>1 DEF View
    <3>3. possible \subseteq possible'
      BY <1>3, <2>2, <3>1
    <3>4. QED
      BY <3>1, <3>2, <3>3 DEF Truth
  <2>3. QED
    BY <2>1, <2>2
<1>6. ASSUME NEW d \in Call, pc'[d] = "answered" PROVE Accounted(InfoOf(d))'
  <2>1. CASE d = c
    <3>1. a = NoAgent /\ to'[d] = NoAgent /\ answer'[d] = "failed"
      BY <1>6, <2>1 DEF Ask, ByItself, TypeOK
    <3>2. InfoOf(d)' = [status |-> "unknown", at |-> NoAgent]
      BY <3>1 DEF InfoOf
    <3>3. Truth(NoAgent) = [status |-> "unknown", at |-> NoAgent]
      BY DEF Truth
    <3>4. QED
      BY <1>1, <3>1, <3>2, <3>3 DEF Accounted
  <2>2. CASE d # c
    <3>1. to'[d] = to[d] /\ answer'[d] = answer[d] /\ pc[d] = "answered"
      BY <1>6, <2>2 DEF Ask, TypeOK
    <3>2. InfoOf(d)' = InfoOf(d)
      BY <3>1 DEF InfoOf
    <3>3. Accounted(InfoOf(d))
      BY <3>1 DEF View
    <3>4. QED
      BY <1>3, <2>2, <3>1, <3>2, <3>3 DEF Accounted
  <2>3. QED
    BY <2>1, <2>2
<1>7. QED
  BY <1>4, <1>5, <1>6

\* A step that asks nothing and hears nothing leaves what is accounted for.
LEMMA KeepsAccounts ==
    ASSUME TypeOK, View, UNCHANGED <<live, to, answer, history>>,
           \A d \in Call : pc'[d] \in {"session", "answered"} => pc'[d] = pc[d]
    PROVE  /\ \A d \in Call : pc'[d] = "session" => Truth(to[d])' \in possible'
           /\ \A d \in Call : pc'[d] = "answered" => Accounted(InfoOf(d))'
<1>1. \A d \in Call : Truth(to[d])' = Truth(to[d]) /\ InfoOf(d)' = InfoOf(d)
  BY DEF Truth, InfoOf
<1>2. QED
  BY <1>1 DEF View, Accounted, history

\* A call of a page that is over was about nothing any more.
LEMMA OverAccounts ==
    ASSUME TypeOK, View, NEW c \in Call, Over(c), UNCHANGED <<live, history>>
    PROVE  /\ \A d \in Call : pc'[d] = "session" => Truth(to[d])' \in possible'
           /\ \A d \in Call : pc'[d] = "answered" => Accounted(InfoOf(d))'
<1>1. ASSUME NEW d \in Call, pc'[d] \in {"session", "answered"}
      PROVE  d # c /\ pc[d] = pc'[d] /\ Truth(to[d])' = Truth(to[d]) /\ InfoOf(d)' = InfoOf(d)
  <2>1. d # c
    BY <1>1 DEF Over, Done, TypeOK
  <2>2. pc'[d] = pc[d] /\ to'[d] = to[d] /\ answer'[d] = answer[d]
    BY <2>1 DEF Over, Done, TypeOK
  <2>3. QED
    BY <2>1, <2>2 DEF Truth, InfoOf
<1>2. QED
  BY <1>1 DEF View, Accounted, history

\* An answer of the agent is what is true of it now, or the result of a fault,
\* which never makes anyone signed in.
LEMMA AnswerAccounts ==
    ASSUME TypeOK, View, NEW c \in Call, AgentAnswers(c)
    PROVE  /\ \A d \in Call : pc'[d] = "session" => Truth(to[d])' \in possible'
           /\ \A d \in Call : pc'[d] = "answered" => Accounted(InfoOf(d))'
<1> USE DEF AgentAnswers
<1>1. ASSUME NEW d \in Call, d # c
      PROVE  /\ pc'[d] = pc[d] /\ Truth(to[d])' = Truth(to[d])
             /\ InfoOf(d)' = InfoOf(d)
  <2>1. pc'[d] = pc[d] /\ to'[d] = to[d] /\ answer'[d] = answer[d]
    BY <1>1 DEF SessionAnswer, TypeOK
  <2>2. QED
    BY <2>1 DEF Truth, InfoOf
<1>2. faulty => faulty'
  BY DEF SessionAnswer
<1>3. to[c] \in Agent /\ Truth(to[c]) \in possible /\ Truth(to[c]).at = to[c]
  BY DEF TypeOK, View, Truth
<1>4. Accounted(InfoOf(c))'
  <2>1. CASE answer' = [answer EXCEPT ![c] = Truth(to[c]).status]
    <3>1. answer'[c] = Truth(to[c]).status /\ to' = to
      BY <2>1 DEF TypeOK
    <3>2. Truth(to[c]).status \in {"authenticated", "unauthenticated"}
      BY <1>3, InfoTypes
    <3>3. InfoOf(c)' = [status |-> Truth(to[c]).status, at |-> to[c]]
      BY <3>1, <3>2 DEF InfoOf
    <3>4. Truth(to[c]) = [status |-> Truth(to[c]).status, at |-> to[c]]
      BY DEF Truth
    <3>5. QED
      BY <1>3, <3>3, <3>4 DEF Accounted
  <2>2. CASE answer' # [answer EXCEPT ![c] = Truth(to[c]).status]
    <3>1. faulty' /\ answer'[c] \in {"unauthenticated", "refused", "failed"}
      BY <2>2, FaultsKnown DEF SessionAnswer, Fault, TypeOK
    <3>2. InfoOf(c)'.status # "authenticated"
      BY <3>1 DEF InfoOf
    <3>3. QED
      BY <3>1, <3>2 DEF Accounted
  <2>3. QED
    BY <2>1, <2>2
<1>5. ASSUME NEW d \in Call, pc'[d] = "session" PROVE Truth(to[d])' \in possible'
  <2>1. d # c
    BY <1>5 DEF TypeOK
  <2>2. QED
    BY <1>1, <1>5, <2>1 DEF View
<1>6. ASSUME NEW d \in Call, d # c, pc'[d] = "answered" PROVE Accounted(InfoOf(d))'
  BY <1>1, <1>2, <1>6 DEF View, Accounted
<1>7. QED
  BY <1>4, <1>5, <1>6

\* A change of a session is recorded for the calls that are about it.
LEMMA ChangeAccounts ==
    ASSUME TypeOK, View, NEW a \in Agent, SessionChanges(a)
    PROVE  /\ \A d \in Call : pc'[d] = "session" => Truth(to[d])' \in possible'
           /\ \A d \in Call : pc'[d] = "answered" => Accounted(InfoOf(d))'
           /\ Settled => possible' = possible
<1> USE DEF SessionChanges, calls
<1>1. possible \subseteq possible' /\ faulty' = faulty
  OBVIOUS
<1>2. ASSUME NEW d \in Call, pc'[d] = "session" PROVE Truth(to[d])' \in possible'
  <2>1. CASE to[d] = a
    <3>1. About(a) # {}
      BY <1>2, <2>1 DEF About
    <3>2. Truth(to[d])' = Truth(a)'
      BY <2>1 DEF Truth
    <3>3. QED
      BY <3>1, <3>2
  <2>2. CASE to[d] # a
    <3>1. Truth(to[d])' = Truth(to[d])
      BY <1>2, <2>2 DEF Truth, TypeOK
    <3>2. QED
      BY <1>1, <1>2, <3>1 DEF View
  <2>3. QED
    BY <2>1, <2>2
<1>3. ASSUME NEW d \in Call, pc'[d] = "answered" PROVE Accounted(InfoOf(d))'
  <2>1. InfoOf(d)' = InfoOf(d)
    BY DEF InfoOf
  <2>2. QED
    BY <1>1, <1>3, <2>1 DEF View, Accounted
<1>4. Settled => possible' = possible
  BY DEF Settled, About
<1>5. QED
  BY <1>2, <1>3, <1>4

LEMMA NextView == TypeOK /\ Served /\ View /\ [Next]_vars => View'
<1> SUFFICES ASSUME TypeOK, Served, View, [Next]_vars PROVE View'
  OBVIOUS
<1> USE DEF settings, calls, page, server, history
<1>0. ~("node" \in Page \/ "go" \in Page)
  BY DEF Page
<1>1. ASSUME NEW c \in Call, AgentAnswers(c) PROVE View'
  <2>1. ~Settled'
    BY <1>1 DEF AgentAnswers, Settled, TypeOK
  <2>2. QED
    BY <1>1, <2>1, AnswerAccounts DEF AgentAnswers, View, SettledViewIsTrue
<1>2. ASSUME NEW c \in Call, Load(c) PROVE View'
  BY <1>2, AskAccounts DEF Load, View, SettledViewIsTrue, TypeOK
<1>3. ASSUME NEW c \in Call, Refresh(c) PROVE View'
  <2>1. ~Settled'
    BY <1>3 DEF Refresh, Settled, TypeOK
  <2>2. ASSUME NEW d \in Call, pc'[d] \in {"session", "answered"}
        PROVE  /\ pc[d] = pc'[d] /\ Truth(to[d])' = Truth(to[d]) /\ InfoOf(d)' = InfoOf(d)
               /\ possible \subseteq possible' /\ faulty' = faulty
    <3>1. d # c /\ pc'[d] = pc[d] /\ to'[d] = to[d] /\ answer'[d] = answer[d]
      BY <1>3, <2>2 DEF Refresh, TypeOK
    <3>2. possible \subseteq possible' /\ faulty' = faulty
      BY <1>3, <2>2, <3>1 DEF Refresh, Record, Settled, TypeOK
    <3>3. Truth(to[d])' = Truth(to[d]) /\ InfoOf(d)' = InfoOf(d)
      BY <1>3, <3>1 DEF Refresh, Truth, InfoOf
    <3>4. QED
      BY <3>1, <3>2, <3>3
  <2>3. QED
    BY <1>3, <2>1, <2>2 DEF Refresh, View, SettledViewIsTrue, Accounted
<1>4. ASSUME NEW c \in Call, RefreshReturns(c) PROVE View'
  <2>1. CASE ReactReload(c)
    BY <1>4, <2>1, AskAccounts DEF RefreshReturns, ReactReload, View, SettledViewIsTrue, TypeOK
  <2>2. CASE FlutterReload(c)
    BY <1>4, <2>2, AskAccounts DEF RefreshReturns, FlutterReload, View, SettledViewIsTrue, TypeOK
  <2>3. CASE FlutterTooLate(c)
    BY <1>4, <2>3, OverAccounts
       DEF RefreshReturns, FlutterTooLate, View, SettledViewIsTrue
  <2>4. QED
    BY <1>4, <2>1, <2>2, <2>3 DEF RefreshReturns, Reload
<1>5. ASSUME NEW c \in Call, SessionReturns(c) PROVE View'
  <2>1. Accounted(InfoOf(c))
    BY <1>5 DEF SessionReturns, View
  <2>2. mounted' => shown' = InfoOf(c) /\ mounted
    BY <1>5 DEF SessionReturns
  <2>3. mounted' => Accounted(shown)'
    BY <1>5, <2>1, <2>2 DEF SessionReturns, Accounted
  <2>4. QED
    BY <1>5, <2>3, OverAccounts DEF SessionReturns, View, SettledViewIsTrue
<1>6. ASSUME NEW c \in Call, Request(c) PROVE View'
  <2>1. ~mounted
    BY <1>6 DEF Request, View, Server, Page
  <2>2. CASE Ask(c, base)
    BY <1>6, <2>1, <2>2, AskAccounts DEF Request, View, SettledViewIsTrue, TypeOK
  <2>3. CASE ~Ask(c, base)
    BY <1>6, <2>1, <2>3, KeepsAccounts DEF Request, View, SettledViewIsTrue
  <2>4. QED
    BY <2>2, <2>3
<1>7. ASSUME NEW c \in Call, RequestReturns(c) \/ NodeAgain(c) \/ NodeCatch(c)
      PROVE  View'
  <2>1. ~mounted
    BY <1>0, <1>7 DEF RequestReturns, NodeReturns, GoReturns, NodeAgain, NodeCatch, View,
                      Served
  <2>2. \A d \in Call : pc'[d] \in {"session", "answered"} => pc'[d] = pc[d]
    BY <1>7 DEF RequestReturns, NodeReturns, GoReturns, NodeAgain, NodeCatch, NextReturns,
                NextThrows, Done, TypeOK
  <2>3. UNCHANGED <<live, to, answer, history, mounted>>
    BY <1>7 DEF RequestReturns, NodeAgain, NodeCatch
  <2>4. QED
    BY <2>1, <2>2, <2>3, KeepsAccounts DEF View, SettledViewIsTrue
<1>8. ASSUME SwitchAgent \/ Leave PROVE View'
  <2>1. /\ UNCHANGED <<live, pc, to, answer, history, shown, kit>>
        /\ mounted' => mounted
    BY <1>8 DEF SwitchAgent, Leave
  <2>2. Settled' = Settled /\ Accounted(shown)' = Accounted(shown)
    BY <2>1 DEF Settled, Accounted
  <2>3. QED
    BY <2>1, <2>2, KeepsAccounts DEF View, SettledViewIsTrue
<1>9. ASSUME NEW a \in Agent, SessionChanges(a) PROVE View'
  <2>1. UNCHANGED <<pc, shown, kit, mounted, faulty>>
    BY <1>9 DEF SessionChanges
  <2>2. Settled' = Settled /\ (Settled => Accounted(shown)' = Accounted(shown))
    BY <1>9, <2>1, ChangeAccounts DEF Settled, Accounted
  <2>3. QED
    BY <1>9, <2>1, <2>2, ChangeAccounts DEF View, SettledViewIsTrue
<1>10. CASE UNCHANGED vars
  <2>1. Settled' = Settled /\ Accounted(shown)' = Accounted(shown)
    BY <1>10 DEF vars, Settled, Accounted
  <2>2. QED
    BY <1>10, <2>1, KeepsAccounts DEF vars, View, SettledViewIsTrue
<1>11. QED
  BY <1>1, <1>2, <1>3, <1>4, <1>5, <1>6, <1>7, <1>8, <1>9, <1>10 DEF Next

\* SettledViewIsTrue: however the calls of a page overlap, what it shows when
\* they are over was true since the first of them began, or is nobody.
THEOREM ViewsAreTrue == Spec => []SettledViewIsTrue
<1>1. Init => View
  BY DEF Init, View, SettledViewIsTrue, Nothing
<1>2. View => SettledViewIsTrue
  BY DEF View
<1>3. QED
  BY <1>1, <1>2, NextView, TypesAndServed, PTL DEF Spec

-----------------------------------------------------------------------------
(* What a page says of its own progress.                                   *)

\* A page that says it is loading has a call on its way that will say it is not.
Ends(c) == pc[c] \in {"session", "answered"} /\ StopsLoading(c)
Progress ==
    /\ mounted => kit \in Page
    /\ loading /\ mounted /\ ~due => \E c \in Call : Ends(c)

LEMMA NextProgress == TypeOK /\ Progress /\ [Next]_vars => Progress'
<1> SUFFICES ASSUME TypeOK, Progress, [Next]_vars PROVE Progress'
  OBVIOUS
<1> USE DEF settings, calls, page, server, history
<1>0. ASSUME UNCHANGED <<kit, pc, op>> PROVE \A d \in Call : Ends(d)' = Ends(d)
  BY <1>0 DEF Ends, StopsLoading
<1>1. ASSUME NEW c \in Call, AgentAnswers(c) PROVE Progress'
  <2>1. \A d \in Call : Ends(d) => Ends(d)'
    BY <1>1 DEF AgentAnswers, Ends, StopsLoading, TypeOK
  <2>2. QED
    BY <1>1, <2>1 DEF AgentAnswers, Progress
<1>2. ASSUME NEW c \in Call, Load(c) PROVE Progress'
  <2>1. Ends(c)'
    BY <1>2 DEF Load, Ask, Ends, StopsLoading, TypeOK
  <2>2. QED
    BY <1>2, <2>1 DEF Load, Progress
<1>3. ASSUME NEW c \in Call, Refresh(c) PROVE Progress'
  <2>1. \A d \in Call : Ends(d) => Ends(d)'
    BY <1>3 DEF Refresh, Ends, StopsLoading, TypeOK
  <2>2. QED
    BY <1>3, <2>1 DEF Refresh, Progress
<1>4. ASSUME NEW c \in Call, RefreshReturns(c) PROVE Progress'
  <2>1. CASE ReactReload(c)
    <3>1. \A d \in Call : Ends(d) => Ends(d)'
      BY <1>4, <2>1 DEF RefreshReturns, ReactReload, Ask, Ends, StopsLoading, TypeOK
    <3>2. QED
      BY <1>4, <2>1, <3>1 DEF RefreshReturns, ReactReload, Progress
  <2>2. CASE FlutterReload(c)
    <3>1. Ends(c)'
      BY <1>4, <2>2 DEF RefreshReturns, FlutterReload, Ask, Ends, StopsLoading, TypeOK
    <3>2. QED
      BY <1>4, <2>2, <3>1 DEF RefreshReturns, FlutterReload, Progress
  <2>3. CASE FlutterTooLate(c)
    BY <1>4, <2>3 DEF RefreshReturns, FlutterTooLate, Progress
  <2>4. QED
    BY <1>4, <2>1, <2>2, <2>3 DEF RefreshReturns, Reload
<1>5. ASSUME NEW c \in Call, SessionReturns(c) PROVE Progress'
  <2>1. CASE mounted /\ loading' /\ ~due
    <3>1. loading /\ ~StopsLoading(c)
      BY <1>5, <2>1 DEF SessionReturns
    <3>2. PICK d \in Call : Ends(d)
      BY <2>1, <3>1 DEF Progress
    <3>3. d # c
      BY <3>1, <3>2 DEF Ends
    <3>4. Ends(d)'
      BY <1>5, <3>2, <3>3 DEF SessionReturns, Over, Done, Ends, StopsLoading, TypeOK
    <3>5. QED
      BY <1>5, <2>1, <3>4 DEF SessionReturns, Progress
  <2>2. CASE ~(mounted /\ loading' /\ ~due)
    BY <1>5, <2>2 DEF SessionReturns, Progress
  <2>3. QED
    BY <2>1, <2>2
<1>6. ASSUME NEW c \in Call,
             Request(c) \/ RequestReturns(c) \/ NodeAgain(c) \/ NodeCatch(c)
      PROVE  Progress'
  <2>1. CASE Request(c)
    BY <2>1 DEF Request, Progress, Server, Page
  <2>2. CASE RequestReturns(c) \/ NodeAgain(c) \/ NodeCatch(c)
    <3>1. \A d \in Call : d # c => (Ends(d) => Ends(d)')
      BY <2>2 DEF RequestReturns, NodeAgain, NodeCatch, NodeReturns, GoReturns, Done,
                  NextReturns, NextThrows, Ends, StopsLoading, TypeOK
    <3>2. kit \in Page => ~RequestReturns(c)
      BY DEF RequestReturns, NodeReturns, GoReturns, Page
    <3>3. NodeAgain(c) \/ NodeCatch(c) => ~Ends(c)
      BY DEF NodeAgain, NodeCatch, Ends
    <3>4. QED
      BY <2>2, <3>1, <3>2, <3>3 DEF RequestReturns, NodeAgain, NodeCatch, Progress
  <2>3. QED
    BY <1>6, <2>1, <2>2
<1>7. CASE SwitchAgent
  BY <1>0, <1>7 DEF SwitchAgent, Progress
<1>8. CASE Leave
  BY <1>8 DEF Leave, Progress
<1>9. ASSUME NEW a \in Agent, SessionChanges(a) PROVE Progress'
  BY <1>0, <1>9 DEF SessionChanges, Progress
<1>10. CASE UNCHANGED vars
  BY <1>0, <1>10 DEF vars, Progress
<1>11. QED
  BY <1>1, <1>2, <1>3, <1>4, <1>5, <1>6, <1>7, <1>8, <1>9, <1>10 DEF Next

\* SettledIsNotLoading: no answer, late, lost or overtaken, leaves a page that
\* says it is loading with nothing on its way.
THEOREM NoPageHangs == Spec => []SettledIsNotLoading
<1>1. Init => Progress
  BY DEF Init, Progress
<1>2. Progress => SettledIsNotLoading
  BY DEF Progress, SettledIsNotLoading, Settled, Ends
<1>3. QED
  BY <1>1, <1>2, NextProgress, TypesAndServed, PTL DEF Spec
=============================================================================
