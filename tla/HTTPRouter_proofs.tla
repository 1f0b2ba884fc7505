--------------------------- MODULE HTTPRouter_proofs ---------------------------
(***************************************************************************)
(* Proofs about HTTPRouter: its variables keep their types, a handler has  *)
(* a target exactly when it has decided, and every step of the router is a *)
(* step of Gate or leaves what Gate sees alone.                            *)
(***************************************************************************)
EXTENDS HTTPRouter, TLAPS

USE AppsAssumption

\* A handler has no target before it has decided, and one from then on; a lookup that is
\* over returned something, and a place to send a request to is never Nowhere.
Decided ==
  \A r \in Requests : (target[r] = Nowhere) <=> (pc[r] \in {"none", "lookup", "decide"})

\* Route names a backend or the honeypot, so a request that is judged is judged for good.
LEMMA RouteSomewhere ==
  ASSUME NEW r \in Requests, NEW a
  PROVE  Route(r, a) # Nowhere
BY DEF Route

\* The initial states have the types.
LEMMA InitTyped == Init => TypeOK /\ Decided
BY DEF Init, TypeOK, Decided, Stages

\* Each action keeps the types, and gives a handler its target when it decides.
LEMMA StepTyped == TypeOK /\ Decided /\ [Next]_vars => TypeOK' /\ Decided'
<1> SUFFICES ASSUME TypeOK, Decided, [Next]_vars
             PROVE  TypeOK' /\ Decided'
  OBVIOUS
<1> USE DEF TypeOK, Decided, Stages, Goto
<1>1. CASE Configure
  BY <1>1 DEF Configure
<1>2. ASSUME NEW r \in Requests, Leave(r)
      PROVE  TypeOK' /\ Decided'
  BY <1>2 DEF Leave
<1>3. ASSUME NEW r \in Requests, ServeHTTP(r)
      PROVE  TypeOK' /\ Decided'
  BY <1>3 DEF ServeHTTP
<1>4. ASSUME NEW r \in Requests, LookupReads(r)
      PROVE  TypeOK' /\ Decided'
  <2>1. apps[Host[r]] \in Apps \cup {NoApp}
    BY DEF Domains
  <2> QED BY <1>4, <2>1 DEF LookupReads
<1>5. ASSUME NEW r \in Requests, LookupFails(r)
      PROVE  TypeOK' /\ Decided'
  BY <1>5 DEF LookupFails
<1>6. ASSUME NEW r \in Requests, ToHoneypot(r)
      PROVE  TypeOK' /\ Decided'
  BY <1>6 DEF ToHoneypot, SendTo
<1>7. ASSUME NEW r \in Requests, ToBackend(r)
      PROVE  TypeOK' /\ Decided'
  BY <1>7 DEF ToBackend, SendTo
<1>8. ASSUME NEW r \in Requests, Finish(r)
      PROVE  TypeOK' /\ Decided'
  BY <1>8 DEF Finish
<1>9. CASE UNCHANGED vars
  BY <1>9 DEF vars
<1> QED BY <1>1, <1>2, <1>3, <1>4, <1>5, <1>6, <1>7, <1>8, <1>9
        DEF Next, Answered, BadGateway, Cancelled

\* The variables keep their types for any requests and configurations.
THEOREM TypeCorrect == Spec => []TypeOK
<1>1. Spec => [](TypeOK /\ Decided)
  BY InitTyped, StepTyped, PTL DEF Spec
<1> QED BY <1>1, PTL

-------------------------------------------------------------------------------

\* The refinement, action by action.

\* The decision of the code is the one Route states.
LEMMA DecisionIsRoute ==
  ASSUME TypeOK, NEW r \in Requests
  PROVE  /\ ToHoneypot(r) => Route(r, config[r]) = Honeypot
         /\ ToBackend(r) => Route(r, config[r]) = config[r].backend
BY DEF ToHoneypot, ToBackend, Route, CheckZitiACL, ClientAttributes

\* The initial states are Gate's.
LEMMA InitGate == Init => Gate!Init
BY DEF Init, Gate!Init, Gate!Domains, Domains, Judged

\* What Gate sees of a step that moves one handler.
LEMMA JudgedMoves ==
  ASSUME NEW r \in Requests, TypeOK,
         \A q \in Requests \ {r} :
            pc'[q] = pc[q] /\ config'[q] = config[q] /\ target'[q] = target[q]
  PROVE  Judged' = [Judged EXCEPT ![r] = Judged'[r]]
<1>1. ASSUME NEW q \in Requests, q # r
      PROVE  Judged'[q] = Judged[q]
  <2>1. pc'[q] = pc[q] /\ config'[q] = config[q] /\ target'[q] = target[q]
    BY <1>1
  <2>2. CASE pc[q] = "decide"
    BY <2>1, <2>2 DEF Judged, Route
  <2>3. CASE pc[q] # "decide"
    BY <2>1, <2>3 DEF Judged
  <2> QED BY <2>2, <2>3
<1>2. Judged = [q \in Requests |-> Judged[q]] /\ Judged' = [q \in Requests |-> Judged'[q]]
  BY DEF Judged
<1> QED BY <1>1, <1>2

\* A change of a configuration, and the end of a client, are a step of Gate and none.
LEMMA GateOutside ==
  ASSUME TypeOK, Configure \/ (\E r \in Requests : Leave(r)) \/ UNCHANGED vars
  PROVE  [Gate!Next]_(Gate!vars)
<1>1. UNCHANGED <<pc, config, target>>
  BY DEF Configure, Leave, vars
<1>2. Judged' = Judged
  BY <1>1 DEF Judged, Route
<1>3. CASE Configure
  BY <1>1, <1>2, <1>3 DEF Configure, Gate!Next, Gate!Configure, Gate!Domains, Domains
<1>4. CASE UNCHANGED apps
  BY <1>1, <1>2, <1>4 DEF Gate!vars
<1> QED BY <1>3, <1>4 DEF Leave, vars

\* The arrival of a request.
LEMMA GateArrive ==
  ASSUME TypeOK, Decided, NEW r \in Requests, ServeHTTP(r)
  PROVE  Gate!Next
<1> USE DEF ServeHTTP, Goto, TypeOK, Stages
<1>1. Judged' = Judged
  BY DEF Judged, Route
<1>2. Judged[r] = Nowhere
  BY DEF Judged, Decided
<1>3. {q \in Requests : pc'[q] \in {"lookup", "decide", "proxy"}}
        = {q \in Requests : pc[q] \in {"lookup", "decide", "proxy"}} \cup {r}
  OBVIOUS
<1> QED BY <1>1, <1>2, <1>3 DEF Gate!Next, Gate!Arrive

\* A lookup that returns is the moment the request is judged.
LEMMA GateJudge ==
  ASSUME TypeOK, Decided, NEW r \in Requests, LookupReads(r) \/ LookupFails(r)
  PROVE  Gate!Next
<1> USE DEF LookupReads, LookupFails, Goto, TypeOK, Stages
<1>1. Judged' = [Judged EXCEPT ![r] = Judged'[r]]
  BY JudgedMoves
<1>2. Judged[r] = Nowhere
  BY DEF Judged, Decided
<1>3. {q \in Requests : pc'[q] \in {"lookup", "decide", "proxy"}}
        = {q \in Requests : pc[q] \in {"lookup", "decide", "proxy"}}
  OBVIOUS
<1>4. r \in {q \in Requests : pc[q] \in {"lookup", "decide", "proxy"}} /\ apps' = apps
  OBVIOUS
<1>5. CASE LookupReads(r)
  <2>1. Judged'[r] = Route(r, apps[Host[r]])
    BY <1>5 DEF Judged, Route
  <2> QED BY <1>1, <1>2, <1>3, <1>4, <2>1 DEF Gate!Next, Gate!Judge
<1>6. CASE LookupFails(r)
  <2>1. Judged'[r] = Honeypot
    BY <1>6 DEF Judged, Route
  <2> QED BY <1>1, <1>2, <1>3, <1>4, <2>1 DEF Gate!Next, Gate!GiveUp
<1> QED BY <1>5, <1>6

\* The decision changes nothing that Gate sees: it is the one the configuration determined.
LEMMA GateDecide ==
  ASSUME TypeOK, NEW r \in Requests, ToHoneypot(r) \/ ToBackend(r)
  PROVE  UNCHANGED Gate!vars
<1> USE DEF ToHoneypot, ToBackend, SendTo, Goto, TypeOK, Stages
<1>1. Judged'[r] = target'[r]
  BY DEF Judged
<1>2. Judged[r] = Route(r, config[r])
  BY DEF Judged
<1>3. Judged'[r] = Judged[r]
  BY <1>1, <1>2, DecisionIsRoute
<1>4. Judged' = Judged
  BY <1>3, JudgedMoves DEF Judged
<1>5. {q \in Requests : pc'[q] \in {"lookup", "decide", "proxy"}}
        = {q \in Requests : pc[q] \in {"lookup", "decide", "proxy"}}
  OBVIOUS
<1> QED BY <1>4, <1>5 DEF Gate!vars

\* The end of a request.
LEMMA GateEnd ==
  ASSUME TypeOK, Decided, NEW r \in Requests, Finish(r)
  PROVE  Gate!Next
<1> USE DEF Finish, Goto, TypeOK, Stages
<1>1. Judged' = Judged
  BY DEF Judged, Route
<1>2. Judged[r] # Nowhere
  BY DEF Judged, Decided
<1>3. {q \in Requests : pc'[q] \in {"lookup", "decide", "proxy"}}
        = {q \in Requests : pc[q] \in {"lookup", "decide", "proxy"}} \ {r}
  OBVIOUS
<1>4. r \in {q \in Requests : pc[q] \in {"lookup", "decide", "proxy"}}
  OBVIOUS
<1> QED BY <1>1, <1>2, <1>3, <1>4 DEF Gate!Next, Gate!End

\* Every step of the router is a step of Gate, or none that Gate sees.
LEMMA StepGate == TypeOK /\ Decided /\ [Next]_vars => [Gate!Next]_(Gate!vars)
<1> SUFFICES ASSUME TypeOK, Decided, [Next]_vars
             PROVE  [Gate!Next]_(Gate!vars)
  OBVIOUS
<1>1. CASE Configure \/ (\E r \in Requests : Leave(r)) \/ UNCHANGED vars
  BY <1>1, GateOutside
<1>2. ASSUME NEW r \in Requests,
             ServeHTTP(r) \/ LookupReads(r) \/ LookupFails(r) \/ Finish(r)
      PROVE  Gate!Next
  BY <1>2, GateArrive, GateJudge, GateEnd
<1>3. ASSUME NEW r \in Requests, ToHoneypot(r) \/ ToBackend(r)
      PROVE  UNCHANGED Gate!vars
  BY <1>3, GateDecide
<1> QED BY <1>1, <1>2, <1>3 DEF Next, Answered, BadGateway, Cancelled

\* For any number of requests, domains and configurations, each request is sent where one
\* configuration in force while it was under way sends it.
THEOREM GateImplemented == Spec => ImplementsGate
<1>1. Spec => [](TypeOK /\ Decided)
  BY InitTyped, StepTyped, PTL DEF Spec
<1> QED BY <1>1, InitGate, StepGate, PTL DEF Spec, ImplementsGate, Gate!Spec

-------------------------------------------------------------------------------

\* What a request has met since its arrival.

\* The place where the configuration in force sends the request.
Where(r) == Route(r, apps[Host[r]])

\* What the handler holds comes from a place of S, or is the honeypot.
Within(r, S) ==
  /\ target[r] \in S \cup {Nowhere, Honeypot}
  /\ pc[r] = "decide" => Route(r, config[r]) \in S \cup {Honeypot}

\* A handler that has not begun holds nothing.
LEMMA WithinBefore ==
  ASSUME TypeOK, Decided, NEW r \in Requests, NEW S, pc[r] = "none"
  PROVE  Within(r, S)
BY DEF Within, Decided

\* As long as the configuration in force sends the request to a place of S, so do the lookup
\* and the decision.
LEMMA WithinStep ==
  ASSUME NEW r \in Requests, NEW S
  PROVE  TypeOK /\ Decided /\ Where(r) \in S /\ Within(r, S) /\ [Next]_vars => Within(r, S)'
<1> SUFFICES ASSUME TypeOK, Decided, Where(r) \in S, Within(r, S), [Next]_vars
             PROVE  Within(r, S)'
  OBVIOUS
<1> USE DEF Within, Goto, TypeOK, Stages
<1>1. ASSUME pc'[r] = pc[r], config'[r] = config[r], target'[r] = target[r]
      PROVE  Within(r, S)'
  BY <1>1 DEF Route
<1>2. CASE Configure \/ (\E q \in Requests : Leave(q)) \/ UNCHANGED vars
  BY <1>1, <1>2 DEF Configure, Leave, vars
<1>3. ASSUME NEW q \in Requests, ServeHTTP(q) \/ Finish(q)
      PROVE  Within(r, S)'
  BY <1>1, <1>3 DEF ServeHTTP, Finish
<1>4. ASSUME NEW q \in Requests, LookupReads(q)
      PROVE  Within(r, S)'
  <2>1. CASE q = r
    <3>1. config'[r] = apps[Host[r]] /\ target'[r] = target[r]
      BY <1>4, <2>1 DEF LookupReads
    <3> QED
      BY <3>1 DEF Where, Route
  <2> QED
    BY <1>1, <1>4, <2>1 DEF LookupReads
<1>5. ASSUME NEW q \in Requests, LookupFails(q)
      PROVE  Within(r, S)'
  <2>1. CASE q = r
    <3>1. config'[r] = Unread /\ target'[r] = target[r]
      BY <1>5, <2>1 DEF LookupFails
    <3> QED
      BY <3>1 DEF Route
  <2> QED
    BY <1>1, <1>5, <2>1 DEF LookupFails
<1>6. ASSUME NEW q \in Requests, ToHoneypot(q) \/ ToBackend(q)
      PROVE  Within(r, S)'
  <2>1. CASE q = r
    <3>1. pc[r] = "decide" /\ pc'[r] = "proxy" /\ target'[r] = Route(r, config[r])
      BY <1>6, <2>1, DecisionIsRoute DEF ToHoneypot, ToBackend, SendTo
    <3> QED
      BY <3>1
  <2> QED
    BY <1>1, <1>6, <2>1 DEF ToHoneypot, ToBackend, SendTo
<1> QED
  BY <1>2, <1>3, <1>4, <1>5, <1>6 DEF Next, Answered, BadGateway, Cancelled

\* Whatever the operator writes, a request goes to the honeypot or where one of the
\* configurations in force from its arrival on sends it: with S = {Honeypot}, a request that
\* none of them admits never reaches a backend, and with S = {b}, one that all of them send
\* to b never reaches another.
THEOREM SentWhereConfigured ==
  ASSUME NEW r \in Requests, NEW S
  PROVE  Spec => [](pc[r] = "none" /\ [](Where(r) \in S) => [](target[r] \in S \cup {Nowhere, Honeypot}))
<1>1. Spec => [](TypeOK /\ Decided)
  BY InitTyped, StepTyped, PTL DEF Spec
<1>2. TypeOK /\ Decided /\ pc[r] = "none" => Within(r, S)
  BY WithinBefore
<1>3. TypeOK /\ Decided /\ Where(r) \in S /\ Within(r, S) /\ [Next]_vars => Within(r, S)'
  BY WithinStep
<1>4. Within(r, S) => target[r] \in S \cup {Nowhere, Honeypot}
  BY DEF Within
<1> QED
  BY <1>1, <1>2, <1>3, <1>4, PTL DEF Spec
==============================================================================
