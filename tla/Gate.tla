--------------------------------- MODULE Gate ---------------------------------
(***************************************************************************)
(* What the HTTP router promises: each request is judged once, at a moment *)
(* between its arrival and its end, by the configuration that is in force  *)
(* at that moment, and is sent where that one configuration says.  A       *)
(* configuration that cannot be read sends the request to the honeypot;    *)
(* the operators may change the configurations at any time.                *)
(***************************************************************************)
CONSTANTS
  Requests, Apps,
  Host,              \* the domain of each request
  NoApp,             \* no configuration
  Honeypot, Nowhere,
  Route(_, _)        \* the place where a configuration sends a request

VARIABLES
  apps,      \* the configuration in force for each domain
  open,      \* the requests that have arrived and are not ended
  judged     \* where each request was sent, Nowhere before it is judged

vars == <<apps, open, judged>>

Domains == {Host[r] : r \in Requests}

Init ==
  /\ apps \in [Domains -> Apps \cup {NoApp}]
  /\ open = {}
  /\ judged = [r \in Requests |-> Nowhere]

Configure ==
  /\ \E d \in Domains, a \in Apps \cup {NoApp} : apps' = [apps EXCEPT ![d] = a]
  /\ UNCHANGED <<open, judged>>

Arrive(r) ==
  /\ r \notin open /\ judged[r] = Nowhere
  /\ open' = open \cup {r}
  /\ UNCHANGED <<apps, judged>>

Judge(r) ==
  /\ r \in open /\ judged[r] = Nowhere
  /\ judged' = [judged EXCEPT ![r] = Route(r, apps[Host[r]])]
  /\ UNCHANGED <<apps, open>>

GiveUp(r) ==
  /\ r \in open /\ judged[r] = Nowhere
  /\ judged' = [judged EXCEPT ![r] = Honeypot]
  /\ UNCHANGED <<apps, open>>

End(r) ==
  /\ r \in open /\ judged[r] # Nowhere
  /\ open' = open \ {r}
  /\ UNCHANGED <<apps, judged>>

Next == Configure \/ \E r \in Requests : Arrive(r) \/ Judge(r) \/ GiveUp(r) \/ End(r)

Spec == Init /\ [][Next]_vars
=============================================================================
