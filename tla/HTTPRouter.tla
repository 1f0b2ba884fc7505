------------------------------ MODULE HTTPRouter ------------------------------
(***************************************************************************)
(* The Caddy handler of internal/caddy/http_router.go: it looks the        *)
(* request's domain up in OpenBao, and proxies the request to the backend  *)
(* of the configuration it got or to the honeypot.  A handler runs for     *)
(* each request; the configurations change while handlers are under way.   *)
(***************************************************************************)
CONSTANTS
  Requests,
  Host,                   \* the domain of a request, its port cut off
  Attributes, Identity,   \* the values of the two headers, {} if absent
  Apps,                   \* the configurations an operator may write
  NoApp, Unread,          \* what a lookup returns beside a configuration: 404 and an error
  Honeypot, Nowhere, Unparsable,
  Bare                    \* strings.TrimPrefix(tier, "@")

\* The special values are no configurations and no backends.
ASSUME AppsAssumption ==
  /\ NoApp \notin Apps /\ Unread \notin Apps /\ NoApp # Unread
  /\ Honeypot # Nowhere
  /\ \A a \in Apps : a.enabled \in BOOLEAN /\ a.requiresAuth \in BOOLEAN
                     /\ a.backend # Nowhere /\ a.backend # Honeypot

VARIABLES
  apps,     \* OpenBao's secret/data/apps/<domain>/config
  pc,       \* where the handler of each request is
  config,   \* what the handler's lookup returned
  target,   \* where the handler has decided to send the request
  left      \* the requests whose client has gone: their context is cancelled

vars == <<apps, pc, config, target, left>>

Domains == {Host[r] : r \in Requests}

Stages == {"none", "lookup", "decide", "proxy", "done"}

TypeOK ==
  /\ apps \in [Domains -> Apps \cup {NoApp}]
  /\ pc \in [Requests -> Stages]
  /\ config \in [Requests -> Apps \cup {NoApp, Unread}]
  /\ target \in [Requests -> {a.backend : a \in Apps} \cup {Honeypot, Nowhere}]
  /\ left \in SUBSET Requests

Init ==
  /\ apps \in [Domains -> Apps \cup {NoApp}]
  /\ pc = [r \in Requests |-> "none"]
  /\ config = [r \in Requests |-> Unread]
  /\ target = [r \in Requests |-> Nowhere]
  /\ left = {}

Goto(r, stage) == pc' = [pc EXCEPT ![r] = stage]

\* An operator writes, disables or deletes the configuration of a domain.
Configure ==
  /\ \E d \in Domains, a \in Apps \cup {NoApp} : apps' = [apps EXCEPT ![d] = a]
  /\ UNCHANGED <<pc, config, target, left>>

\* A client closes its connection; net/http cancels the context of its request.
Leave(r) ==
  /\ pc[r] \notin {"none", "done"} /\ r \notin left
  /\ left' = left \cup {r}
  /\ UNCHANGED <<apps, pc, config, target>>

(***************************************************************************)
(* The lookup                                                              *)
(***************************************************************************)

ServeHTTP(r) ==
  /\ pc[r] = "none"
  /\ Goto(r, "lookup")
  /\ UNCHANGED <<apps, config, target, left>>

\* OpenBao reads the configuration; its reply travels while an operator may write another.
\* The request to OpenBao has neither a timeout nor the context of the client's request.
LookupReads(r) ==
  /\ pc[r] = "lookup"
  /\ config' = [config EXCEPT ![r] = apps[Host[r]]]
  /\ Goto(r, "decide")
  /\ UNCHANGED <<apps, target, left>>

\* OpenBao is not reached, answers 400 or more other than 404, or with something that is not
\* the JSON of a configuration.
LookupFails(r) ==
  /\ pc[r] = "lookup"
  /\ config' = [config EXCEPT ![r] = Unread]
  /\ Goto(r, "decide")
  /\ UNCHANGED <<apps, target, left>>

(***************************************************************************)
(* The decision                                                            *)
(***************************************************************************)

\* The second header is read only if the first is absent or empty.
ClientAttributes(r) == IF Attributes[r] # {} THEN Attributes[r] ELSE Identity[r]

\* An attribute matches a tier with or without the tier's "@"; no tiers means no access.
CheckZitiACL(r, tiers) ==
  \E required \in tiers, attr \in ClientAttributes(r) : attr \in {required, Bare[required]}

SendTo(r, place) ==
  /\ target' = [target EXCEPT ![r] = place]
  /\ Goto(r, "proxy")
  /\ UNCHANGED <<apps, config, left>>

ToHoneypot(r) ==
  /\ pc[r] = "decide"
  /\ \/ config[r] \in {NoApp, Unread}
     \/ /\ config[r] \in Apps
        /\ ~config[r].enabled
     \/ /\ config[r] \in Apps
        /\ config[r].requiresAuth /\ ~CheckZitiACL(r, config[r].tiers)
  /\ SendTo(r, Honeypot)

Mutant_ReadAgain(r) ==   \* the backend is taken from a second lookup
  /\ pc[r] = "decide" /\ config[r] \in Apps
  /\ config[r].enabled
  /\ config[r].requiresAuth => CheckZitiACL(r, config[r].tiers)
  /\ apps[Host[r]] \in Apps
  /\ SendTo(r, apps[Host[r]].backend)
ToBackend(r) ==
  /\ pc[r] = "decide" /\ config[r] \in Apps
  /\ config[r].enabled
  /\ config[r].requiresAuth => CheckZitiACL(r, config[r].tiers)
  /\ SendTo(r, config[r].backend)

(***************************************************************************)
(* The proxy                                                               *)
(***************************************************************************)

Finish(r) ==
  /\ pc[r] = "proxy"
  /\ Goto(r, "done")
  /\ UNCHANGED <<apps, config, target, left>>

\* The place answers, or fails and the error handler answers 502 (404 for the honeypot).
Answered(r) == target[r] # Unparsable /\ Finish(r)

\* url.Parse fails: the backend is not contacted, the client gets a 502.
BadGateway(r) == target[r] = Unparsable /\ Finish(r)

\* The transport gives up because the request's context is cancelled.
Mutant_OwnContext(r) == r \in left /\ target[r] = Honeypot /\ Finish(r)   \* a backend gets a context of its own
Cancelled(r) == r \in left /\ target[r] # Unparsable /\ Finish(r)

Next ==
  \/ Configure
  \/ \E r \in Requests :
       \/ Leave(r) \/ ServeHTTP(r) \/ LookupReads(r) \/ LookupFails(r)
       \/ ToHoneypot(r) \/ ToBackend(r)
       \/ Answered(r) \/ BadGateway(r) \/ Cancelled(r)

\* The goroutine of a request runs on, and the transport sees a cancelled context.  Nothing
\* makes OpenBao or a backend answer.
Fairness ==
  \A r \in Requests :
    /\ WF_vars(ToHoneypot(r)) /\ WF_vars(ToBackend(r))
    /\ WF_vars(BadGateway(r)) /\ WF_vars(Cancelled(r))

Spec == Init /\ [][Next]_vars /\ Fairness

(***************************************************************************)
(* The properties                                                          *)
(***************************************************************************)

\* Where a configuration sends a request: an enabled one to its backend, if it asks for no
\* attributes or the client has one that a tier names.
Route(r, app) ==
  IF /\ app \in Apps /\ app.enabled
     /\ \/ ~app.requiresAuth
        \/ \E a \in (IF Attributes[r] = {} THEN Identity[r] ELSE Attributes[r]) :
             a \in app.tiers \/ \E t \in app.tiers : a = Bare[t]
  THEN app.backend ELSE Honeypot

\* A request is judged when OpenBao reads its configuration, or when that fails.
Judged ==
  [r \in Requests |->
     IF pc[r] = "decide" THEN Route(r, config[r]) ELSE target[r]]

Gate == INSTANCE Gate WITH
          open <- {r \in Requests : pc[r] \in {"lookup", "decide", "proxy"}},
          judged <- Judged

\* However lookups, decisions and changes of the configurations interleave, each request is
\* sent where one configuration that was in force while it was under way sends it: a request
\* that arrives after an application is disabled never reaches the backend.
ImplementsGate == Gate!Spec

\* A handler whose client has gone ends, unless it waits for OpenBao for ever: the lookup is
\* the one wait that neither a timeout nor the client ends.
HandlersEnd ==
  \A r \in Requests : (r \in left ~> pc[r] = "done") \/ <>[](pc[r] = "lookup")
=============================================================================
