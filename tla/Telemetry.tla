----------------------------- MODULE Telemetry -----------------------------
(***************************************************************************)
(* The telemetry publisher of the agent: runTelemetryLoop, publishEvents,  *)
(* drainEdgeBuffer and bufferFromChannel of internal/agent/agent.go, with  *)
(* the bounded event channel the collectors feed and the edge buffer.      *)
(*                                                                         *)
(* Events are numbered in the order in which the collectors offer them.    *)
(* The publisher is one goroutine; `pc` is its place in the code.  Each    *)
(* blocking call is one step, so the connection may drop, the clock may    *)
(* advance and the collectors may offer events between any two of them.    *)
(* Timers (backoff, tickers, the 5s pause) may fire at any time; their     *)
(* durations, and the heartbeat interval, are abstracted.                  *)
(***************************************************************************)
EXTENDS EventBuffer

CONSTANTS
  ChanCap,       \* capacity of eventCh (256 in the code)
  Fallbacks,     \* whether boot.FallbackURL is configured: the possible answers
  JSModes,       \* possible values of "js != nil" on a new connection
  MaxEvents,     \* bound: events the collectors ever offer
  MaxTime        \* bound: the last tick of the clock

ASSUME TelemetryAssumption ==
  /\ ChanCap \in Nat \ {0}
  /\ Fallbacks \subseteq BOOLEAN
  /\ JSModes \subseteq BOOLEAN
  /\ MaxEvents \in Nat
  /\ MaxTime \in Nat

VARIABLES
  hasFallback, \* boot.FallbackURL is configured
  clock,      \* time.Now()
  emitted,    \* number of events offered so far; events are 1..emitted
  eventCh,    \* the collectors' channel
  edgeBuf,    \* the edge buffer
  replay,     \* what drain() returned and drainEdgeBuffer has yet to publish
  payload,    \* <<e>> when publishEvents has received e from eventCh
  pc,         \* where the publisher goroutine is
  connected,  \* nc.IsConnected() of the current connection
  js,         \* the current connection has a JetStream context
  cancelled,  \* ctx.Done() is closed
  sent,       \* history: events NATS received, in order of arrival
  nacked,     \* history: events whose live js.Publish returned an error
  overflow,   \* history: events dropped because eventCh was full
  expired,    \* history: events dropped by push or drain because of their age
  unacked     \* history: events given up after a core publish that got lost

world   == <<clock, emitted, cancelled, hasFallback>>
queues  == <<eventCh, edgeBuf, replay, payload>>
link    == <<connected, js>>
history == <<sent, nacked, overflow, expired, unacked>>
vars    == <<world, queues, link, history, pc>>

Init ==
  /\ hasFallback \in Fallbacks
  /\ clock = 0 /\ emitted = 0
  /\ eventCh = <<>> /\ edgeBuf = <<>> /\ replay = <<>> /\ payload = <<>>
  /\ pc = "connect" /\ connected = FALSE /\ js = FALSE /\ cancelled = FALSE
  /\ sent = <<>> /\ nacked = {} /\ overflow = {} /\ expired = {} /\ unacked = {}

-----------------------------------------------------------------------------
\* Building blocks of the publisher's steps.

Goto(from, to) == pc = from /\ pc' = to

\* A step that only moves on.
Step(from, to) == Goto(from, to) /\ UNCHANGED <<world, queues, link, history>>

\* Faulty variants of push: forgetting the buffer, inserting at its front.
Mutant_PushForgets(e) == edgeBuf' = <<[id |-> e, at |-> clock]>> /\ UNCHANGED expired
Mutant_PushInFront(e) == edgeBuf' = <<[id |-> e, at |-> clock]>> \o edgeBuf /\ UNCHANGED expired

\* edgeBuf.push(e): evict the expired prefix, append e stamped with the clock.
Push(e) ==
  \E k \in 0..Len(edgeBuf) :
    /\ EvictionStops(edgeBuf, clock, k)
    /\ edgeBuf' = Pushed(edgeBuf, k, e, clock)
    /\ expired' = expired \cup {edgeBuf[i].id : i \in 1..k}

\* n copies of e reach NATS.
Arrive(e, n) == sent' = sent \o [i \in 1..n |-> e]

-----------------------------------------------------------------------------
\* Faulty variants of the steps below, to see the properties fail: no check of
\* the channel's capacity; no buffering without a fallback; waits that overlook
\* the context; draining after the live events; draining from the back;
\* retrying a replayed event; dropping an event that finds the connection gone.
Mutant_EmitGrows ==
  /\ emitted < MaxEvents /\ pc # "done"
  /\ emitted' = emitted + 1
  /\ eventCh' = Append(eventCh, emitted + 1)
  /\ UNCHANGED <<hasFallback, clock, cancelled, edgeBuf, replay, payload, pc, link, history>>
Mutant_ConnectErrBacksOff ==
  ~cancelled /\ Step("connect", IF hasFallback THEN "fallback" ELSE "backoff")
Mutant_WaitIgnoresCtx ==
  \/ ~cancelled /\ \E w \in {"fallback_wait", "backoff", "pause"} : Step(w, "connect")
  \/ cancelled /\ \E w \in {"fallback_wait", "backoff", "pause"} : Step(w, w)
Mutant_DrainSkipped == Step("drain", "replay")
Mutant_ReplayFromBack ==
  /\ replay # <<>> /\ Goto("replay", "replay")
  /\ Arrive(replay[Len(replay)], 1)
  /\ replay' = SubSeq(replay, 1, Len(replay) - 1)
  /\ UNCHANGED <<world, eventCh, edgeBuf, payload, link, nacked, overflow, expired, unacked>>
Mutant_ReplayRetries ==
  /\ replay # <<>> /\ Goto("replay", "replay")
  /\ \E n \in {0, 1} :
       /\ Arrive(Head(replay), 1)
       /\ replay' = IF n = 1 THEN Tail(replay) ELSE replay
  /\ UNCHANGED <<world, eventCh, edgeBuf, payload, link, nacked, overflow, expired, unacked>>
Mutant_NotConnectedDrops ==
  /\ ~connected /\ Goto("received", "close")
  /\ payload' = <<>>
  /\ UNCHANGED <<world, eventCh, edgeBuf, replay, link, history>>

-----------------------------------------------------------------------------
\* The environment: collectors, clock, network, cancellation.

\* A collector offers the next event; the send never blocks, and the event is
\* dropped when the channel is full.
Emit ==
  /\ emitted < MaxEvents /\ pc # "done"
  /\ emitted' = emitted + 1
  /\ \/ /\ Len(eventCh) < ChanCap
        /\ eventCh' = Append(eventCh, emitted + 1)
        /\ UNCHANGED overflow
     \/ /\ Len(eventCh) >= ChanCap
        /\ overflow' = overflow \cup {emitted + 1}
        /\ UNCHANGED eventCh
  /\ UNCHANGED <<hasFallback, clock, cancelled, edgeBuf, replay, payload, pc, link,
                 sent, nacked, expired, unacked>>

Tick ==
  /\ clock < MaxTime
  /\ clock' = clock + 1
  /\ UNCHANGED <<hasFallback, emitted, cancelled, pc, queues, link, history>>

\* The connection breaks; MaxReconnects(0) means it never comes back.
Disconnect ==
  /\ connected
  /\ connected' = FALSE
  /\ UNCHANGED <<world, pc, queues, js, history>>

Cancel ==
  /\ ~cancelled
  /\ cancelled' = TRUE
  /\ UNCHANGED <<hasFallback, clock, emitted, pc, queues, link, history>>

-----------------------------------------------------------------------------
\* runTelemetryLoop: connecting, and what it does while NATS is away.

\* The test of ctx.Err() at the top of the loop.
Return == cancelled /\ Step("connect", "done")

ConnectOK ==
  /\ ~cancelled /\ Goto("connect", "drain")
  /\ connected' = TRUE
  /\ js' \in JSModes
  /\ UNCHANGED <<world, queues, history>>

ConnectErr == ~cancelled /\ Step("connect", IF hasFallback THEN "fallback" ELSE "buffer")

\* The inner loop of the fallback, and bufferFromChannel: every queued event
\* is pushed.  The fallback also posts it over HTTP and ignores the outcome.
Stash(from, next) ==
  \/ /\ eventCh # <<>> /\ Goto(from, from)
     /\ Push(Head(eventCh))
     /\ eventCh' = Tail(eventCh)
     /\ UNCHANGED <<world, replay, payload, link, sent, nacked, overflow, unacked>>
  \/ eventCh = <<>> /\ Step(from, next)

FallbackDrain == Stash("fallback", "fallback_wait")
BufferFromChannel == Stash("buffer", "backoff")

\* A new interval arrives: the ticker is reset and the fallback loop runs again.
FallbackInterval == Step("fallback_wait", "fallback")

\* The waits of the loop: the fallback ticker, the backoff and the 5s pause
\* end in a new connection attempt, or in a return when ctx is cancelled.
WaitEnds ==
  /\ pc \in {"fallback_wait", "backoff", "pause"}
  /\ pc' \in {"connect"} \cup IF cancelled THEN {"done"} ELSE {}
  /\ UNCHANGED <<world, queues, link, history>>

-----------------------------------------------------------------------------
\* drainEdgeBuffer.

\* buf.drain(): take what is fresh, in order, and empty the buffer.
Drain ==
  /\ Goto("drain", "replay")
  /\ \E positions \in Listings(Kept(edgeBuf, clock)) :
       replay' = Drained(edgeBuf, positions)
  /\ edgeBuf' = <<>>
  /\ expired' = expired \cup {edgeBuf[i].id : i \in DOMAIN edgeBuf \ Kept(edgeBuf, clock)}
  /\ UNCHANGED <<world, eventCh, payload, link, sent, nacked, overflow, unacked>>

\* How many copies of a replayed event NATS may receive.  With JetStream: one
\* if it is acknowledged; otherwise js.Publish may have stored it (0 or 1) and
\* the core publish that follows may arrive (0 or 1).  Nothing arrives over a
\* broken connection.
ReplayCopies == IF ~connected THEN {0} ELSE IF js THEN 0..2 ELSE 0..1

\* One iteration of the publishing loop; the last publish's error is ignored.
ReplayOne ==
  /\ replay # <<>> /\ Goto("replay", "replay")
  /\ \E n \in ReplayCopies :
       /\ Arrive(Head(replay), n)
       /\ unacked' = unacked \cup IF n = 0 THEN {Head(replay)} ELSE {}
  /\ replay' = Tail(replay)
  /\ UNCHANGED <<world, eventCh, edgeBuf, payload, link, nacked, overflow, expired>>

ReplayDone == replay = <<>> /\ Step("replay", "publish")

-----------------------------------------------------------------------------
\* publishEvents.

PublishCancelled == cancelled /\ Step("publish", "close")

Receive ==
  /\ eventCh # <<>> /\ Goto("publish", "received")
  /\ payload' = <<Head(eventCh)>>
  /\ eventCh' = Tail(eventCh)
  /\ UNCHANGED <<world, history, edgeBuf, replay, link>>

\* !nc.IsConnected(): keep the event for the next connection and return.
NotConnected ==
  /\ ~connected /\ Goto("received", "close")
  /\ Push(Head(payload))
  /\ payload' = <<>>
  /\ UNCHANGED <<world, eventCh, replay, link, sent, nacked, overflow, unacked>>

Connected == connected /\ Step("received", "send")

\* js.Publish returns an acknowledgement.
PublishAcked ==
  /\ js /\ connected /\ Goto("send", "publish")
  /\ Arrive(Head(payload), 1)
  /\ payload' = <<>>
  /\ UNCHANGED <<world, eventCh, edgeBuf, replay, link, nacked, overflow, expired, unacked>>

\* js.Publish returns an error, whether or not the server stored the event:
\* the event goes to the edge buffer.
PublishErr ==
  /\ js /\ Goto("send", "recheck")
  /\ \E n \in IF connected THEN 0..1 ELSE {0} : Arrive(Head(payload), n)
  /\ Push(Head(payload))
  /\ nacked' = nacked \cup {Head(payload)}
  /\ payload' = <<>>
  /\ UNCHANGED <<world, eventCh, replay, link, overflow, unacked>>

\* After an error: return if the connection is gone, else keep publishing.
Recheck ==
  /\ pc = "recheck"
  /\ pc' = IF connected THEN "publish" ELSE "close"
  /\ UNCHANGED <<world, queues, link, history>>

\* Without JetStream: nc.Publish, whose error is ignored.
PublishCore ==
  /\ ~js /\ Goto("send", "publish")
  /\ \E n \in IF connected THEN 0..1 ELSE {0} :
       /\ Arrive(Head(payload), n)
       /\ unacked' = unacked \cup IF n = 0 THEN {Head(payload)} ELSE {}
  /\ payload' = <<>>
  /\ UNCHANGED <<world, eventCh, edgeBuf, replay, link, nacked, overflow, expired>>

\* configSub.Unsubscribe, nc.Close, then the pause before the next attempt.
Close ==
  /\ Goto("close", "pause")
  /\ connected' = FALSE
  /\ UNCHANGED <<world, queues, js, history>>

-----------------------------------------------------------------------------
\* Steps the publisher takes on its own; every call in them has a timeout.
Publisher ==
  \/ Return \/ ConnectOK \/ ConnectErr
  \/ FallbackDrain \/ BufferFromChannel \/ WaitEnds
  \/ Drain \/ ReplayOne \/ ReplayDone
  \/ PublishCancelled \/ Receive \/ NotConnected \/ Connected
  \/ PublishAcked \/ PublishErr \/ Recheck \/ PublishCore \/ Close

Environment == Emit \/ Tick \/ Disconnect \/ Cancel

Next == Publisher \/ FallbackInterval \/ Environment

Spec == Init /\ [][Next]_vars

\* The publisher's goroutine is scheduled; a wait whose timer fired or whose context is
\* done is not passed over for ever in favour of new intervals (select chooses at random).
FairSpec == Spec /\ WF_vars(Publisher) /\ SF_vars(WaitEnds)

-----------------------------------------------------------------------------
\* Properties.

PC == {"connect", "fallback", "fallback_wait", "buffer", "backoff", "drain",
       "replay", "publish", "received", "send", "recheck", "close", "pause", "done"}

\* Types of the variables; the publisher holds at most one received event, and
\* exactly while it is between the receive and the end of the publish.
TypeOK ==
  /\ clock \in Nat /\ emitted \in Nat
  /\ eventCh \in Seq(Nat) /\ Len(eventCh) <= ChanCap
  /\ edgeBuf \in Seq(Entry)
  /\ replay \in Seq(Nat) /\ payload \in Seq(Nat)
  /\ pc \in PC
  /\ hasFallback \in BOOLEAN /\ connected \in BOOLEAN /\ js \in BOOLEAN /\ cancelled \in BOOLEAN
  /\ sent \in Seq(Nat)
  /\ nacked \subseteq Nat /\ overflow \subseteq Nat
  /\ expired \subseteq Nat /\ unacked \subseteq Nat
  /\ Len(payload) = IF pc \in {"received", "send"} THEN 1 ELSE 0
  /\ replay # <<>> => pc = "replay"

Ascending(s) == \A i, j \in DOMAIN s : i < j => s[i] < s[j]

\* Everything the agent holds, in the order in which it will be handled.
Pipeline == replay \o Ids(edgeBuf) \o payload \o eventCh

\* The agent holds each event at most once, and the replay list, the buffer,
\* the event in hand and the channel line up in the order of emission: no
\* hand-over between channel, buffer and publisher duplicates or reorders.
InOrder == Ascending(Pipeline)

\* No event vanishes: each one is held, was received by NATS, or was given up
\* for one of the reasons the code has (full channel, age, a core publish
\* whose error is ignored).
Accounted ==
  \A e \in 1..emitted :
    e \in Range(Pipeline) \cup Range(sent) \cup overflow \cup expired \cup unacked

\* NATS receives events in the order of emission, except that an event whose
\* live JetStream publish failed may come after later ones.
OrderedUnlessNacked ==
  \A i, j \in DOMAIN sent : i < j /\ sent[i] > sent[j] => sent[j] \in nacked

\* "On reconnect the buffer is drained into NATS before resuming live
\* publishing": while publishing live, the buffer holds nothing but events
\* whose live publish failed.
BacklogReplayedFirst ==
  pc \in {"replay", "publish", "received", "send", "recheck"} => Range(Ids(edgeBuf)) \subseteq nacked

\* At most three copies of an event reach NATS: a live publish whose
\* acknowledgement is lost, and two in the replay that follows.
AtMostThreeCopies ==
  \A e \in 1..emitted : Cardinality({i \in DOMAIN sent : sent[i] = e}) <= 3

\* A push evicts what is expired and nothing else: no expired entry is left, although
\* eviction stops at the first entry that is not expired (the buffer is ordered by age), and
\* an entry that is at most MaxAge old leaves the buffer only through drain.
EvictsExpired ==
  [][ /\ Len(edgeBuf') > 0 /\ edgeBuf' # edgeBuf =>
           \A i \in DOMAIN edgeBuf' : ~(edgeBuf'[i].at < clock - MaxAge)
      /\ \A i \in DOMAIN edgeBuf :
           edgeBuf[i].at >= clock - MaxAge => edgeBuf[i] \in Range(edgeBuf') \/ pc = "drain" ]_vars

\* agent.go says the buffer "is drained into NATS" on reconnect: an event that
\* drain handed out is not given up.
DrainReachesNATS == [][pc = "replay" => unacked' = unacked]_vars

\* The publisher implements the event queue: its backlog is everything the
\* agent holds, an event is delivered once NATS received it.
Queue == INSTANCE EventQueue WITH
  offered   <- emitted,
  backlog   <- Pipeline,
  delivered <- Range(sent),
  dropped   <- overflow \cup expired \cup unacked

\* Every step of the publisher is a step of that queue or leaves it alone: a
\* hand-over between the agent's channel, list and buffer is invisible.
ImplementsQueue == Queue!Spec

\* Whatever state the connection is in, the queue of the collectors is always
\* emptied again: no mode of the loop leaves the channel unserved.
ChannelServed == eventCh # <<>> ~> (eventCh = <<>> \/ pc = "done")

\* Cancelling the context ends the loop, from every place in it.
CancelEnds == cancelled ~> pc = "done"
=============================================================================
