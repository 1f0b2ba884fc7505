-------------------------- MODULE Telemetry_proofs --------------------------
(***************************************************************************)
(* Proofs about the telemetry publisher, for every channel capacity,       *)
(* maximal age, transport configuration and number of events.              *)
(***************************************************************************)
EXTENDS Telemetry, FiniteSetTheorems, TLAPS

-----------------------------------------------------------------------------
\* Facts about the buffer's operators and about sequences.

\* The entries of a buffer have an event number and a time.
LEMMA EntryType ==
  ASSUME NEW buf \in Seq(Entry), NEW i \in DOMAIN buf
  PROVE  buf[i] \in Entry /\ buf[i].id \in Nat /\ buf[i].at \in Nat
<1>1. buf[i] \in Entry
  OBVIOUS
<1>2. \A x \in Entry : x.id \in Nat /\ x.at \in Nat
  BY DEF Entry
<1> QED BY <1>1, <1>2

\* push keeps the buffer a sequence of entries and only records numbers of
\* events as expired.
LEMMA PushType ==
  ASSUME TypeOK, NEW e \in Nat, Push(e)
  PROVE  edgeBuf' \in Seq(Entry) /\ expired' \subseteq Nat
<1>1. PICK k \in 0..Len(edgeBuf) :
        /\ edgeBuf' = Pushed(edgeBuf, k, e, clock)
        /\ expired' = expired \cup {edgeBuf[i].id : i \in 1..k}
  BY DEF Push
<1>2. edgeBuf \in Seq(Entry) /\ clock \in Nat /\ expired \subseteq Nat
  BY DEF TypeOK
<1>3. [id |-> e, at |-> clock] \in Entry
  BY <1>2 DEF Entry
<1>4. SubSeq(edgeBuf, k + 1, Len(edgeBuf)) \in Seq(Entry)
  BY <1>2
<1>5. edgeBuf' \in Seq(Entry)
  BY <1>1, <1>3, <1>4 DEF Pushed
<1>6. \A i \in 1..k : edgeBuf[i].id \in Nat
  <2> TAKE i \in 1..k
  <2>1. i \in DOMAIN edgeBuf
    BY <1>2
  <2> QED BY <1>2, <2>1, EntryType
<1> QED BY <1>1, <1>2, <1>5, <1>6

\* Publishing appends a finite number of copies of an event to what arrived.
LEMMA ArriveType ==
  ASSUME sent \in Seq(Nat), NEW e \in Nat, NEW n \in Nat, Arrive(e, n)
  PROVE  sent' \in Seq(Nat)
<1>1. [i \in 1..n |-> e] \in Seq(Nat)
  OBVIOUS
<1> QED BY <1>1 DEF Arrive

\* drain returns a sequence of event numbers.
LEMMA DrainType ==
  ASSUME NEW buf \in Seq(Entry), NEW now \in Nat,
         NEW positions \in Listings(Kept(buf, now))
  PROVE  /\ Kept(buf, now) \subseteq DOMAIN buf
         /\ Cardinality(Kept(buf, now)) \in Nat
         /\ positions \in [1..Cardinality(Kept(buf, now)) -> DOMAIN buf]
         /\ Range(positions) = Kept(buf, now)
         /\ \A i, j \in DOMAIN positions : i < j => positions[i] < positions[j]
         /\ Drained(buf, positions) \in Seq(Nat)
         /\ Len(Drained(buf, positions)) = Cardinality(Kept(buf, now))
<1>1. Kept(buf, now) \subseteq DOMAIN buf
  BY DEF Kept
<1>2. IsFiniteSet(1..Len(buf))
  BY FS_Interval
<1>3. IsFiniteSet(Kept(buf, now))
  BY <1>1, <1>2, FS_Subset
<1>4. Cardinality(Kept(buf, now)) \in Nat
  BY <1>3, FS_CardinalityType
<1>5. /\ positions \in [1..Cardinality(Kept(buf, now)) -> DOMAIN buf]
      /\ Range(positions) = Kept(buf, now)
      /\ \A i, j \in DOMAIN positions : i < j => positions[i] < positions[j]
  BY <1>1 DEF Listings
<1>6. \A i \in DOMAIN buf : buf[i].id \in Nat
  BY EntryType
<1>7. /\ Drained(buf, positions) \in Seq(Nat)
      /\ Len(Drained(buf, positions)) = Cardinality(Kept(buf, now))
  BY <1>4, <1>5, <1>6 DEF Drained
<1> QED BY <1>1, <1>4, <1>5, <1>7

-----------------------------------------------------------------------------
\* Type correctness.

\* The event in hand is a number, and there is just one.
LEMMA InHand ==
  ASSUME TypeOK, pc \in {"received", "send"}
  PROVE  Head(payload) \in Nat /\ payload # <<>> /\ DOMAIN payload = {1}
<1>1. payload \in Seq(Nat) /\ Len(payload) = 1
  BY DEF TypeOK
<1> QED BY <1>1

LEMMA InitType == Init => TypeOK
<1>1. <<>> \in Seq(Nat) /\ <<>> \in Seq(Entry) /\ Len(<<>>) = 0
  OBVIOUS
<1>2. 0 <= ChanCap
  BY TelemetryAssumption
<1> SUFFICES ASSUME Init PROVE TypeOK
  OBVIOUS
<1>3. /\ clock \in Nat /\ emitted \in Nat
      /\ eventCh \in Seq(Nat) /\ Len(eventCh) <= ChanCap
      /\ edgeBuf \in Seq(Entry)
      /\ replay \in Seq(Nat) /\ payload \in Seq(Nat) /\ sent \in Seq(Nat)
  BY <1>1, <1>2 DEF Init
<1>4. /\ hasFallback \in BOOLEAN /\ connected \in BOOLEAN /\ js \in BOOLEAN /\ cancelled \in BOOLEAN
      /\ nacked \subseteq Nat /\ overflow \subseteq Nat
      /\ expired \subseteq Nat /\ unacked \subseteq Nat
      /\ pc \in PC
  BY TelemetryAssumption DEF Init, PC
<1>5. /\ Len(payload) = IF pc \in {"received", "send"} THEN 1 ELSE 0
      /\ replay # <<>> => pc = "replay"
  BY <1>1 DEF Init
<1> QED BY <1>3, <1>4, <1>5 DEF TypeOK

\* TypeOK is inductive: no step of the publisher, the collectors or the
\* network leaves the types, overfills eventCh or forgets the event in hand.
LEMMA NextType == TypeOK /\ [Next]_vars => TypeOK'
<1> SUFFICES ASSUME TypeOK, [Next]_vars PROVE TypeOK'
  OBVIOUS
<1> USE TelemetryAssumption DEF world, queues, link, history
<1>1. CASE Emit
  <2>1. emitted \in Nat /\ eventCh \in Seq(Nat) /\ overflow \subseteq Nat /\ Len(eventCh) <= ChanCap
    BY DEF TypeOK
  <2>2. emitted' = emitted + 1 /\ emitted + 1 \in Nat
    BY <1>1, <2>1 DEF Emit
  <2>3. \/ Len(eventCh) < ChanCap /\ eventCh' = Append(eventCh, emitted + 1) /\ UNCHANGED overflow
        \/ overflow' = overflow \cup {emitted + 1} /\ UNCHANGED eventCh
    BY <1>1 DEF Emit
  <2>4. overflow' \subseteq Nat
    BY <2>1, <2>2, <2>3
  <2>5. eventCh' \in Seq(Nat) /\ Len(eventCh') <= ChanCap
    BY <2>1, <2>3
  <2>6. UNCHANGED <<hasFallback, clock, cancelled, edgeBuf, replay, payload, pc, link, sent, nacked, expired, unacked>>
    BY <1>1 DEF Emit
  <2> QED BY <2>1, <2>2, <2>4, <2>5, <2>6 DEF TypeOK
<1>2. CASE Tick
  BY <1>2 DEF Tick, TypeOK
<1>3. CASE Disconnect
  BY <1>3 DEF Disconnect, TypeOK
<1>4. CASE Cancel
  BY <1>4 DEF Cancel, TypeOK
<1>5. CASE Return \/ ConnectErr \/ ReplayDone \/ PublishCancelled \/ FallbackInterval
  BY <1>5 DEF Return, ConnectErr, ReplayDone, PublishCancelled, FallbackInterval,
     Step, Goto, TypeOK, PC
<1>6. CASE ConnectOK
  BY <1>6 DEF ConnectOK, Goto, TypeOK, PC
<1>7. ASSUME NEW from, NEW next, Stash(from, next),
             from \in {"fallback", "buffer"}, next \in {"fallback_wait", "backoff"}
      PROVE  TypeOK'
  <2>1. CASE eventCh = <<>> /\ Step(from, next)
    BY <1>7, <2>1 DEF Step, Goto, TypeOK, PC
  <2>2. CASE /\ eventCh # <<>> /\ Goto(from, from)
             /\ Push(Head(eventCh))
             /\ eventCh' = Tail(eventCh)
             /\ UNCHANGED <<world, replay, payload, link, sent, nacked, overflow, unacked>>
    <3>1. Head(eventCh) \in Nat /\ Tail(eventCh) \in Seq(Nat) /\ Len(Tail(eventCh)) <= ChanCap
      <4>1. eventCh \in Seq(Nat) /\ eventCh # <<>> /\ Len(eventCh) <= ChanCap /\ ChanCap \in Nat
        BY <2>2, TelemetryAssumption DEF TypeOK
      <4> HIDE <2>2
      <4>2. Head(eventCh) \in Nat /\ Tail(eventCh) \in Seq(Nat) /\ Len(Tail(eventCh)) = Len(eventCh) - 1
        BY <4>1
      <4>3. Len(eventCh) \in Nat
        BY <4>1
      <4> QED BY <4>1, <4>2, <4>3
    <3>2. edgeBuf' \in Seq(Entry) /\ expired' \subseteq Nat
      BY <2>2, <3>1, PushType
    <3> QED BY <1>7, <2>2, <3>1, <3>2 DEF Goto, TypeOK, PC
  <2> QED BY <1>7, <2>1, <2>2 DEF Stash
<1>8. CASE WaitEnds
  BY <1>8 DEF WaitEnds, TypeOK, PC
<1>9. CASE Drain
  <2>1. PICK positions \in Listings(Kept(edgeBuf, clock)) : replay' = Drained(edgeBuf, positions)
    BY <1>9 DEF Drain
  <2>2. replay' \in Seq(Nat)
    BY <2>1, DrainType DEF TypeOK
  <2>3. {edgeBuf[i].id : i \in DOMAIN edgeBuf \ Kept(edgeBuf, clock)} \subseteq Nat
    BY EntryType DEF TypeOK
  <2>4. expired' \subseteq Nat
    BY <1>9, <2>3 DEF Drain, TypeOK
  <2>5. pc' \in PC /\ pc' = "replay" /\ pc = "drain" /\ edgeBuf' = <<>>
    BY <1>9 DEF Drain, Goto, PC
  <2>6. UNCHANGED <<world, eventCh, payload, link, sent, nacked, overflow, unacked>>
    BY <1>9 DEF Drain
  <2> QED BY <2>2, <2>4, <2>5, <2>6 DEF TypeOK
<1>10. CASE ReplayOne
  <2>1. Head(replay) \in Nat /\ Tail(replay) \in Seq(Nat)
    BY <1>10 DEF ReplayOne, TypeOK
  <2>2. sent' \in Seq(Nat)
    BY <1>10, <2>1, ArriveType DEF ReplayOne, ReplayCopies, TypeOK
  <2> QED BY <1>10, <2>1, <2>2 DEF ReplayOne, Goto, TypeOK, PC
<1>11. CASE Receive
  BY <1>11 DEF Receive, Goto, TypeOK, PC
<1>12. CASE NotConnected
  <2>1. Head(payload) \in Nat
    BY <1>12, InHand DEF NotConnected, Goto
  <2>2. edgeBuf' \in Seq(Entry) /\ expired' \subseteq Nat
    BY <1>12, <2>1, PushType DEF NotConnected
  <2> QED BY <1>12, <2>2 DEF NotConnected, Goto, TypeOK, PC
<1>13. CASE Connected
  BY <1>13 DEF Connected, Step, Goto, TypeOK, PC
<1>14. CASE PublishAcked
  <2>1. Head(payload) \in Nat
    BY <1>14, InHand DEF PublishAcked, Goto
  <2>2. sent' \in Seq(Nat)
    BY <1>14, <2>1, ArriveType DEF PublishAcked, TypeOK
  <2> QED BY <1>14, <2>2 DEF PublishAcked, Goto, TypeOK, PC
<1>15. CASE PublishErr
  <2>1. Head(payload) \in Nat
    BY <1>15, InHand DEF PublishErr, Goto
  <2>2. edgeBuf' \in Seq(Entry) /\ expired' \subseteq Nat
    BY <1>15, <2>1, PushType DEF PublishErr
  <2>3. sent' \in Seq(Nat)
    BY <1>15, <2>1, ArriveType DEF PublishErr, TypeOK
  <2> QED BY <1>15, <2>1, <2>2, <2>3 DEF PublishErr, Goto, TypeOK, PC
<1>16. CASE Recheck
  BY <1>16 DEF Recheck, TypeOK, PC
<1>17. CASE PublishCore
  <2>1. Head(payload) \in Nat
    BY <1>17, InHand DEF PublishCore, Goto
  <2>2. sent' \in Seq(Nat)
    BY <1>17, <2>1, ArriveType DEF PublishCore, TypeOK
  <2> QED BY <1>17, <2>1, <2>2 DEF PublishCore, Goto, TypeOK, PC
<1>18. CASE Close
  BY <1>18 DEF Close, Goto, TypeOK, PC
<1>19. CASE UNCHANGED vars
  BY <1>19 DEF vars, TypeOK
<1> QED
  BY <1>1, <1>2, <1>3, <1>4, <1>5, <1>6, <1>7, <1>8, <1>9, <1>10, <1>11, <1>12,
     <1>13, <1>14, <1>15, <1>16, <1>17, <1>18, <1>19
  DEF Next, Publisher, Environment, FallbackDrain, BufferFromChannel

\* Type correctness of the publisher, for every channel capacity, maximal age
\* and number of events: the channel never exceeds its capacity and the
\* publisher holds one event exactly between the receive and the publish.
THEOREM TypeCorrect == Spec => []TypeOK
BY InitType, NextType, PTL DEF Spec

-----------------------------------------------------------------------------
\* Sequences as sets and in order.

LEMMA EmptyRange == Range(<<>>) = {} /\ Ascending(<<>>)
BY DEF Range, Ascending

LEMMA TailFacts ==
  ASSUME NEW s \in Seq(Nat), s # <<>>
  PROVE  /\ Head(s) \in Nat /\ Tail(s) \in Seq(Nat)
         /\ Range(s) = {Head(s)} \cup Range(Tail(s))
         /\ Ascending(s) => Ascending(Tail(s)) /\ \A x \in Range(Tail(s)) : Head(s) < x
<1>1. /\ Len(s) \in Nat \ {0} /\ DOMAIN s = 1..Len(s) /\ Head(s) = s[1]
      /\ Tail(s) \in Seq(Nat) /\ DOMAIN Tail(s) = 1..(Len(s) - 1)
      /\ \A i \in 1..(Len(s) - 1) : Tail(s)[i] = s[i + 1]
  OBVIOUS
<1>2. Range(s) \subseteq {Head(s)} \cup Range(Tail(s))
  <2> SUFFICES ASSUME NEW i \in 1..Len(s) PROVE s[i] \in {Head(s)} \cup Range(Tail(s))
    BY <1>1 DEF Range
  <2>1. CASE i = 1
    BY <1>1, <2>1
  <2>2. CASE i # 1
    <3>1. i - 1 \in DOMAIN Tail(s) /\ Tail(s)[i - 1] = s[i]
      BY <1>1, <2>2
    <3> QED BY <3>1 DEF Range
  <2> QED BY <2>1, <2>2
<1>3. {Head(s)} \cup Range(Tail(s)) \subseteq Range(s)
  <2>1. \A i \in 1..(Len(s) - 1) : Tail(s)[i] = s[i + 1] /\ i + 1 \in DOMAIN s
    BY <1>1
  <2> QED BY <1>1, <2>1 DEF Range
<1>4. ASSUME Ascending(s)
      PROVE  Ascending(Tail(s)) /\ \A x \in Range(Tail(s)) : Head(s) < x
  <2>1. \A i, j \in 1..Len(s) : i < j => s[i] < s[j]
    BY <1>1, <1>4 DEF Ascending
  <2>2. \A i, j \in 1..(Len(s) - 1) : i < j => Tail(s)[i] < Tail(s)[j]
    BY <1>1, <2>1
  <2>3. \A i \in 1..(Len(s) - 1) : s[1] < Tail(s)[i]
    BY <1>1, <2>1
  <2> QED BY <1>1, <2>2, <2>3 DEF Ascending, Range
<1> QED BY <1>1, <1>2, <1>3, <1>4

LEMMA AppendFacts ==
  ASSUME NEW s \in Seq(Nat), NEW e \in Nat
  PROVE  /\ Append(s, e) \in Seq(Nat)
         /\ Range(Append(s, e)) = Range(s) \cup {e}
         /\ Ascending(s) /\ (\A x \in Range(s) : x < e) => Ascending(Append(s, e))
<1>1. /\ Len(s) \in Nat /\ DOMAIN s = 1..Len(s)
      /\ Append(s, e) \in Seq(Nat) /\ DOMAIN Append(s, e) = 1..(Len(s) + 1)
      /\ \A i \in 1..Len(s) : Append(s, e)[i] = s[i]
      /\ Append(s, e)[Len(s) + 1] = e
  OBVIOUS
<1>2. Range(Append(s, e)) \subseteq Range(s) \cup {e}
  <2> SUFFICES ASSUME NEW i \in 1..(Len(s) + 1) PROVE Append(s, e)[i] \in Range(s) \cup {e}
    BY <1>1 DEF Range
  <2>1. i \in 1..Len(s) \/ i = Len(s) + 1
    BY <1>1
  <2> QED BY <1>1, <2>1 DEF Range
<1>3. Range(s) \cup {e} \subseteq Range(Append(s, e))
  <2>1. 1..Len(s) \subseteq 1..(Len(s) + 1) /\ Len(s) + 1 \in 1..(Len(s) + 1)
    BY <1>1
  <2> QED BY <1>1, <2>1 DEF Range
<1>4. ASSUME Ascending(s), \A x \in Range(s) : x < e
      PROVE  Ascending(Append(s, e))
  <2>1. \A i, j \in 1..Len(s) : i < j => s[i] < s[j]
    BY <1>1, <1>4 DEF Ascending
  <2>2. \A i \in 1..Len(s) : s[i] < e
    BY <1>1, <1>4 DEF Range
  <2>3. \A i, j \in 1..(Len(s) + 1) : i < j => Append(s, e)[i] < Append(s, e)[j]
    BY <1>1, <2>1, <2>2
  <2> QED BY <1>1, <2>3 DEF Ascending
<1> QED BY <1>1, <1>2, <1>3, <1>4

LEMMA IdsFacts ==
  ASSUME NEW buf \in Seq(Entry)
  PROVE  /\ Ids(buf) \in Seq(Nat) /\ DOMAIN Ids(buf) = 1..Len(buf) /\ Len(Ids(buf)) = Len(buf)
         /\ \A i \in 1..Len(buf) : Ids(buf)[i] = buf[i].id
         /\ Range(Ids(buf)) = {buf[i].id : i \in 1..Len(buf)}
<1>1. \A i \in DOMAIN buf : buf[i].id \in Nat
  BY EntryType
<1>2. DOMAIN buf = 1..Len(buf) /\ Len(buf) \in Nat
  OBVIOUS
<1>3. Ids(buf) = [i \in 1..Len(buf) |-> buf[i].id]
  BY <1>2 DEF Ids
<1>4. Ids(buf) \in Seq(Nat) /\ Len(Ids(buf)) = Len(buf)
  BY <1>1, <1>2, <1>3
<1> QED BY <1>3, <1>4 DEF Range

\* push keeps the order of the buffer, keeps nothing but old entries and the
\* new event, and records every event it evicts.
LEMMA PushFacts ==
  ASSUME TypeOK, NEW e \in Nat, Push(e)
  PROVE  /\ Range(Ids(edgeBuf')) \subseteq Range(Ids(edgeBuf)) \cup {e}
         /\ e \in Range(Ids(edgeBuf'))
         /\ Range(Ids(edgeBuf)) \subseteq Range(Ids(edgeBuf')) \cup expired'
         /\ expired \subseteq expired'
         /\ Ascending(Ids(edgeBuf)) /\ (\A x \in Range(Ids(edgeBuf)) : x < e)
               => Ascending(Ids(edgeBuf'))
<1>1. PICK k \in 0..Len(edgeBuf) :
        /\ edgeBuf' = Append(SubSeq(edgeBuf, k + 1, Len(edgeBuf)), [id |-> e, at |-> clock])
        /\ expired' = expired \cup {edgeBuf[i].id : i \in 1..k}
  BY DEF Push, Pushed
<1>2. edgeBuf \in Seq(Entry) /\ edgeBuf' \in Seq(Entry) /\ Len(edgeBuf) \in Nat
  BY PushType DEF TypeOK
<1> DEFINE n == Len(edgeBuf)
<1>3. /\ Len(SubSeq(edgeBuf, k + 1, n)) = n - k
      /\ \A i \in 1..(n - k) : SubSeq(edgeBuf, k + 1, n)[i] = edgeBuf[i + k]
      /\ SubSeq(edgeBuf, k + 1, n) \in Seq(Entry)
  BY <1>2
<1>4. /\ Len(edgeBuf') = n - k + 1
      /\ \A i \in 1..(n - k) : edgeBuf'[i] = edgeBuf[i + k]
      /\ edgeBuf'[n - k + 1] = [id |-> e, at |-> clock]
  BY <1>1, <1>2, <1>3
<1>5. /\ Range(Ids(edgeBuf)) = {edgeBuf[i].id : i \in 1..n}
      /\ Range(Ids(edgeBuf')) = {edgeBuf'[i].id : i \in 1..(n - k + 1)}
      /\ \A i \in 1..n : Ids(edgeBuf)[i] = edgeBuf[i].id /\ Ids(edgeBuf)[i] \in Nat
      /\ \A i \in 1..(n - k + 1) : Ids(edgeBuf')[i] = edgeBuf'[i].id
      /\ DOMAIN Ids(edgeBuf) = 1..n /\ DOMAIN Ids(edgeBuf') = 1..(n - k + 1)
  <2>1. /\ Range(Ids(edgeBuf)) = {edgeBuf[i].id : i \in 1..n}
        /\ \A i \in 1..n : Ids(edgeBuf)[i] = edgeBuf[i].id
        /\ DOMAIN Ids(edgeBuf) = 1..n
    BY <1>2, IdsFacts
  <2>2. \A i \in 1..n : Ids(edgeBuf)[i] \in Nat
    BY <1>2, <2>1, EntryType
  <2>3. /\ Range(Ids(edgeBuf')) = {edgeBuf'[i].id : i \in 1..Len(edgeBuf')}
        /\ \A i \in 1..Len(edgeBuf') : Ids(edgeBuf')[i] = edgeBuf'[i].id
        /\ DOMAIN Ids(edgeBuf') = 1..Len(edgeBuf')
    BY <1>2, IdsFacts
  <2> QED BY <1>4, <2>1, <2>2, <2>3
<1>6. edgeBuf'[n - k + 1].id = e
  BY <1>4
<1>7. Range(Ids(edgeBuf')) \subseteq Range(Ids(edgeBuf)) \cup {e}
  <2> SUFFICES ASSUME NEW i \in 1..(n - k + 1)
               PROVE edgeBuf'[i].id \in {edgeBuf[j].id : j \in 1..n} \cup {e}
    BY <1>5
  <2>1. CASE i \in 1..(n - k)
    <3>1. i + k \in 1..n
      BY <1>2, <2>1
    <3> QED BY <1>4, <2>1, <3>1
  <2>2. CASE i = n - k + 1
    BY <1>6, <2>2
  <2>3. i \in 1..(n - k) \/ i = n - k + 1
    BY <1>2
  <2> QED BY <2>1, <2>2, <2>3
<1>8. e \in Range(Ids(edgeBuf'))
  BY <1>2, <1>5, <1>6
<1>9. Range(Ids(edgeBuf)) \subseteq Range(Ids(edgeBuf')) \cup expired'
  <2> SUFFICES ASSUME NEW i \in 1..n
               PROVE edgeBuf[i].id \in {edgeBuf'[j].id : j \in 1..(n - k + 1)} \cup expired'
    BY <1>5
  <2>1. CASE i \in 1..k
    BY <1>1, <2>1
  <2>2. CASE i > k
    <3>1. i - k \in 1..(n - k) /\ i - k \in 1..(n - k + 1) /\ (i - k) + k = i
      BY <1>2, <2>2
    <3>2. edgeBuf'[i - k] = edgeBuf[i]
      BY <1>4, <3>1
    <3> QED BY <3>1, <3>2
  <2> QED BY <1>2, <2>1, <2>2
<1>10. ASSUME Ascending(Ids(edgeBuf)), \A x \in Range(Ids(edgeBuf)) : x < e
       PROVE  Ascending(Ids(edgeBuf'))
  <2>1. \A i, j \in 1..n : i < j => edgeBuf[i].id < edgeBuf[j].id
    BY <1>5, <1>10 DEF Ascending
  <2>2. \A i \in 1..n : edgeBuf[i].id < e
    BY <1>5, <1>10
  <2> SUFFICES ASSUME NEW i \in 1..(n - k + 1), NEW j \in 1..(n - k + 1), i < j
               PROVE  edgeBuf'[i].id < edgeBuf'[j].id
    BY <1>5 DEF Ascending
  <2>3. i \in 1..(n - k) /\ i + k \in 1..n /\ edgeBuf'[i] = edgeBuf[i + k]
    BY <1>2, <1>4
  <2>4. CASE j \in 1..(n - k)
    <3>1. j + k \in 1..n /\ i + k < j + k /\ edgeBuf'[j] = edgeBuf[j + k]
      BY <1>2, <1>4, <2>4
    <3> QED BY <2>1, <2>3, <3>1
  <2>5. CASE j = n - k + 1
    BY <1>6, <2>2, <2>3, <2>5
  <2> QED BY <1>2, <2>4, <2>5
<1> QED BY <1>1, <1>7, <1>8, <1>9, <1>10

\* drain returns, in order, exactly the entries it does not drop.
LEMMA DrainFacts ==
  ASSUME NEW buf \in Seq(Entry), NEW now \in Nat,
         NEW positions \in Listings(Kept(buf, now))
  PROVE  /\ Range(Drained(buf, positions)) \subseteq Range(Ids(buf))
         /\ Range(Ids(buf)) \subseteq Range(Drained(buf, positions))
                \cup {buf[i].id : i \in DOMAIN buf \ Kept(buf, now)}
         /\ Ascending(Ids(buf)) => Ascending(Drained(buf, positions))
<1> DEFINE K == Kept(buf, now)
           D == Drained(buf, positions)
<1>1. /\ K \subseteq DOMAIN buf /\ Cardinality(K) \in Nat
      /\ positions \in [1..Cardinality(K) -> DOMAIN buf]
      /\ Range(positions) = K
      /\ \A i, j \in DOMAIN positions : i < j => positions[i] < positions[j]
  BY DrainType
<1>2. /\ DOMAIN D = DOMAIN positions
      /\ \A i \in DOMAIN positions : D[i] = buf[positions[i]].id /\ positions[i] \in DOMAIN buf
  BY <1>1 DEF Drained
<1>3. /\ DOMAIN Ids(buf) = DOMAIN buf
      /\ \A i \in DOMAIN buf : Ids(buf)[i] = buf[i].id
  BY DEF Ids
<1>4. Range(D) \subseteq Range(Ids(buf))
  BY <1>2, <1>3 DEF Range
<1>5. \A i \in K : buf[i].id \in Range(D)
  <2> TAKE i \in K
  <2>1. PICK m \in DOMAIN positions : positions[m] = i
    BY <1>1 DEF Range
  <2> QED BY <1>2, <2>1 DEF Range
<1>6. Range(Ids(buf)) \subseteq Range(D) \cup {buf[i].id : i \in DOMAIN buf \ K}
  BY <1>3, <1>5 DEF Range
<1>7. Ascending(Ids(buf)) => Ascending(D)
  BY <1>1, <1>2, <1>3 DEF Ascending
<1> QED BY <1>4, <1>6, <1>7

-----------------------------------------------------------------------------
\* Order and uniqueness inside the agent.

Before(S, T) == \A x \in S, y \in T : x < y

\* The inductive form of InOrder: each queue is ascending, each queue lies
\* before those that feed it, and nothing exceeds the last number emitted.
\* While events are being replayed the buffer is empty, because drain emptied
\* it and the publisher pushes nothing until the replay is over.
LineUp ==
  /\ Ascending(replay) /\ Ascending(Ids(edgeBuf)) /\ Ascending(eventCh)
  /\ Before(Range(replay), Range(eventCh))
  /\ Before(Range(Ids(edgeBuf)), Range(payload))
  /\ Before(Range(Ids(edgeBuf)), Range(eventCh))
  /\ Before(Range(payload), Range(eventCh))
  /\ \A x \in Range(replay) \cup Range(Ids(edgeBuf)) \cup Range(payload) \cup Range(eventCh) :
        x \in Nat /\ x <= emitted
  /\ pc = "replay" => edgeBuf = <<>>

\* The event in hand is the only element of payload.
LEMMA PayloadRange ==
  ASSUME TypeOK
  PROVE  /\ pc \in {"received", "send"} => Range(payload) = {Head(payload)}
         /\ pc \notin {"received", "send"} => payload = <<>> /\ Range(payload) = {}
<1>1. payload \in Seq(Nat)
  BY DEF TypeOK
<1>2. CASE pc \in {"received", "send"}
  BY <1>1, <1>2, InHand DEF Range
<1>3. CASE pc \notin {"received", "send"}
  <2>1. Len(payload) = 0
    BY <1>3 DEF TypeOK
  <2> QED BY <1>1, <1>3, <2>1, EmptyRange
<1> QED BY <1>2, <1>3

LEMMA IdsEmpty == Ids(<<>>) = <<>>
BY DEF Ids

LEMMA InitLineUp == Init => LineUp
BY EmptyRange, IdsEmpty DEF Init, LineUp, Before

\* Moving the head of the channel to the end of the buffer, as the fallback
\* and bufferFromChannel do, keeps the line-up.
LEMMA StashLineUp ==
  ASSUME TypeOK, TypeOK', LineUp, NEW from, NEW next, Stash(from, next),
         from \in {"fallback", "buffer"}, next \in {"fallback_wait", "backoff"}
  PROVE  LineUp'
<1>1. CASE eventCh = <<>> /\ Step(from, next)
  BY <1>1 DEF Step, Goto, LineUp, Before, world, queues, link, history
<1>2. CASE eventCh # <<>> /\ Goto(from, from) /\ Push(Head(eventCh)) /\ eventCh' = Tail(eventCh)
           /\ UNCHANGED <<world, replay, payload, link, sent, nacked, overflow, unacked>>
  <2> DEFINE e == Head(eventCh)
  <2>1. /\ e \in Nat /\ Range(eventCh) = {e} \cup Range(eventCh')
        /\ Ascending(eventCh') /\ \A x \in Range(eventCh') : e < x
    BY <1>2, TailFacts DEF TypeOK, LineUp
  <2>2. \A x \in Range(Ids(edgeBuf)) : x < e
    BY <2>1 DEF LineUp, Before
  <2>3. /\ Range(Ids(edgeBuf')) \subseteq Range(Ids(edgeBuf)) \cup {e}
        /\ Ascending(Ids(edgeBuf'))
    BY <1>2, <2>1, <2>2, PushFacts DEF LineUp
  <2>4. /\ pc = from /\ pc' = from /\ pc' # "replay" /\ UNCHANGED <<replay, payload, emitted>>
    BY <1>2 DEF Goto, world
  <2>5. payload' = <<>> /\ Range(payload') = {}
    BY <2>4, PayloadRange
  <2>6. Before(Range(replay'), Range(eventCh')) /\ Before(Range(Ids(edgeBuf')), Range(eventCh'))
    BY <2>1, <2>3, <2>4 DEF LineUp, Before
  <2> QED BY <2>1, <2>3, <2>4, <2>5, <2>6 DEF LineUp, Before
<1> QED BY <1>1, <1>2 DEF Stash

\* Moving the event in hand to the end of the buffer keeps the line-up.
LEMMA PutBackLineUp ==
  ASSUME TypeOK, LineUp, pc \in {"received", "send"}, Push(Head(payload)), pc' # "replay",
         payload' = <<>>, UNCHANGED <<emitted, eventCh, replay>>
  PROVE  LineUp'
<1> DEFINE e == Head(payload)
<1>1. e \in Nat /\ Range(payload) = {e}
  BY InHand, PayloadRange
<1>2. \A x \in Range(Ids(edgeBuf)) : x < e
  BY <1>1 DEF LineUp, Before
<1>3. /\ Range(Ids(edgeBuf')) \subseteq Range(Ids(edgeBuf)) \cup {e}
      /\ Ascending(Ids(edgeBuf'))
  BY <1>1, <1>2, PushFacts DEF LineUp
<1>4. Range(payload') = {}
  BY EmptyRange
<1>5. Before(Range(Ids(edgeBuf')), Range(eventCh'))
  BY <1>1, <1>3 DEF LineUp, Before
<1> QED BY <1>1, <1>3, <1>4, <1>5 DEF LineUp, Before

\* Giving the event in hand away keeps the line-up.
LEMMA HandOverLineUp ==
  ASSUME LineUp, pc' # "replay", payload' = <<>>, UNCHANGED <<emitted, eventCh, edgeBuf, replay>>
  PROVE  LineUp'
BY EmptyRange DEF LineUp, Before

\* LineUp is inductive.
LEMMA NextLineUp == TypeOK /\ TypeOK' /\ LineUp /\ [Next]_vars => LineUp'
<1> SUFFICES ASSUME TypeOK, TypeOK', LineUp, [Next]_vars PROVE LineUp'
  OBVIOUS
<1> USE DEF world, queues, link, history
<1>1. CASE Emit
  <2>1. emitted \in Nat /\ eventCh \in Seq(Nat) /\ emitted' = emitted + 1
    BY <1>1 DEF Emit, TypeOK
  <2>2. \A x \in Range(eventCh) : x < emitted + 1
    BY <2>1 DEF LineUp
  <2>3. UNCHANGED <<edgeBuf, replay, payload, pc>>
    BY <1>1 DEF Emit
  <2>4. CASE eventCh' = eventCh
    BY <2>1, <2>3, <2>4 DEF LineUp, Before
  <2>5. CASE eventCh' = Append(eventCh, emitted + 1)
    <3>1. Range(eventCh') = Range(eventCh) \cup {emitted + 1} /\ Ascending(eventCh')
      BY <2>1, <2>2, <2>5, AppendFacts DEF LineUp
    <3>2. \A x \in Range(replay) \cup Range(Ids(edgeBuf)) \cup Range(payload) : x \in Nat /\ x < emitted + 1
      BY <2>1 DEF LineUp
    <3> QED BY <2>1, <2>3, <3>1, <3>2 DEF LineUp, Before
  <2> QED BY <1>1, <2>4, <2>5 DEF Emit
<1>2. CASE Tick \/ Disconnect \/ Cancel \/ ConnectOK \/ WaitEnds \/ Recheck \/ Close
  <2>1. UNCHANGED <<queues, emitted>> /\ (pc' = "replay" => pc = "replay")
    BY <1>2 DEF Tick, Disconnect, Cancel, ConnectOK, WaitEnds, Recheck, Close, Goto
  <2> QED BY <2>1 DEF LineUp
<1>3. CASE Return \/ ConnectErr \/ ReplayDone \/ PublishCancelled \/ FallbackInterval \/ Connected
  <2>1. UNCHANGED <<queues, emitted>> /\ (pc' = "replay" => pc = "replay")
    BY <1>3 DEF Return, ConnectErr, ReplayDone, PublishCancelled, FallbackInterval, Connected, Step, Goto
  <2> QED BY <2>1 DEF LineUp
<1>4. CASE FallbackDrain \/ BufferFromChannel
  BY <1>4, StashLineUp DEF FallbackDrain, BufferFromChannel
<1>5. CASE Drain
  <2>1. PICK positions \in Listings(Kept(edgeBuf, clock)) : replay' = Drained(edgeBuf, positions)
    BY <1>5 DEF Drain
  <2>2. Range(replay') \subseteq Range(Ids(edgeBuf)) /\ Ascending(replay')
    BY <2>1, DrainFacts DEF TypeOK, LineUp
  <2>3. edgeBuf' = <<>> /\ pc = "drain" /\ UNCHANGED <<eventCh, payload, emitted>>
    BY <1>5 DEF Drain, Goto
  <2>4. Range(Ids(edgeBuf')) = {} /\ Ascending(Ids(edgeBuf'))
    BY <2>3, IdsEmpty, EmptyRange
  <2>5. Before(Range(replay'), Range(eventCh'))
    BY <2>2, <2>3 DEF LineUp, Before
  <2>6. \A x \in Range(replay') : x \in Nat /\ x <= emitted
    BY <2>2 DEF LineUp
  <2> QED BY <2>2, <2>3, <2>4, <2>5, <2>6 DEF LineUp, Before
<1>6. CASE ReplayOne
  <2>1. replay # <<>> /\ replay' = Tail(replay) /\ UNCHANGED <<emitted, eventCh, edgeBuf, payload, pc>>
    BY <1>6 DEF ReplayOne, Goto
  <2>2. Ascending(replay') /\ Range(replay') \subseteq Range(replay)
    BY <2>1, TailFacts DEF TypeOK, LineUp
  <2> QED BY <2>1, <2>2 DEF LineUp, Before
<1>7. CASE Receive
  <2> DEFINE e == Head(eventCh)
  <2>1. eventCh # <<>> /\ eventCh' = Tail(eventCh) /\ payload' = <<e>>
        /\ UNCHANGED <<emitted, edgeBuf, replay>> /\ pc' # "replay"
    BY <1>7 DEF Receive, Goto
  <2>2. /\ Range(eventCh) = {e} \cup Range(eventCh')
        /\ Ascending(eventCh') /\ \A x \in Range(eventCh') : e < x
    BY <2>1, TailFacts DEF TypeOK, LineUp
  <2>3. Range(payload') = {e}
    BY <2>1 DEF Range
  <2> QED BY <2>1, <2>2, <2>3 DEF LineUp, Before
<1>8. CASE NotConnected \/ PublishErr
  <2>1. /\ pc \in {"received", "send"} /\ Push(Head(payload)) /\ pc' # "replay" /\ payload' = <<>>
        /\ UNCHANGED <<emitted, eventCh, replay>>
    BY <1>8 DEF NotConnected, PublishErr, Goto
  <2> QED BY <2>1, PutBackLineUp
<1>9. CASE PublishAcked \/ PublishCore
  <2>1. pc' # "replay" /\ payload' = <<>> /\ UNCHANGED <<emitted, eventCh, edgeBuf, replay>>
    BY <1>9 DEF PublishAcked, PublishCore, Goto
  <2> QED BY <2>1, HandOverLineUp
<1>10. CASE UNCHANGED vars
  BY <1>10 DEF vars, LineUp
<1> QED
  BY <1>1, <1>2, <1>3, <1>4, <1>5, <1>6, <1>7, <1>8, <1>9, <1>10 DEF Next, Publisher, Environment

LEMMA LineUpInvariant == Spec => []LineUp
BY InitLineUp, NextLineUp, TypeCorrect, PTL DEF Spec

LEMMA ConcatFacts ==
  ASSUME NEW s \in Seq(Nat), NEW t \in Seq(Nat)
  PROVE  /\ s \o t \in Seq(Nat)
         /\ Range(s \o t) = Range(s) \cup Range(t)
         /\ Ascending(s) /\ Ascending(t) /\ Before(Range(s), Range(t)) => Ascending(s \o t)
<1> DEFINE m == Len(s)
           n == Len(t)
<1>1. /\ m \in Nat /\ n \in Nat /\ DOMAIN s = 1..m /\ DOMAIN t = 1..n
      /\ s \o t \in Seq(Nat) /\ DOMAIN (s \o t) = 1..(m + n)
      /\ \A i \in 1..m : (s \o t)[i] = s[i]
      /\ \A i \in (m + 1)..(m + n) : (s \o t)[i] = t[i - m]
  OBVIOUS
<1>2. \A i \in 1..(m + n) :
        \/ i \in 1..m /\ (s \o t)[i] = s[i]
        \/ i > m /\ i - m \in 1..n /\ (s \o t)[i] = t[i - m]
  <2> TAKE i \in 1..(m + n)
  <2>1. CASE i <= m
    <3>1. i \in 1..m
      BY <1>1, <2>1
    <3> QED BY <1>1, <3>1
  <2>2. CASE i > m
    <3>1. i \in (m + 1)..(m + n) /\ i - m \in 1..n
      BY <1>1, <2>2
    <3> QED BY <1>1, <2>2, <3>1
  <2> QED BY <1>1, <2>1, <2>2
<1>3. \A i \in 1..n : m + i \in 1..(m + n) /\ (s \o t)[m + i] = t[i]
  BY <1>1
<1>4. Range(s \o t) \subseteq Range(s) \cup Range(t)
  BY <1>1, <1>2 DEF Range
<1>5. Range(s) \cup Range(t) \subseteq Range(s \o t)
  <2>1. Range(s) \subseteq Range(s \o t)
    <3>1. 1..m \subseteq 1..(m + n)
      BY <1>1
    <3> QED BY <1>1, <3>1 DEF Range
  <2>2. \A i \in 1..n : t[i] \in Range(s \o t)
    <3> TAKE i \in 1..n
    <3>1. m + i \in DOMAIN (s \o t) /\ (s \o t)[m + i] = t[i]
      BY <1>1, <1>3
    <3> QED BY <3>1 DEF Range
  <2>3. Range(t) \subseteq Range(s \o t)
    BY <1>1, <2>2 DEF Range
  <2> QED BY <2>1, <2>3
<1>6. ASSUME Ascending(s), Ascending(t), Before(Range(s), Range(t))
      PROVE  Ascending(s \o t)
  <2>1. \A i \in 1..m, j \in 1..n : s[i] < t[j]
    BY <1>1, <1>6 DEF Before, Range
  <2> SUFFICES ASSUME NEW i \in 1..(m + n), NEW j \in 1..(m + n), i < j
               PROVE  (s \o t)[i] < (s \o t)[j]
    BY <1>1 DEF Ascending
  <2>2. CASE i \in 1..m /\ j \in 1..m
    BY <1>1, <1>6, <2>2 DEF Ascending
  <2>3. CASE i \in 1..m /\ j > m
    BY <1>1, <1>2, <2>1, <2>3
  <2>4. CASE i > m
    <3>1. i - m \in 1..n /\ j - m \in 1..n /\ i - m < j - m
      BY <1>1, <2>4
    <3>2. (s \o t)[i] = t[i - m] /\ (s \o t)[j] = t[j - m]
      BY <1>1, <1>2, <2>4
    <3>3. t[i - m] < t[j - m]
      BY <1>1, <1>6, <3>1 DEF Ascending
    <3> QED BY <3>2, <3>3
  <2> QED BY <1>1, <2>2, <2>3, <2>4
<1> QED BY <1>1, <1>4, <1>5, <1>6

LEMMA PipelineFacts ==
  ASSUME TypeOK
  PROVE  /\ Range(Pipeline) = Range(replay) \cup Range(Ids(edgeBuf)) \cup Range(payload) \cup Range(eventCh)
         /\ LineUp => InOrder
<1>1. replay \in Seq(Nat) /\ Ids(edgeBuf) \in Seq(Nat) /\ payload \in Seq(Nat) /\ eventCh \in Seq(Nat)
  BY IdsFacts DEF TypeOK
<1> DEFINE a == replay \o Ids(edgeBuf)
           b == a \o payload
<1>2. a \in Seq(Nat) /\ Range(a) = Range(replay) \cup Range(Ids(edgeBuf))
  BY <1>1, ConcatFacts
<1>3. b \in Seq(Nat) /\ Range(b) = Range(a) \cup Range(payload)
  BY <1>1, <1>2, ConcatFacts
<1>4. Range(b \o eventCh) = Range(b) \cup Range(eventCh)
  BY <1>1, <1>3, ConcatFacts
<1>5. ASSUME LineUp PROVE InOrder
  <2>1. replay # <<>> => Range(Ids(edgeBuf)) = {} /\ Range(payload) = {}
    BY <1>5, PayloadRange, IdsEmpty, EmptyRange DEF LineUp, TypeOK
  <2>2. Before(Range(replay), Range(Ids(edgeBuf))) /\ Before(Range(replay), Range(payload))
    BY <2>1, EmptyRange DEF Before
  <2>3. Ascending(payload)
    <3>1. CASE pc \in {"received", "send"}
      BY <3>1, InHand DEF Ascending
    <3>2. CASE pc \notin {"received", "send"}
      BY <3>2, PayloadRange, EmptyRange
    <3> QED BY <3>1, <3>2
  <2>4. Ascending(a)
    BY <1>1, <1>5, <2>2, ConcatFacts DEF LineUp
  <2>5. Before(Range(a), Range(payload))
    BY <1>2, <1>5, <2>2 DEF LineUp, Before
  <2>6. Ascending(b)
    BY <1>1, <1>2, <2>3, <2>4, <2>5, ConcatFacts
  <2>7. Before(Range(b), Range(eventCh))
    BY <1>2, <1>3, <1>5 DEF LineUp, Before
  <2>8. Ascending(b \o eventCh)
    BY <1>1, <1>3, <1>5, <2>6, <2>7, ConcatFacts DEF LineUp
  <2> QED BY <2>8 DEF InOrder, Pipeline
<1> QED BY <1>2, <1>3, <1>4, <1>5 DEF Pipeline

\* The agent holds no event twice, and what it holds is in order of emission:
\* no hand-over between channel, edge buffer, replay list and publisher
\* duplicates or reorders events, under any interleaving with the collectors,
\* the clock and the network.
THEOREM HeldInOrder == Spec => []InOrder
BY TypeCorrect, LineUpInvariant, PipelineFacts, PTL

-----------------------------------------------------------------------------
\* Order of arrival at NATS.

Held == Range(replay) \cup Range(Ids(edgeBuf)) \cup Range(payload) \cup Range(eventCh)

\* The inductive form of OrderedUnlessNacked: an event that is still held was
\* either published with an error or comes after everything that arrived.
Ahead ==
  /\ \A y \in Range(sent) : y \in Nat /\ y <= emitted
  /\ \A x \in Held \ nacked, y \in Range(sent) : y < x

ArrivalInv == BacklogReplayedFirst /\ Ahead /\ OrderedUnlessNacked

LEMMA InitArrival == Init => ArrivalInv
BY EmptyRange, IdsEmpty DEF Init, ArrivalInv, BacklogReplayedFirst, Ahead, OrderedUnlessNacked, Held

\* Copies of e appended to what arrived keep the arrival order when e is ahead
\* of everything that arrived or is recorded as having failed.
LEMMA ArriveOrder ==
  ASSUME sent \in Seq(Nat), NEW e \in Nat, NEW n \in Nat, Arrive(e, n), OrderedUnlessNacked,
         nacked \subseteq nacked', e \in nacked' \/ \A y \in Range(sent) : y < e
  PROVE  /\ OrderedUnlessNacked'
         /\ Range(sent) \subseteq Range(sent') /\ Range(sent') \subseteq Range(sent) \cup {e}
<1> DEFINE m == Len(sent)
           c == [i \in 1..n |-> e]
<1>1. /\ c \in Seq(Nat) /\ Len(c) = n /\ \A i \in 1..n : c[i] = e
  OBVIOUS
<1>2. m \in Nat /\ DOMAIN sent = 1..m /\ sent' = sent \o c
  BY DEF Arrive
<1>3. /\ DOMAIN sent' = 1..(m + n)
      /\ \A i \in 1..m : sent'[i] = sent[i]
      /\ \A i \in 1..(m + n) : i > m => sent'[i] = e
  BY <1>1, <1>2
<1>4. \A i \in 1..m : sent[i] \in Nat
  BY <1>2
<1>5. OrderedUnlessNacked'
  <2> SUFFICES ASSUME NEW i \in 1..(m + n), NEW j \in 1..(m + n), i < j, sent'[i] > sent'[j]
               PROVE  sent'[j] \in nacked'
    BY <1>3 DEF OrderedUnlessNacked
  <2>1. CASE j \in 1..m
    <3>1. i \in 1..m
      BY <1>2, <2>1
    <3> QED BY <1>2, <1>3, <2>1, <3>1 DEF OrderedUnlessNacked
  <2>2. CASE j > m /\ i \in 1..m
    <3>1. sent'[j] = e /\ sent'[i] = sent[i] /\ sent[i] > e /\ sent[i] \in Range(sent)
      BY <1>2, <1>3, <2>2 DEF Range
    <3>2. ~(\A y \in Range(sent) : y < e)
      BY <1>4, <2>2, <3>1
    <3> QED BY <3>1, <3>2
  <2>3. CASE i > m
    BY <1>2, <1>3, <2>3
  <2> QED BY <1>2, <2>1, <2>2, <2>3
<1>6. Range(sent) \subseteq Range(sent')
  <2>1. 1..m \subseteq 1..(m + n)
    BY <1>2
  <2> QED BY <1>2, <1>3, <2>1 DEF Range
<1>7. Range(sent') \subseteq Range(sent) \cup {e}
  <2>1. \A i \in 1..(m + n) : i \in 1..m \/ i > m
    BY <1>2
  <2> QED BY <1>2, <1>3, <2>1 DEF Range
<1> QED BY <1>5, <1>6, <1>7

\* Publishing a held event e keeps the arrival order if everything that is
\* still held afterwards, and did not fail, comes after e.
LEMMA ArriveKeepsInv ==
  ASSUME TypeOK, LineUp, Ahead, OrderedUnlessNacked,
         NEW e \in Held, NEW n \in Nat, Arrive(e, n),
         emitted' = emitted, nacked \subseteq nacked',
         \A x \in Held' \ nacked' : x \in Held /\ e < x
  PROVE  Ahead' /\ OrderedUnlessNacked'
<1>1. e \in Nat /\ e <= emitted
  BY DEF LineUp, Held
<1>2. e \in nacked' \/ \A y \in Range(sent) : y < e
  BY DEF Ahead
<1>3. /\ OrderedUnlessNacked'
      /\ Range(sent') \subseteq Range(sent) \cup {e}
  BY <1>1, <1>2, ArriveOrder DEF TypeOK
<1>4. \A y \in Range(sent') : y \in Nat /\ y <= emitted'
  BY <1>1, <1>3 DEF Ahead
<1>5. \A x \in Held' \ nacked', y \in Range(sent') : y < x
  BY <1>3 DEF Ahead
<1> QED BY <1>3, <1>4, <1>5 DEF Ahead

\* Steps that only move events inside the agent keep the arrival order.
LEMMA MoveKeepsInv ==
  ASSUME Ahead, OrderedUnlessNacked, Held' \subseteq Held, UNCHANGED <<emitted, sent, nacked>>
  PROVE  Ahead' /\ OrderedUnlessNacked'
BY DEF Ahead, OrderedUnlessNacked

LEMMA NextArrival == TypeOK /\ LineUp /\ ArrivalInv /\ [Next]_vars => ArrivalInv'
<1> SUFFICES ASSUME TypeOK, LineUp, ArrivalInv, [Next]_vars PROVE ArrivalInv'
  OBVIOUS
<1> USE DEF world, queues, link, history, ArrivalInv
<1>1. CASE Emit
  <2>1. emitted \in Nat /\ emitted' = emitted + 1 /\ UNCHANGED <<edgeBuf, replay, payload, pc, sent, nacked>>
    BY <1>1 DEF Emit, TypeOK
  <2>2. Range(eventCh') \subseteq Range(eventCh) \cup {emitted + 1}
    <3>1. CASE eventCh' = eventCh
      BY <3>1
    <3>2. CASE eventCh' = Append(eventCh, emitted + 1)
      BY <2>1, <3>2, AppendFacts DEF TypeOK
    <3> QED BY <1>1, <3>1, <3>2 DEF Emit
  <2>3. Held' \subseteq Held \cup {emitted + 1}
    BY <2>1, <2>2 DEF Held
  <2>4. Ahead'
    BY <2>1, <2>3 DEF Ahead
  <2> QED BY <2>1, <2>4 DEF BacklogReplayedFirst, OrderedUnlessNacked
<1>2. CASE Tick \/ Disconnect \/ Cancel \/ ConnectOK \/ WaitEnds \/ Recheck \/ Close
  <2>1. UNCHANGED <<queues, history, emitted>>
    BY <1>2 DEF Tick, Disconnect, Cancel, ConnectOK, WaitEnds, Recheck, Close
  <2>2. pc' = pc \/ pc' \notin {"replay", "publish", "received", "send", "recheck"}
          \/ pc = "recheck"
    BY <1>2 DEF Tick, Disconnect, Cancel, ConnectOK, WaitEnds, Recheck, Close, Goto
  <2> QED BY <2>1, <2>2 DEF BacklogReplayedFirst, Ahead, OrderedUnlessNacked, Held
<1>3. CASE Return \/ ConnectErr \/ ReplayDone \/ PublishCancelled \/ FallbackInterval \/ Connected
  <2>1. UNCHANGED <<queues, history, emitted>>
    BY <1>3 DEF Return, ConnectErr, ReplayDone, PublishCancelled, FallbackInterval, Connected, Step
  <2>2. pc' \notin {"replay", "publish", "received", "send", "recheck"} \/ pc \in {"replay", "received"}
    BY <1>3 DEF Return, ConnectErr, ReplayDone, PublishCancelled, FallbackInterval, Connected, Step, Goto
  <2> QED BY <2>1, <2>2 DEF BacklogReplayedFirst, Ahead, OrderedUnlessNacked, Held
<1>4. ASSUME NEW from, NEW next, Stash(from, next),
             from \in {"fallback", "buffer"}, next \in {"fallback_wait", "backoff"}
      PROVE  ArrivalInv'
  <2>1. pc' \notin {"replay", "publish", "received", "send", "recheck"} /\ UNCHANGED <<emitted, sent, nacked>>
    BY <1>4 DEF Stash, Step, Goto
  <2>2. Held' \subseteq Held
    <3>1. CASE Step(from, next)
      BY <3>1 DEF Step, Held
    <3>2. CASE eventCh # <<>> /\ Push(Head(eventCh)) /\ eventCh' = Tail(eventCh)
               /\ UNCHANGED <<world, replay, payload, link, sent, nacked, overflow, unacked>>
      <4>1. Head(eventCh) \in Nat /\ Range(eventCh) = {Head(eventCh)} \cup Range(eventCh')
        BY <3>2, TailFacts DEF TypeOK
      <4>2. Range(Ids(edgeBuf')) \subseteq Range(Ids(edgeBuf)) \cup {Head(eventCh)}
        BY <3>2, <4>1, PushFacts
      <4> QED BY <3>2, <4>1, <4>2 DEF Held
    <3> QED BY <1>4, <3>1, <3>2 DEF Stash
  <2> QED BY <2>1, <2>2, MoveKeepsInv DEF BacklogReplayedFirst
<1>5. CASE Drain
  <2>1. PICK positions \in Listings(Kept(edgeBuf, clock)) : replay' = Drained(edgeBuf, positions)
    BY <1>5 DEF Drain
  <2>2. Range(replay') \subseteq Range(Ids(edgeBuf))
    BY <2>1, DrainFacts DEF TypeOK
  <2>3. edgeBuf' = <<>> /\ UNCHANGED <<eventCh, payload, emitted, sent, nacked>>
    BY <1>5 DEF Drain
  <2>4. Range(Ids(edgeBuf')) = {}
    BY <2>3, IdsEmpty, EmptyRange
  <2>5. Held' \subseteq Held
    BY <2>2, <2>3, <2>4 DEF Held
  <2> QED BY <2>3, <2>4, <2>5, MoveKeepsInv DEF BacklogReplayedFirst
<1>6. CASE ReplayOne
  <2> DEFINE e == Head(replay)
  <2>1. /\ replay # <<>> /\ replay' = Tail(replay) /\ pc = "replay" /\ pc' = "replay"
        /\ UNCHANGED <<emitted, eventCh, edgeBuf, payload, nacked>>
    BY <1>6 DEF ReplayOne, Goto
  <2>2. PICK n \in Nat : Arrive(e, n)
    BY <1>6 DEF ReplayOne, ReplayCopies
  <2>3. Range(replay) = {e} \cup Range(replay') /\ \A x \in Range(replay') : e < x
    BY <2>1, TailFacts DEF TypeOK, LineUp
  <2>4. Range(Ids(edgeBuf)) = {} /\ Range(payload) = {}
    BY <2>1, PayloadRange, IdsEmpty, EmptyRange DEF LineUp
  <2>5. e \in Held /\ \A x \in Held' : x \in Held /\ e < x
    BY <2>1, <2>3, <2>4 DEF Held, LineUp, Before
  <2>6. Ahead' /\ OrderedUnlessNacked'
    BY <2>1, <2>2, <2>5, ArriveKeepsInv
  <2> QED BY <2>1, <2>4, <2>6 DEF BacklogReplayedFirst
<1>7. CASE Receive
  <2>1. eventCh # <<>> /\ eventCh' = Tail(eventCh) /\ payload' = <<Head(eventCh)>> /\ pc = "publish"
        /\ UNCHANGED <<emitted, edgeBuf, replay, sent, nacked>>
    BY <1>7 DEF Receive, Goto
  <2>2. Range(eventCh) = {Head(eventCh)} \cup Range(eventCh')
    BY <2>1, TailFacts DEF TypeOK
  <2>3. Range(payload') = {Head(eventCh)}
    BY <2>1 DEF Range
  <2>4. Held' \subseteq Held
    BY <2>1, <2>2, <2>3 DEF Held
  <2> QED BY <2>1, <2>4, MoveKeepsInv DEF BacklogReplayedFirst
<1>8. CASE NotConnected
  <2>1. /\ pc = "received" /\ pc' = "close" /\ Push(Head(payload)) /\ payload' = <<>>
        /\ UNCHANGED <<emitted, eventCh, replay, sent, nacked>>
    BY <1>8 DEF NotConnected, Goto
  <2>2. Range(Ids(edgeBuf')) \subseteq Range(Ids(edgeBuf)) \cup Range(payload) /\ Range(payload') = {}
    BY <2>1, InHand, PayloadRange, PushFacts, EmptyRange
  <2>3. Held' \subseteq Held
    BY <2>1, <2>2 DEF Held
  <2> QED BY <2>1, <2>3, MoveKeepsInv DEF BacklogReplayedFirst
<1>9. CASE PublishErr \/ PublishAcked \/ PublishCore
  <2> DEFINE e == Head(payload)
  <2>1. /\ pc = "send" /\ payload' = <<>> /\ UNCHANGED <<emitted, eventCh, replay>>
        /\ \/ PublishErr /\ Push(e) /\ nacked' = nacked \cup {e}
           \/ UNCHANGED <<edgeBuf, nacked>>
    BY <1>9 DEF PublishErr, PublishAcked, PublishCore, Goto
  <2>2. PICK n \in Nat : Arrive(e, n)
    BY <1>9 DEF PublishErr, PublishAcked, PublishCore
  <2>3. e \in Nat /\ Range(payload) = {e} /\ Range(payload') = {}
    BY <2>1, InHand, PayloadRange, EmptyRange
  <2>4. Range(replay) = {} /\ Range(replay') = {}
    BY <2>1, EmptyRange DEF TypeOK
  <2>5. Range(Ids(edgeBuf)) \subseteq nacked
    BY <2>1 DEF BacklogReplayedFirst
  <2>6. nacked \subseteq nacked' /\ Range(Ids(edgeBuf')) \subseteq nacked'
    BY <2>1, <2>3, <2>5, PushFacts
  <2>7. e \in Held
    BY <2>3 DEF Held
  <2>8. \A x \in Held' \ nacked' : x \in Held /\ e < x
    BY <2>1, <2>3, <2>4, <2>6 DEF Held, LineUp, Before
  <2>9. Ahead' /\ OrderedUnlessNacked'
    BY <2>1, <2>2, <2>6, <2>7, <2>8, ArriveKeepsInv
  <2> QED BY <2>6, <2>9 DEF BacklogReplayedFirst
<1>10. CASE UNCHANGED vars
  BY <1>10 DEF vars, BacklogReplayedFirst, Ahead, OrderedUnlessNacked, Held
<1> QED
  BY <1>1, <1>2, <1>3, <1>4, <1>5, <1>6, <1>7, <1>8, <1>9, <1>10
  DEF Next, Publisher, Environment, FallbackDrain, BufferFromChannel

LEMMA ArrivalInvariant == Spec => []ArrivalInv
BY InitArrival, NextArrival, TypeCorrect, LineUpInvariant, PTL DEF Spec

\* NATS receives events in order of emission, except that an event whose live
\* JetStream publish returned an error may come after later ones.
THEOREM ArrivalOrder == Spec => []OrderedUnlessNacked
<1>1. ArrivalInv => OrderedUnlessNacked
  BY DEF ArrivalInv
<1> QED BY <1>1, ArrivalInvariant, PTL

\* While the publisher is live the buffer holds only events whose live publish
\* failed: the backlog of an outage is replayed before live publishing resumes.
THEOREM BacklogFirst == Spec => []BacklogReplayedFirst
<1>1. ArrivalInv => BacklogReplayedFirst
  BY DEF ArrivalInv
<1> QED BY <1>1, ArrivalInvariant, PTL

-----------------------------------------------------------------------------
\* No event vanishes.

Settled == Range(sent) \cup overflow \cup expired \cup unacked

\* Copies of an event only add to what arrived; at least one copy adds it.
LEMMA ArriveSettles ==
  ASSUME sent \in Seq(Nat), NEW e \in Nat, NEW n \in Nat, Arrive(e, n)
  PROVE  Range(sent) \subseteq Range(sent') /\ (n # 0 => e \in Range(sent'))
<1> DEFINE c == [i \in 1..n |-> e]
<1>1. c \in Seq(Nat) /\ DOMAIN c = 1..n
  OBVIOUS
<1>2. Range(sent') = Range(sent) \cup Range(c)
  BY <1>1, ConcatFacts DEF Arrive
<1>3. n # 0 => 1 \in 1..n
  OBVIOUS
<1>4. n # 0 => e \in Range(c)
  BY <1>1, <1>3 DEF Range
<1> QED BY <1>2, <1>4

\* A step loses no event: what was held stays held or is settled, and what was
\* settled stays so.
LEMMA NothingVanishes ==
  ASSUME TypeOK, [Next]_vars
  PROVE  Held \cup Settled \subseteq Held' \cup Settled' /\ Settled \subseteq Settled'
<1> USE DEF world, queues, link, history
<1>1. CASE Emit
  <2>1. UNCHANGED <<edgeBuf, replay, payload, sent, expired, unacked>> /\ overflow \subseteq overflow'
    BY <1>1 DEF Emit
  <2>2. Range(eventCh) \subseteq Range(eventCh')
    <3>1. eventCh \in Seq(Nat) /\ emitted + 1 \in Nat
      BY DEF TypeOK
    <3>2. CASE eventCh' = Append(eventCh, emitted + 1)
      <4>1. Range(eventCh') = Range(eventCh) \cup {emitted + 1}
        BY <3>1, <3>2, AppendFacts
      <4> QED BY <4>1
    <3>3. CASE eventCh' = eventCh
      BY <3>3
    <3> QED BY <1>1, <3>2, <3>3 DEF Emit
  <2> QED BY <2>1, <2>2 DEF Held, Settled
<1>2. CASE UNCHANGED <<queues, history>>
  BY <1>2 DEF Held, Settled
<1>3. ASSUME NEW from, NEW next, Stash(from, next) PROVE Held \cup Settled \subseteq Held' \cup Settled' /\ Settled \subseteq Settled'
  <2>1. CASE Step(from, next)
    BY <2>1 DEF Step, Held, Settled
  <2>2. CASE eventCh # <<>> /\ Push(Head(eventCh)) /\ eventCh' = Tail(eventCh)
             /\ UNCHANGED <<world, replay, payload, link, sent, nacked, overflow, unacked>>
    <3>1. Head(eventCh) \in Nat /\ Range(eventCh) = {Head(eventCh)} \cup Range(eventCh')
      BY <2>2, TailFacts DEF TypeOK
    <3>2. /\ Range(Ids(edgeBuf)) \subseteq Range(Ids(edgeBuf')) \cup expired'
          /\ Head(eventCh) \in Range(Ids(edgeBuf')) /\ expired \subseteq expired'
      BY <2>2, <3>1, PushFacts
    <3> QED BY <2>2, <3>1, <3>2 DEF Held, Settled
  <2> QED BY <1>3, <2>1, <2>2 DEF Stash
<1>4. CASE Drain
  <2>1. PICK positions \in Listings(Kept(edgeBuf, clock)) : replay' = Drained(edgeBuf, positions)
    BY <1>4 DEF Drain
  <2>2. expired' = expired \cup {edgeBuf[i].id : i \in DOMAIN edgeBuf \ Kept(edgeBuf, clock)}
        /\ UNCHANGED <<eventCh, payload, sent, overflow, unacked>>
    BY <1>4 DEF Drain
  <2>3. Range(Ids(edgeBuf)) \subseteq Range(replay') \cup expired'
    BY <2>1, <2>2, DrainFacts DEF TypeOK
  <2>4. Range(replay) = {}
    BY <1>4, EmptyRange DEF Drain, Goto, TypeOK
  <2> QED BY <2>2, <2>3, <2>4 DEF Held, Settled
<1>5. CASE ReplayOne
  <2> DEFINE e == Head(replay)
  <2>1. replay # <<>> /\ replay' = Tail(replay)
        /\ UNCHANGED <<eventCh, edgeBuf, payload, overflow, expired>>
    BY <1>5 DEF ReplayOne
  <2>2. e \in Nat /\ Range(replay) = {e} \cup Range(replay')
    BY <2>1, TailFacts DEF TypeOK
  <2>3. PICK n \in Nat : Arrive(e, n) /\ unacked' = unacked \cup IF n = 0 THEN {e} ELSE {}
    BY <1>5 DEF ReplayOne, ReplayCopies
  <2>4. Range(sent) \subseteq Range(sent') /\ (n # 0 => e \in Range(sent'))
    BY <2>2, <2>3, ArriveSettles DEF TypeOK
  <2>5. e \in Range(sent') \cup unacked' /\ unacked \subseteq unacked'
    BY <2>3, <2>4
  <2> QED BY <2>1, <2>2, <2>4, <2>5 DEF Held, Settled
<1>6. CASE Receive
  <2>1. eventCh # <<>> /\ eventCh' = Tail(eventCh) /\ payload' = <<Head(eventCh)>> /\ pc = "publish"
        /\ UNCHANGED <<edgeBuf, replay, history>>
    BY <1>6 DEF Receive, Goto
  <2>2. Range(eventCh) = {Head(eventCh)} \cup Range(eventCh')
    BY <2>1, TailFacts DEF TypeOK
  <2>3. Range(payload') = {Head(eventCh)} /\ Range(payload) = {}
    BY <2>1, PayloadRange DEF Range
  <2> QED BY <2>1, <2>2, <2>3 DEF Held, Settled
<1>7. CASE NotConnected \/ PublishErr
  <2> DEFINE e == Head(payload)
  <2>1. pc \in {"received", "send"} /\ Push(e) /\ UNCHANGED <<eventCh, replay, overflow, unacked>>
    BY <1>7 DEF NotConnected, PublishErr, Goto
  <2>2. e \in Nat /\ Range(payload) = {e}
    BY <2>1, InHand, PayloadRange
  <2>3. /\ Range(Ids(edgeBuf)) \subseteq Range(Ids(edgeBuf')) \cup expired'
        /\ e \in Range(Ids(edgeBuf')) /\ expired \subseteq expired'
    BY <2>1, <2>2, PushFacts
  <2>4. Range(sent) \subseteq Range(sent')
    <3>1. CASE NotConnected
      BY <3>1 DEF NotConnected
    <3>2. CASE PublishErr
      <4>1. PICK n \in Nat : Arrive(e, n)
        BY <3>2 DEF PublishErr
      <4> QED BY <2>2, <4>1, ArriveSettles DEF TypeOK
    <3> QED BY <1>7, <3>1, <3>2
  <2> QED BY <2>1, <2>2, <2>3, <2>4 DEF Held, Settled
<1>8. CASE PublishAcked \/ PublishCore
  <2> DEFINE e == Head(payload)
  <2>1. pc = "send" /\ UNCHANGED <<eventCh, edgeBuf, replay, overflow, expired>>
    BY <1>8 DEF PublishAcked, PublishCore, Goto
  <2>2. e \in Nat /\ Range(payload) = {e}
    BY <2>1, InHand, PayloadRange
  <2>3. PICK n \in Nat : Arrive(e, n) /\ unacked' = unacked \cup IF n = 0 THEN {e} ELSE {}
    BY <1>8 DEF PublishAcked, PublishCore
  <2>4. Range(sent) \subseteq Range(sent') /\ (n # 0 => e \in Range(sent'))
    BY <2>2, <2>3, ArriveSettles DEF TypeOK
  <2>5. e \in Range(sent') \cup unacked' /\ unacked \subseteq unacked'
    BY <2>3, <2>4
  <2> QED BY <2>1, <2>2, <2>4, <2>5 DEF Held, Settled
<1>9. CASE Tick \/ Disconnect \/ Cancel \/ ConnectOK \/ WaitEnds \/ Recheck \/ Close
  BY <1>2, <1>9 DEF Tick, Disconnect, Cancel, ConnectOK, WaitEnds, Recheck, Close
<1>10. CASE Return \/ ConnectErr \/ ReplayDone \/ PublishCancelled \/ FallbackInterval \/ Connected
  BY <1>2, <1>10 DEF Return, ConnectErr, ReplayDone, PublishCancelled, FallbackInterval, Connected, Step
<1>11. CASE UNCHANGED vars
  BY <1>2, <1>11 DEF vars
<1> QED
  BY <1>1, <1>3, <1>4, <1>5, <1>6, <1>7, <1>8, <1>9, <1>10, <1>11
  DEF Next, Publisher, Environment, FallbackDrain, BufferFromChannel

\* Every event the collectors ever offered is held by the agent, has reached
\* NATS, or was given up for one of the reasons the code has: the publisher
\* never loses track of an event between two queues.
THEOREM EveryEventAccounted == Spec => []Accounted
<1> DEFINE I == \A e \in 1..emitted : e \in Held \cup Settled
<1>1. Init => I
  BY DEF Init
<1>2. TypeOK /\ I /\ [Next]_vars => I'
  <2> SUFFICES ASSUME TypeOK, I, [Next]_vars, NEW e \in 1..emitted'
               PROVE  e \in Held' \cup Settled'
    OBVIOUS
  <2>1. CASE e \in 1..emitted
    BY <2>1, NothingVanishes
  <2>2. CASE e \notin 1..emitted
    <3>1. Emit
      BY <2>2 DEF Next, Publisher, Environment, Emit, Tick, Disconnect, Cancel, Return, ConnectOK,
        ConnectErr, FallbackDrain, BufferFromChannel, Stash, FallbackInterval, WaitEnds, Drain,
        ReplayOne, ReplayDone, PublishCancelled, Receive, NotConnected, Connected, PublishAcked,
        PublishErr, Recheck, PublishCore, Close, Step, world, vars
    <3>2. emitted \in Nat /\ emitted' = emitted + 1 /\ e = emitted + 1
      BY <2>2, <3>1 DEF Emit, TypeOK
    <3>3. e \in Range(eventCh') \cup overflow'
      <4>1. eventCh \in Seq(Nat) /\ e \in Nat
        BY <3>2 DEF TypeOK
      <4>2. CASE eventCh' = Append(eventCh, e)
        <5>1. Range(eventCh') = Range(eventCh) \cup {e}
          BY <4>1, <4>2, AppendFacts
        <5> QED BY <5>1
      <4>3. CASE overflow' = overflow \cup {e}
        BY <4>3
      <4> QED BY <3>1, <3>2, <4>2, <4>3 DEF Emit
    <3> QED BY <3>3 DEF Held, Settled
  <2> QED BY <2>1, <2>2
<1>3. TypeOK /\ I => Accounted
  BY PipelineFacts DEF Accounted, Held, Settled
<1> QED BY <1>1, <1>2, <1>3, TypeCorrect, PTL DEF Spec

-----------------------------------------------------------------------------
\* The age of what is buffered.

\* The buffer is ordered by age, and nothing in it is from the future.
Aged ==
  /\ \A i, j \in DOMAIN edgeBuf : i < j => edgeBuf[i].at <= edgeBuf[j].at
  /\ \A i \in DOMAIN edgeBuf : edgeBuf[i].at <= clock

\* What a push leaves, entry by entry.
LEMMA PushEntries ==
  ASSUME TypeOK, Aged, NEW e \in Nat, Push(e), clock' = clock
  PROVE  /\ Aged'
         /\ \A i \in DOMAIN edgeBuf' : ~(edgeBuf'[i].at < clock - MaxAge)
         /\ \A i \in DOMAIN edgeBuf : edgeBuf[i].at >= clock - MaxAge => edgeBuf[i] \in Range(edgeBuf')
<1>1. PICK k \in 0..Len(edgeBuf) :
        /\ EvictionStops(edgeBuf, clock, k)
        /\ edgeBuf' = Append(SubSeq(edgeBuf, k + 1, Len(edgeBuf)), [id |-> e, at |-> clock])
  BY DEF Push, Pushed
<1>2. edgeBuf \in Seq(Entry) /\ edgeBuf' \in Seq(Entry) /\ clock \in Nat /\ MaxAge \in Nat
  BY PushType, MaxAgeAssumption DEF TypeOK
<1> DEFINE n == Len(edgeBuf)
<1>3. n \in Nat /\ DOMAIN edgeBuf = 1..n /\ \A i \in 1..n : edgeBuf[i].at \in Nat
  BY <1>2, EntryType
<1>4. /\ Len(SubSeq(edgeBuf, k + 1, n)) = n - k
      /\ \A i \in 1..(n - k) : SubSeq(edgeBuf, k + 1, n)[i] = edgeBuf[i + k]
      /\ SubSeq(edgeBuf, k + 1, n) \in Seq(Entry)
  BY <1>2
<1>5. /\ DOMAIN edgeBuf' = 1..(n - k + 1)
      /\ \A i \in 1..(n - k) : edgeBuf'[i] = edgeBuf[i + k]
      /\ edgeBuf'[n - k + 1] = [id |-> e, at |-> clock]
  <2>1. /\ Len(edgeBuf') = n - k + 1
        /\ \A i \in 1..(n - k) : edgeBuf'[i] = edgeBuf[i + k]
        /\ edgeBuf'[n - k + 1] = [id |-> e, at |-> clock]
    BY <1>1, <1>2, <1>4
  <2> QED BY <1>2, <2>1
<1>6. \A i \in 1..(n - k + 1) :
        \/ i \in 1..(n - k) /\ i + k \in 1..n /\ i + k >= k + 1 /\ edgeBuf'[i].at = edgeBuf[i + k].at
        \/ i = n - k + 1 /\ edgeBuf'[i].at = clock
  <2> TAKE i \in 1..(n - k + 1)
  <2>1. CASE i \in 1..(n - k)
    <3>1. i + k \in 1..n /\ i + k >= k + 1
      BY <1>3, <2>1
    <3> QED BY <1>5, <2>1, <3>1
  <2>2. CASE i = n - k + 1
    BY <1>5, <2>2
  <2> QED BY <1>3, <2>1, <2>2
<1>7. \A i, j \in 1..n : i < j => edgeBuf[i].at <= edgeBuf[j].at
  BY <1>3 DEF Aged
<1>8. \A i \in 1..n : edgeBuf[i].at <= clock
  BY <1>3 DEF Aged
<1>9. Aged'
  <2>1. \A i \in 1..(n - k + 1) : edgeBuf'[i].at <= clock
    BY <1>2, <1>6, <1>8
  <2>2. ASSUME NEW i \in 1..(n - k + 1), NEW j \in 1..(n - k + 1), i < j
        PROVE  edgeBuf'[i].at <= edgeBuf'[j].at
    <3>1. i \in 1..(n - k) /\ i + k \in 1..n /\ edgeBuf'[i].at = edgeBuf[i + k].at
      BY <1>3, <1>6, <2>2
    <3>2. CASE j = n - k + 1 /\ edgeBuf'[j].at = clock
      BY <1>8, <3>1, <3>2
    <3>3. CASE j + k \in 1..n /\ edgeBuf'[j].at = edgeBuf[j + k].at
      <4>1. i + k < j + k
        BY <1>3, <2>2
      <4> QED BY <1>7, <3>1, <3>3, <4>1
    <3> QED BY <1>6, <3>2, <3>3
  <2> QED BY <1>5, <2>1, <2>2 DEF Aged
<1>10. \A i \in 1..n : i >= k + 1 => edgeBuf[i].at >= clock - MaxAge
  <2> SUFFICES ASSUME NEW i \in 1..n, i >= k + 1
               PROVE  edgeBuf[i].at >= clock - MaxAge
    OBVIOUS
  <2>1. k < n /\ k + 1 \in 1..n
    BY <1>3
  <2>2. edgeBuf[k + 1].at >= clock - MaxAge
    BY <1>1, <1>2, <1>3, <2>1 DEF EvictionStops, Expired
  <2>3. edgeBuf[k + 1].at <= edgeBuf[i].at
    <3>1. CASE i = k + 1
      BY <1>3, <3>1
    <3>2. CASE k + 1 < i
      BY <1>7, <2>1, <3>2
    <3> QED BY <3>1, <3>2
  <2> QED BY <1>2, <1>3, <2>1, <2>2, <2>3
<1>11. \A i \in 1..(n - k + 1) : ~(edgeBuf'[i].at < clock - MaxAge)
  <2> TAKE i \in 1..(n - k + 1)
  <2>1. CASE i + k \in 1..n /\ i + k >= k + 1 /\ edgeBuf'[i].at = edgeBuf[i + k].at
    BY <1>2, <1>3, <1>10, <2>1
  <2>2. CASE edgeBuf'[i].at = clock
    BY <1>2, <2>2
  <2> QED BY <1>6, <2>1, <2>2
<1>12. \A i \in 1..n : edgeBuf[i].at >= clock - MaxAge => edgeBuf[i] \in Range(edgeBuf')
  <2> SUFFICES ASSUME NEW i \in 1..n, edgeBuf[i].at >= clock - MaxAge
               PROVE  \E j \in 1..(n - k + 1) : edgeBuf'[j] = edgeBuf[i]
    BY <1>5 DEF Range
  <2>1. i \notin 1..k
    BY <1>1, <1>2, <1>3 DEF EvictionStops, Expired
  <2>2. i - k \in 1..(n - k) /\ i - k \in 1..(n - k + 1) /\ (i - k) + k = i
    BY <1>3, <2>1
  <2> QED BY <1>5, <2>2
<1> QED BY <1>3, <1>5, <1>9, <1>11, <1>12

\* What a step may do to the buffer: push one event, drain it, or leave it alone.
LEMMA BufferSteps ==
  ASSUME TypeOK, [Next]_vars
  PROVE  \/ UNCHANGED edgeBuf /\ (clock' = clock \/ Tick)
         \/ clock' = clock /\ \E e \in Nat : Push(e)
         \/ pc = "drain" /\ edgeBuf' = <<>>
<1> USE DEF world, queues, link, history
<1>1. CASE Tick \/ Emit \/ Disconnect \/ Cancel \/ ConnectOK \/ WaitEnds \/ Recheck \/ Close
  BY <1>1 DEF Tick, Emit, Disconnect, Cancel, ConnectOK, WaitEnds, Recheck, Close
<1>2. CASE Return \/ ConnectErr \/ ReplayDone \/ PublishCancelled \/ FallbackInterval \/ Connected
  BY <1>2 DEF Return, ConnectErr, ReplayDone, PublishCancelled, FallbackInterval, Connected, Step
<1>3. ASSUME NEW from, NEW next, Stash(from, next)
      PROVE  (UNCHANGED edgeBuf /\ clock' = clock) \/ (clock' = clock /\ \E e \in Nat : Push(e))
  <2>1. CASE Step(from, next)
    BY <2>1 DEF Step
  <2>2. CASE eventCh # <<>> /\ Push(Head(eventCh)) /\ UNCHANGED world
    <3>1. Head(eventCh) \in Nat
      BY <2>2, TailFacts DEF TypeOK
    <3> QED BY <2>2, <3>1
  <2> QED BY <1>3, <2>1, <2>2 DEF Stash
<1>4. CASE Drain
  BY <1>4 DEF Drain, Goto
<1>5. CASE ReplayOne \/ Receive \/ PublishAcked \/ PublishCore
  BY <1>5 DEF ReplayOne, Receive, PublishAcked, PublishCore
<1>6. CASE NotConnected \/ PublishErr
  <2>1. pc \in {"received", "send"} /\ Push(Head(payload)) /\ clock' = clock
    BY <1>6 DEF NotConnected, PublishErr, Goto
  <2> QED BY <2>1, InHand
<1>7. CASE UNCHANGED vars
  BY <1>7 DEF vars
<1> QED
  BY <1>1, <1>2, <1>3, <1>4, <1>5, <1>6, <1>7
  DEF Next, Publisher, Environment, FallbackDrain, BufferFromChannel

\* Aged is inductive: time only goes on, and a push stamps its entry with the clock.
LEMMA AgedStep == TypeOK /\ Aged /\ [Next]_vars => Aged'
<1> SUFFICES ASSUME TypeOK, Aged, [Next]_vars
             PROVE  Aged'
  OBVIOUS
<1>1. CASE UNCHANGED edgeBuf /\ (clock' = clock \/ Tick)
  <2>1. clock \in Nat /\ clock' >= clock /\ clock' \in Nat
    BY <1>1 DEF Tick, TypeOK
  <2>2. \A i \in DOMAIN edgeBuf : edgeBuf[i].at \in Nat
    BY EntryType DEF TypeOK
  <2> QED BY <1>1, <2>1, <2>2 DEF Aged
<1>2. CASE clock' = clock /\ \E e \in Nat : Push(e)
  BY <1>2, PushEntries
<1>3. CASE edgeBuf' = <<>>
  BY <1>3 DEF Aged
<1> QED BY <1>1, <1>2, <1>3, BufferSteps

\* A push evicts exactly what is expired: the eviction loop, which stops at the first entry that
\* is not, leaves nothing expired behind it, whatever the clock did between the pushes; and no
\* entry leaves the buffer before its time except by a drain.
THEOREM PushEvictsExpired == Spec => EvictsExpired
<1>1. Init => Aged
  BY DEF Init, Aged
<1>2. TypeOK /\ Aged /\ [Next]_vars =>
        [ /\ Len(edgeBuf') > 0 /\ edgeBuf' # edgeBuf =>
                \A i \in DOMAIN edgeBuf' : ~(edgeBuf'[i].at < clock - MaxAge)
          /\ \A i \in DOMAIN edgeBuf :
                edgeBuf[i].at >= clock - MaxAge => edgeBuf[i] \in Range(edgeBuf') \/ pc = "drain" ]_vars
  <2> SUFFICES ASSUME TypeOK, Aged, [Next]_vars
               PROVE  /\ Len(edgeBuf') > 0 /\ edgeBuf' # edgeBuf =>
                            \A i \in DOMAIN edgeBuf' : ~(edgeBuf'[i].at < clock - MaxAge)
                      /\ \A i \in DOMAIN edgeBuf :
                            edgeBuf[i].at >= clock - MaxAge => edgeBuf[i] \in Range(edgeBuf') \/ pc = "drain"
    OBVIOUS
  <2>1. CASE UNCHANGED edgeBuf
    BY <2>1 DEF Range
  <2>2. CASE clock' = clock /\ \E e \in Nat : Push(e)
    BY <2>2, PushEntries
  <2>3. CASE pc = "drain" /\ edgeBuf' = <<>>
    BY <2>3
  <2> QED BY <2>1, <2>2, <2>3, BufferSteps
<1> QED BY <1>1, <1>2, AgedStep, TypeCorrect, PTL DEF Spec, EvictsExpired

-----------------------------------------------------------------------------
\* How often an event arrives.

Copies(e) == Cardinality({i \in DOMAIN sent : sent[i] = e})

\* The positions of an event among what arrived are finitely many.
LEMMA CopiesType ==
  ASSUME sent \in Seq(Nat), NEW e
  PROVE  IsFiniteSet({i \in DOMAIN sent : sent[i] = e}) /\ Copies(e) \in Nat
<1>1. IsFiniteSet(1..Len(sent)) /\ DOMAIN sent = 1..Len(sent)
  BY FS_Interval
<1>2. {i \in DOMAIN sent : sent[i] = e} \in SUBSET (1..Len(sent))
  BY <1>1
<1>3. IsFiniteSet({i \in DOMAIN sent : sent[i] = e})
  BY <1>1, <1>2, FS_Subset
<1> QED BY <1>3, FS_CardinalityType DEF Copies

\* A publish adds n copies of its event and none of another one.
LEMMA CopiesArrive ==
  ASSUME sent \in Seq(Nat), NEW e \in Nat, NEW n \in 0..2, Arrive(e, n)
  PROVE  /\ Copies(e)' <= Copies(e) + n
         /\ \A x \in Nat : x # e => Copies(x)' = Copies(x)
<1> DEFINE m == Len(sent)
           c == [i \in 1..n |-> e]
           At(x) == {i \in DOMAIN sent : sent[i] = x}
           Now(x) == {i \in DOMAIN sent' : sent'[i] = x}
<1>1. c \in Seq(Nat) /\ Len(c) = n /\ \A i \in 1..n : c[i] = e
  OBVIOUS
<1>2. m \in Nat /\ DOMAIN sent = 1..m /\ sent' = sent \o c
  BY DEF Arrive
<1>3. /\ DOMAIN sent' = 1..(m + n)
      /\ \A i \in 1..m : sent'[i] = sent[i]
      /\ \A i \in 1..(m + n) : i > m => sent'[i] = e
  BY <1>1, <1>2
<1>4. \A i \in 1..(m + n) : i \in 1..m \/ i = m + 1 \/ i = m + 2
  BY <1>2
<1>5. \A i \in 1..m : i \in 1..(m + n)
  BY <1>2
<1>6. ASSUME NEW x \in Nat, x # e
      PROVE  Now(x) = At(x)
  <2>1. ASSUME NEW i \in 1..(m + n), sent'[i] = x
        PROVE  i \in At(x)
    <3>1. i \in 1..m
      BY <1>2, <1>3, <1>6, <2>1
    <3> QED BY <1>2, <1>3, <2>1, <3>1
  <2>2. At(x) \subseteq Now(x)
    BY <1>2, <1>3, <1>5
  <2> QED BY <1>3, <2>1, <2>2
<1>7. IsFiniteSet(At(e)) /\ Cardinality(At(e)) \in Nat
  BY CopiesType DEF Copies
<1>8. Now(e) \subseteq At(e) \cup ((m + 1)..(m + n))
  <2> SUFFICES ASSUME NEW i \in 1..(m + n), sent'[i] = e, i \notin At(e)
               PROVE  i \in (m + 1)..(m + n)
    BY <1>3
  <2>1. i \notin 1..m
    BY <1>2, <1>3
  <2> QED BY <1>2, <2>1
<1>9. IsFiniteSet((m + 1)..(m + n)) /\ Cardinality((m + 1)..(m + n)) = n
  <2>1. m + 1 \in Int /\ m + n \in Int
    BY <1>2
  <2>2. /\ IsFiniteSet((m + 1)..(m + n))
        /\ Cardinality((m + 1)..(m + n)) = IF m + 1 > m + n THEN 0 ELSE (m + n) - (m + 1) + 1
    BY <2>1, FS_Interval
  <2> QED BY <1>2, <2>2
<1>10. /\ IsFiniteSet(At(e) \cup ((m + 1)..(m + n)))
       /\ Cardinality(At(e) \cup ((m + 1)..(m + n))) <= Cardinality(At(e)) + n
  <2>1. IsFiniteSet(At(e) \cap ((m + 1)..(m + n)))
    BY <1>7, FS_Subset
  <2>2. Cardinality(At(e) \cap ((m + 1)..(m + n))) \in Nat
    BY <2>1, FS_CardinalityType
  <2>3. /\ IsFiniteSet(At(e) \cup ((m + 1)..(m + n)))
        /\ Cardinality(At(e) \cup ((m + 1)..(m + n)))
             = Cardinality(At(e)) + Cardinality((m + 1)..(m + n)) - Cardinality(At(e) \cap ((m + 1)..(m + n)))
    BY <1>7, <1>9, FS_Union
  <2> QED BY <1>7, <1>9, <2>2, <2>3
<1>11. Cardinality(Now(e)) <= Cardinality(At(e) \cup ((m + 1)..(m + n)))
  BY <1>8, <1>10, FS_Subset
<1>12. Cardinality(Now(e)) \in Nat
  <2>1. IsFiniteSet(Now(e))
    BY <1>8, <1>10, FS_Subset
  <2> QED BY <2>1, FS_CardinalityType
<1>13. Cardinality(At(e) \cup ((m + 1)..(m + n))) \in Nat
  BY <1>10, FS_CardinalityType
<1>14. Cardinality(Now(e)) <= Cardinality(At(e)) + n
  BY <1>7, <1>10, <1>11, <1>12, <1>13
<1> QED BY <1>6, <1>14 DEF Copies

\* The inductive form of AtMostThreeCopies: what waits for its first publish has not arrived,
\* what is buffered or replayed has arrived at most once, by a publish whose error came late.
CopiesInv ==
  /\ \A e \in Nat : Copies(e) <= 3
  /\ \A e \in Nat : e > emitted \/ e \in Range(payload) \cup Range(eventCh) => Copies(e) = 0
  /\ \A e \in Range(replay) \cup Range(Ids(edgeBuf)) : Copies(e) <= 1

\* Steps that publish nothing keep it, if events only move on.
LEMMA MoveKeepsCopies ==
  ASSUME TypeOK, CopiesInv, LineUp, UNCHANGED sent, emitted' >= emitted, emitted' \in Nat,
         Range(payload') \cup Range(eventCh') \subseteq Range(payload) \cup Range(eventCh) \cup {emitted + 1},
         Range(replay') \cup Range(Ids(edgeBuf')) \subseteq Held
  PROVE  CopiesInv'
<1>1. \A e \in Nat : Copies(e)' = Copies(e) /\ Copies(e) \in Nat
  BY CopiesType DEF Copies, TypeOK
<1>2. emitted \in Nat /\ \A x \in Held : x \in Nat
  BY DEF TypeOK, LineUp, Held
<1>3. \A x \in Held : Copies(x) <= 1
  BY <1>1, <1>2 DEF CopiesInv, Held
<1>4. \A e \in Nat : e > emitted' \/ e \in Range(payload') \cup Range(eventCh') => Copies(e)' = 0
  <2> SUFFICES ASSUME NEW e \in Nat, e > emitted' \/ e \in Range(payload') \cup Range(eventCh')
               PROVE  Copies(e) = 0
    BY <1>1
  <2>1. e > emitted \/ e \in Range(payload) \cup Range(eventCh)
    BY <1>2
  <2> QED BY <2>1 DEF CopiesInv
<1>5. \A x \in Range(replay') \cup Range(Ids(edgeBuf')) : Copies(x)' <= 1
  BY <1>1, <1>2, <1>3
<1>6. \A e \in Nat : Copies(e)' <= 3
  BY <1>1 DEF CopiesInv
<1> QED BY <1>4, <1>5, <1>6 DEF CopiesInv

\* A publish keeps it, if its event is held nowhere else afterwards, or is buffered having arrived
\* at most once.
LEMMA ArriveKeepsCopies ==
  ASSUME TypeOK, CopiesInv, LineUp, NEW e \in Held, NEW n \in 0..2, Arrive(e, n), UNCHANGED emitted,
         Range(payload') \cup Range(eventCh') \subseteq (Range(payload) \cup Range(eventCh)) \ {e},
         \/ Copies(e) + n <= 1 /\ Range(replay') \cup Range(Ids(edgeBuf')) \subseteq Range(replay) \cup Range(Ids(edgeBuf)) \cup {e}
         \/ Range(replay') \cup Range(Ids(edgeBuf')) \subseteq (Range(replay) \cup Range(Ids(edgeBuf))) \ {e}
  PROVE  CopiesInv'
<1>1. e \in Nat /\ e <= emitted /\ emitted \in Nat /\ \A x \in Held : x \in Nat
  BY DEF TypeOK, LineUp, Held
<1>2. sent \in Seq(Nat) /\ sent' \in Seq(Nat)
  BY <1>1, ArriveType DEF TypeOK
<1>3. /\ Copies(e)' <= Copies(e) + n
      /\ \A x \in Nat : x # e => Copies(x)' = Copies(x)
  BY <1>1, <1>2, CopiesArrive
<1>4. \A x \in Nat : Copies(x) \in Nat
  BY <1>2, CopiesType
<1>5. Copies(e)' \in Nat
  <2>1. IsFiniteSet({i \in DOMAIN sent' : sent'[i] = e})
    <3>1. IsFiniteSet(1..Len(sent')) /\ DOMAIN sent' = 1..Len(sent')
      BY <1>2, FS_Interval
    <3>2. {i \in DOMAIN sent' : sent'[i] = e} \in SUBSET (1..Len(sent'))
      BY <3>1
    <3> QED BY <3>1, <3>2, FS_Subset
  <2> QED BY <2>1, FS_CardinalityType DEF Copies
<1>6. Copies(e) <= 1
  BY <1>1, <1>4 DEF CopiesInv, Held
<1>7. \A x \in Nat : Copies(x)' <= 3
  <2> TAKE x \in Nat
  <2>1. CASE x = e
    BY <1>1, <1>3, <1>4, <1>5, <1>6, <2>1
  <2>2. CASE x # e
    BY <1>3, <2>2 DEF CopiesInv
  <2> QED BY <2>1, <2>2
<1>8. \A x \in Nat : x > emitted' \/ x \in Range(payload') \cup Range(eventCh') => Copies(x)' = 0
  <2> SUFFICES ASSUME NEW x \in Nat, x > emitted' \/ x \in Range(payload') \cup Range(eventCh')
               PROVE  Copies(x)' = 0
    OBVIOUS
  <2>1. x # e
    BY <1>1
  <2>2. x > emitted \/ x \in Range(payload) \cup Range(eventCh)
    OBVIOUS
  <2> QED BY <1>3, <2>1, <2>2 DEF CopiesInv
<1>9. \A x \in Range(replay') \cup Range(Ids(edgeBuf')) : Copies(x)' <= 1
  <2> SUFFICES ASSUME NEW x \in Range(replay') \cup Range(Ids(edgeBuf'))
               PROVE  Copies(x)' <= 1
    OBVIOUS
  <2>1. CASE x = e
    BY <1>1, <1>3, <1>4, <1>5, <2>1
  <2>2. CASE x # e
    <3>1. x \in Range(replay) \cup Range(Ids(edgeBuf))
      BY <2>2
    <3>2. x \in Nat
      BY <1>1, <3>1 DEF Held
    <3> QED BY <1>3, <2>2, <3>1, <3>2 DEF CopiesInv
  <2> QED BY <2>1, <2>2
<1> QED BY <1>7, <1>8, <1>9 DEF CopiesInv

\* CopiesInv is inductive: an event that is published is held nowhere else, and a publish whose
\* error is seen stores it at most once.
LEMMA CopiesStep == TypeOK /\ TypeOK' /\ LineUp /\ CopiesInv /\ [Next]_vars => CopiesInv'
<1> SUFFICES ASSUME TypeOK, TypeOK', LineUp, CopiesInv, [Next]_vars PROVE CopiesInv'
  OBVIOUS
<1> USE DEF world, queues, link, history
<1>0. emitted \in Nat /\ emitted >= emitted
  BY DEF TypeOK
<1>1. CASE Emit
  <2>1. emitted' = emitted + 1 /\ UNCHANGED <<edgeBuf, replay, payload, sent>>
    BY <1>1 DEF Emit
  <2>2. Range(eventCh') \subseteq Range(eventCh) \cup {emitted + 1}
    <3>1. CASE eventCh' = eventCh
      BY <3>1
    <3>2. CASE eventCh' = Append(eventCh, emitted + 1)
      <4>1. eventCh \in Seq(Nat) /\ emitted + 1 \in Nat
        BY DEF TypeOK
      <4> QED BY <3>2, <4>1, AppendFacts
    <3> QED BY <1>1, <3>1, <3>2 DEF Emit
  <2>3. emitted' >= emitted /\ emitted' \in Nat
    BY <1>0, <2>1
  <2> QED BY <2>1, <2>2, <2>3, MoveKeepsCopies DEF Held
<1>2. CASE Tick \/ Disconnect \/ Cancel \/ ConnectOK \/ WaitEnds \/ Recheck \/ Close
  <2>1. UNCHANGED <<queues, sent, emitted>>
    BY <1>2 DEF Tick, Disconnect, Cancel, ConnectOK, WaitEnds, Recheck, Close
  <2> QED BY <1>0, <2>1, MoveKeepsCopies DEF Held
<1>3. CASE Return \/ ConnectErr \/ ReplayDone \/ PublishCancelled \/ FallbackInterval \/ Connected
  <2>1. UNCHANGED <<queues, sent, emitted>>
    BY <1>3 DEF Return, ConnectErr, ReplayDone, PublishCancelled, FallbackInterval, Connected, Step
  <2> QED BY <1>0, <2>1, MoveKeepsCopies DEF Held
<1>4. ASSUME NEW from, NEW next, Stash(from, next),
             from \in {"fallback", "buffer"}, next \in {"fallback_wait", "backoff"}
      PROVE  CopiesInv'
  <2>1. CASE Step(from, next)
    <3>1. UNCHANGED <<queues, sent, emitted>>
      BY <2>1 DEF Step
    <3> QED BY <1>0, <3>1, MoveKeepsCopies DEF Held
  <2>2. CASE eventCh # <<>> /\ Push(Head(eventCh)) /\ eventCh' = Tail(eventCh)
             /\ UNCHANGED <<world, replay, payload, link, sent, nacked, overflow, unacked>>
    <3>1. Head(eventCh) \in Nat /\ Range(eventCh) = {Head(eventCh)} \cup Range(eventCh')
      BY <2>2, TailFacts DEF TypeOK
    <3>2. Range(Ids(edgeBuf')) \subseteq Range(Ids(edgeBuf)) \cup {Head(eventCh)}
      BY <2>2, <3>1, PushFacts
    <3>3. UNCHANGED <<replay, payload, sent, emitted>>
      BY <2>2
    <3> QED BY <1>0, <3>1, <3>2, <3>3, MoveKeepsCopies DEF Held
  <2> QED BY <1>4, <2>1, <2>2 DEF Stash
<1>5. CASE Drain
  <2>1. PICK positions \in Listings(Kept(edgeBuf, clock)) : replay' = Drained(edgeBuf, positions)
    BY <1>5 DEF Drain
  <2>2. Range(replay') \subseteq Range(Ids(edgeBuf))
    BY <2>1, DrainFacts DEF TypeOK
  <2>3. edgeBuf' = <<>> /\ UNCHANGED <<eventCh, payload, emitted, sent>>
    BY <1>5 DEF Drain
  <2>4. Range(Ids(edgeBuf')) = {}
    BY <2>3, IdsEmpty, EmptyRange
  <2> QED BY <1>0, <2>2, <2>3, <2>4, MoveKeepsCopies DEF Held
<1>6. CASE ReplayOne
  <2> DEFINE e == Head(replay)
  <2>1. /\ replay # <<>> /\ replay' = Tail(replay) /\ pc = "replay"
        /\ UNCHANGED <<emitted, eventCh, edgeBuf, payload>>
    BY <1>6 DEF ReplayOne, Goto
  <2>2. PICK n \in 0..2 : Arrive(e, n)
    BY <1>6 DEF ReplayOne, ReplayCopies
  <2>3. e \in Nat /\ Range(replay) = {e} \cup Range(replay') /\ \A x \in Range(replay') : e < x
    BY <2>1, TailFacts DEF TypeOK, LineUp
  <2>4. Range(Ids(edgeBuf)) = {} /\ Range(payload) = {}
    BY <2>1, PayloadRange, IdsEmpty, EmptyRange DEF LineUp
  <2>5. e \notin Range(eventCh) /\ e \notin Range(replay')
    BY <2>3 DEF LineUp, Before
  <2>6. e \in Held
    BY <2>3 DEF Held
  <2> QED BY <2>1, <2>2, <2>3, <2>4, <2>5, <2>6, ArriveKeepsCopies
<1>7. CASE Receive
  <2>1. eventCh # <<>> /\ eventCh' = Tail(eventCh) /\ payload' = <<Head(eventCh)>>
        /\ UNCHANGED <<emitted, edgeBuf, replay, sent>>
    BY <1>7 DEF Receive
  <2>2. Range(eventCh) = {Head(eventCh)} \cup Range(eventCh')
    BY <2>1, TailFacts DEF TypeOK
  <2>3. Range(payload') = {Head(eventCh)}
    BY <2>1 DEF Range
  <2> QED BY <1>0, <2>1, <2>2, <2>3, MoveKeepsCopies DEF Held
<1>8. CASE NotConnected
  <2>1. /\ pc = "received" /\ Push(Head(payload)) /\ payload' = <<>>
        /\ UNCHANGED <<emitted, eventCh, replay, sent>>
    BY <1>8 DEF NotConnected, Goto
  <2>2. Range(Ids(edgeBuf')) \subseteq Range(Ids(edgeBuf)) \cup Range(payload) /\ Range(payload') = {}
    BY <2>1, InHand, PayloadRange, PushFacts, EmptyRange
  <2> QED BY <1>0, <2>1, <2>2, MoveKeepsCopies DEF Held
<1>9. CASE PublishErr \/ PublishAcked \/ PublishCore
  <2> DEFINE e == Head(payload)
  <2>1. /\ pc = "send" /\ payload' = <<>> /\ UNCHANGED <<emitted, eventCh, replay>>
        /\ \/ Push(e)
           \/ UNCHANGED edgeBuf
    BY <1>9 DEF PublishErr, PublishAcked, PublishCore, Goto
  <2>2. PICK n \in 0..1 : Arrive(e, n)
    BY <1>9 DEF PublishErr, PublishAcked, PublishCore
  <2>3. e \in Nat /\ Range(payload) = {e} /\ Range(payload') = {}
    BY <2>1, InHand, PayloadRange, EmptyRange
  <2>4. e \notin Range(eventCh) /\ e \in Held
    BY <2>3 DEF LineUp, Before, Held
  <2>5. Copies(e) = 0
    BY <2>3 DEF CopiesInv
  <2>6. Range(Ids(edgeBuf')) \subseteq Range(Ids(edgeBuf)) \cup {e}
    BY <2>1, <2>3, PushFacts
  <2>7. n \in 0..2 /\ Copies(e) + n <= 1
    BY <2>2, <2>5
  <2> QED BY <2>1, <2>2, <2>3, <2>4, <2>6, <2>7, ArriveKeepsCopies
<1>10. CASE UNCHANGED vars
  <2>1. UNCHANGED <<queues, sent, emitted>>
    BY <1>10 DEF vars
  <2> QED BY <1>0, <2>1, MoveKeepsCopies DEF Held
<1> QED
  BY <1>1, <1>2, <1>3, <1>4, <1>5, <1>6, <1>7, <1>8, <1>9, <1>10
  DEF Next, Publisher, Environment, FallbackDrain, BufferFromChannel

\* In the beginning nothing has arrived.
LEMMA InitCopies == Init => CopiesInv
<1> SUFFICES ASSUME Init PROVE CopiesInv
  OBVIOUS
<1>1. sent = <<>> /\ DOMAIN sent = {}
  BY DEF Init
<1>2. \A e \in Nat : {i \in DOMAIN sent : sent[i] = e} = {}
  BY <1>1
<1>3. \A e \in Nat : Copies(e) = 0
  BY <1>2, FS_EmptySet DEF Copies
<1>4. Range(replay) = {} /\ Range(Ids(edgeBuf)) = {}
  BY EmptyRange, IdsEmpty DEF Init
<1> QED BY <1>3, <1>4 DEF CopiesInv

\* No event reaches NATS more than three times: once by a live publish whose acknowledgement is
\* lost, and twice in the one replay that follows; it is never buffered and replayed again.
THEOREM ThreeCopiesAtMost == Spec => []AtMostThreeCopies
<1>1. TypeOK /\ CopiesInv => AtMostThreeCopies
  <2> SUFFICES ASSUME TypeOK, CopiesInv, NEW e \in 1..emitted
               PROVE  Copies(e) <= 3
    BY DEF AtMostThreeCopies, Copies
  <2>1. e \in Nat
    BY DEF TypeOK
  <2> QED BY <2>1 DEF CopiesInv
<1> QED BY <1>1, InitCopies, CopiesStep, TypeCorrect, LineUpInvariant, PTL DEF Spec

-----------------------------------------------------------------------------
\* The event queue.

Lost == overflow \cup expired \cup unacked

\* The positions of s whose elements t has, and: t is s without the others.
Matches(s, t) == {i \in DOMAIN s : s[i] \in Range(t)}

IsWhatRemains(s, t) ==
  \E f \in [1..Cardinality(Matches(s, t)) -> Matches(s, t)] :
    /\ Range(f) = Matches(s, t)
    /\ \A i, j \in DOMAIN f : i < j => f[i] < f[j]
    /\ t = [i \in DOMAIN f |-> s[f[i]]]

\* Of two ascending sequences, one with only elements of the other is what remains of it.
LEMMA Remains ==
  ASSUME NEW s \in Seq(Nat), NEW t \in Seq(Nat), Ascending(s), Ascending(t), Range(t) \subseteq Range(s)
  PROVE  IsWhatRemains(s, t)
<1> DEFINE kept == {i \in DOMAIN s : s[i] \in Range(t)}
           n == Len(t)
           g == [j \in 1..n |-> CHOOSE i \in DOMAIN s : s[i] = t[j]]
<1>1. /\ n \in Nat /\ DOMAIN t = 1..n /\ DOMAIN s = 1..Len(s) /\ Len(s) \in Nat
      /\ \A i \in DOMAIN s : s[i] \in Nat
      /\ \A j \in 1..n : t[j] \in Nat
  OBVIOUS
<1>2. \A j \in 1..n : g[j] \in DOMAIN s /\ s[g[j]] = t[j] /\ g[j] \in kept
  <2> TAKE j \in 1..n
  <2>1. t[j] \in Range(t)
    BY <1>1 DEF Range
  <2>2. \E i \in DOMAIN s : s[i] = t[j]
    BY <2>1 DEF Range
  <2> QED BY <2>1, <2>2
<1>0. \A i, j \in 1..Len(s) : i < j => s[i] < s[j]
  BY <1>1 DEF Ascending
<1>3. \A i, j \in DOMAIN s : s[i] = s[j] => i = j
  <2> SUFFICES ASSUME NEW i \in 1..Len(s), NEW j \in 1..Len(s), s[i] = s[j], i # j
               PROVE  FALSE
    BY <1>1
  <2>1. i < j \/ j < i
    OBVIOUS
  <2>2. s[i] < s[j] \/ s[j] < s[i]
    BY <1>0, <2>1
  <2> QED BY <1>1, <2>2
<1>4. \A i, j \in DOMAIN s : s[i] < s[j] => i < j
  <2> SUFFICES ASSUME NEW i \in 1..Len(s), NEW j \in 1..Len(s), s[i] < s[j], ~(i < j)
               PROVE  FALSE
    BY <1>1
  <2>1. i = j \/ j < i
    OBVIOUS
  <2>2. s[i] = s[j] \/ s[j] < s[i]
    BY <1>0, <2>1
  <2> QED BY <1>1, <2>2
<1>5. g \in [1..n -> kept] /\ DOMAIN g = 1..n
  BY <1>2
<1>6. \A i, j \in 1..n : i < j => g[i] < g[j]
  <2> SUFFICES ASSUME NEW i \in 1..n, NEW j \in 1..n, i < j
               PROVE  g[i] < g[j]
    OBVIOUS
  <2>1. t[i] < t[j]
    BY <1>1 DEF Ascending
  <2> QED BY <1>2, <1>4, <2>1
<1>7. \A i \in kept : \E j \in 1..n : g[j] = i
  <2> TAKE i \in kept
  <2>1. PICK j \in 1..n : t[j] = s[i]
    BY <1>1 DEF Range
  <2>2. g[j] = i
    BY <1>2, <1>3, <2>1
  <2> QED BY <2>2
<1>8. Cardinality(kept) = n
  <2>1. \A i, j \in 1..n : g[i] = g[j] => i = j
    <3> SUFFICES ASSUME NEW i \in 1..n, NEW j \in 1..n, g[i] = g[j], i # j
                 PROVE  FALSE
      OBVIOUS
    <3>0. g[i] = g[j]
      OBVIOUS
    <3>1. g[i] \in Nat /\ g[j] \in Nat
      <4>1. g[i] \in 1..Len(s) /\ g[j] \in 1..Len(s)
        BY <1>1, <1>2
      <4> HIDE DEF g
      <4> QED BY <4>1
    <3>2. i < j \/ j < i
      BY <1>1
    <3>3. g[i] < g[j] \/ g[j] < g[i]
      BY <1>6, <3>2
    <3> HIDE DEF g
    <3> QED BY <3>0, <3>1, <3>3
  <2>2. g \in Bijection(1..n, kept)
    BY <1>5, <1>7, <2>1 DEF Bijection, Injection, IsInjective, Surjection
  <2>3. ExistsBijection(1..n, kept)
    BY <2>2 DEF ExistsBijection
  <2> QED BY <1>1, <2>3, FS_CountingElements
<1>9. Range(g) = kept
  <2>1. Range(g) = {g[j] : j \in 1..n}
    BY <1>5 DEF Range
  <2>2. \A j \in 1..n : g[j] \in kept
    BY <1>2
  <2> HIDE DEF g, kept
  <2> QED BY <1>7, <2>1, <2>2
<1>10. t = [i \in DOMAIN g |-> s[g[i]]]
  <2>1. t = [i \in 1..n |-> t[i]]
    BY <1>1
  <2> QED BY <1>2, <1>5, <2>1
<1> HIDE DEF g
<1>11. g \in [1..Cardinality(kept) -> kept]
  BY <1>5, <1>8
<1>12. \A i, j \in DOMAIN g : i < j => g[i] < g[j]
  BY <1>5, <1>6
<1>13. kept = Matches(s, t)
  BY DEF Matches
<1> HIDE DEF kept
<1> QED BY <1>9, <1>10, <1>11, <1>12, <1>13 DEF IsWhatRemains

\* Copies of e add e to what arrived, or nothing.
LEMMA ArriveAdds ==
  ASSUME sent \in Seq(Nat), NEW e \in Nat, NEW n \in Nat, Arrive(e, n)
  PROVE  Range(sent) \subseteq Range(sent') /\ Range(sent') \subseteq Range(sent) \cup {e}
<1> DEFINE c == [i \in 1..n |-> e]
<1>1. c \in Seq(Nat) /\ DOMAIN c = 1..n
  OBVIOUS
<1>2. Range(sent') = Range(sent) \cup Range(c)
  BY <1>1, ConcatFacts DEF Arrive
<1>3. Range(c) \subseteq {e}
  BY <1>1 DEF Range
<1> QED BY <1>2, <1>3

\* The backlog is a sequence of the events that are held, in order.
Backlogged == Pipeline \in Seq(Nat) /\ Range(Pipeline) = Held /\ Ascending(Pipeline)

\* Where the four queues line up, what they hold together is in order.
LEMMA BacklogFacts ==
  ASSUME TypeOK, LineUp
  PROVE  Backlogged
<1>1. replay \in Seq(Nat) /\ Ids(edgeBuf) \in Seq(Nat) /\ payload \in Seq(Nat) /\ eventCh \in Seq(Nat)
  BY IdsFacts DEF TypeOK
<1>2. replay \o Ids(edgeBuf) \in Seq(Nat)
  BY <1>1, ConcatFacts
<1>3. replay \o Ids(edgeBuf) \o payload \in Seq(Nat)
  BY <1>1, <1>2, ConcatFacts
<1>4. Pipeline \in Seq(Nat)
  BY <1>1, <1>3, ConcatFacts DEF Pipeline
<1> QED BY <1>4, PipelineFacts DEF Held, InOrder, Backlogged

\* The backlog is in order in every state.
LEMMA BacklogInvariant == Spec => []Backlogged
<1>1. TypeOK /\ LineUp => Backlogged
  BY BacklogFacts
<1> QED BY <1>1, TypeCorrect, LineUpInvariant, PTL

\* A push gives up nothing but what was buffered.
LEMMA PushExpires ==
  ASSUME TypeOK, NEW e \in Nat, Push(e)
  PROVE  expired \subseteq expired' /\ expired' \subseteq expired \cup Range(Ids(edgeBuf))
<1>1. PICK k \in 0..Len(edgeBuf) : expired' = expired \cup {edgeBuf[i].id : i \in 1..k}
  BY DEF Push
<1>2. Range(Ids(edgeBuf)) = {edgeBuf[i].id : i \in 1..Len(edgeBuf)}
  BY IdsFacts DEF TypeOK
<1>3. \A i \in 1..k : i \in 1..Len(edgeBuf)
  OBVIOUS
<1> QED BY <1>1, <1>2, <1>3

\* Every step but an offer takes events only out of what is held, and delivers or gives up only
\* what was held.
LEMMA OnlyHeld ==
  ASSUME TypeOK, [Next]_vars, ~Emit
  PROVE  /\ UNCHANGED emitted /\ Held' \subseteq Held
         /\ Range(sent) \subseteq Range(sent') /\ Range(sent') \subseteq Range(sent) \cup Held
         /\ Lost \subseteq Lost' /\ Lost' \subseteq Lost \cup Held
<1> DEFINE Goal == /\ UNCHANGED emitted /\ Held' \subseteq Held
                   /\ Range(sent) \subseteq Range(sent') /\ Range(sent') \subseteq Range(sent) \cup Held
                   /\ Lost \subseteq Lost' /\ Lost' \subseteq Lost \cup Held
<1> USE DEF world, queues, link, history
<1>2. CASE UNCHANGED <<queues, history, emitted>>
  BY <1>2 DEF Held, Lost
<1>3. ASSUME NEW from, NEW next, Stash(from, next)
      PROVE  Goal
  <2>1. CASE Step(from, next)
    BY <1>2, <2>1 DEF Step
  <2>2. CASE eventCh # <<>> /\ Push(Head(eventCh)) /\ eventCh' = Tail(eventCh)
             /\ UNCHANGED <<world, replay, payload, link, sent, nacked, overflow, unacked>>
    <3>1. Head(eventCh) \in Nat /\ Range(eventCh) = {Head(eventCh)} \cup Range(eventCh')
      BY <2>2, TailFacts DEF TypeOK
    <3>2. Range(Ids(edgeBuf')) \subseteq Range(Ids(edgeBuf)) \cup {Head(eventCh)}
      BY <2>2, <3>1, PushFacts
    <3>3. expired \subseteq expired' /\ expired' \subseteq expired \cup Range(Ids(edgeBuf))
      BY <2>2, <3>1, PushExpires
    <3> QED BY <2>2, <3>1, <3>2, <3>3 DEF Held, Lost
  <2> QED BY <1>3, <2>1, <2>2 DEF Stash
<1>4. CASE Drain
  <2>1. PICK positions \in Listings(Kept(edgeBuf, clock)) : replay' = Drained(edgeBuf, positions)
    BY <1>4 DEF Drain
  <2>2. Range(replay') \subseteq Range(Ids(edgeBuf))
    BY <2>1, DrainFacts DEF TypeOK
  <2>3. /\ edgeBuf' = <<>> /\ UNCHANGED <<eventCh, payload, emitted, sent, overflow, unacked>>
        /\ expired' = expired \cup {edgeBuf[i].id : i \in DOMAIN edgeBuf \ Kept(edgeBuf, clock)}
    BY <1>4 DEF Drain
  <2>4. Range(Ids(edgeBuf')) = {}
    BY <2>3, IdsEmpty, EmptyRange
  <2>5. expired' \subseteq expired \cup Range(Ids(edgeBuf))
    <3>1. edgeBuf \in Seq(Entry)
      BY DEF TypeOK
    <3>2. Range(Ids(edgeBuf)) = {edgeBuf[i].id : i \in 1..Len(edgeBuf)}
      BY <3>1, IdsFacts
    <3>3. DOMAIN edgeBuf = 1..Len(edgeBuf)
      BY <3>1
    <3> QED BY <2>3, <3>2, <3>3
  <2> QED BY <2>2, <2>3, <2>4, <2>5 DEF Held, Lost
<1>5. CASE ReplayOne
  <2> DEFINE e == Head(replay)
  <2>1. replay # <<>> /\ replay' = Tail(replay)
        /\ UNCHANGED <<emitted, eventCh, edgeBuf, payload, overflow, expired>>
    BY <1>5 DEF ReplayOne
  <2>2. e \in Nat /\ Range(replay) = {e} \cup Range(replay')
    BY <2>1, TailFacts DEF TypeOK
  <2>3. PICK n \in Nat : Arrive(e, n) /\ unacked' = unacked \cup IF n = 0 THEN {e} ELSE {}
    BY <1>5 DEF ReplayOne, ReplayCopies
  <2>4. Range(sent) \subseteq Range(sent') /\ Range(sent') \subseteq Range(sent) \cup {e}
    BY <2>2, <2>3, ArriveAdds DEF TypeOK
  <2>5. unacked \subseteq unacked' /\ unacked' \subseteq unacked \cup {e}
    BY <2>3
  <2> QED BY <2>1, <2>2, <2>4, <2>5 DEF Held, Lost
<1>6. CASE Receive
  <2>1. eventCh # <<>> /\ eventCh' = Tail(eventCh) /\ payload' = <<Head(eventCh)>>
        /\ UNCHANGED <<emitted, edgeBuf, replay, history>>
    BY <1>6 DEF Receive
  <2>2. Range(eventCh) = {Head(eventCh)} \cup Range(eventCh')
    BY <2>1, TailFacts DEF TypeOK
  <2>3. Range(payload') = {Head(eventCh)}
    BY <2>1 DEF Range
  <2> QED BY <2>1, <2>2, <2>3 DEF Held, Lost
<1>7. CASE NotConnected \/ PublishErr
  <2> DEFINE e == Head(payload)
  <2>1. /\ pc \in {"received", "send"} /\ Push(e) /\ payload' = <<>>
        /\ UNCHANGED <<emitted, eventCh, replay, overflow, unacked>>
    BY <1>7 DEF NotConnected, PublishErr, Goto
  <2>2. e \in Nat /\ Range(payload) = {e} /\ Range(payload') = {}
    BY <2>1, InHand, PayloadRange, EmptyRange
  <2>3. /\ Range(Ids(edgeBuf')) \subseteq Range(Ids(edgeBuf)) \cup {e}
        /\ expired \subseteq expired' /\ expired' \subseteq expired \cup Range(Ids(edgeBuf))
    BY <2>1, <2>2, PushFacts, PushExpires
  <2>4. Range(sent) \subseteq Range(sent') /\ Range(sent') \subseteq Range(sent) \cup {e}
    <3>1. CASE NotConnected
      BY <3>1 DEF NotConnected
    <3>2. CASE PublishErr
      <4>1. PICK n \in Nat : Arrive(e, n)
        BY <3>2 DEF PublishErr
      <4> QED BY <2>2, <4>1, ArriveAdds DEF TypeOK
    <3> QED BY <1>7, <3>1, <3>2
  <2> QED BY <2>1, <2>2, <2>3, <2>4 DEF Held, Lost
<1>8. CASE PublishAcked \/ PublishCore
  <2> DEFINE e == Head(payload)
  <2>1. pc = "send" /\ payload' = <<>> /\ UNCHANGED <<emitted, eventCh, edgeBuf, replay, overflow, expired>>
    BY <1>8 DEF PublishAcked, PublishCore, Goto
  <2>2. e \in Nat /\ Range(payload) = {e} /\ Range(payload') = {}
    BY <2>1, InHand, PayloadRange, EmptyRange
  <2>3. PICK n \in Nat : Arrive(e, n) /\ unacked' = unacked \cup IF n = 0 THEN {e} ELSE {}
    BY <1>8 DEF PublishAcked, PublishCore
  <2>4. Range(sent) \subseteq Range(sent') /\ Range(sent') \subseteq Range(sent) \cup {e}
    BY <2>2, <2>3, ArriveAdds DEF TypeOK
  <2>5. unacked \subseteq unacked' /\ unacked' \subseteq unacked \cup {e}
    BY <2>3
  <2> QED BY <2>1, <2>2, <2>4, <2>5 DEF Held, Lost
<1>9. CASE Tick \/ Disconnect \/ Cancel \/ ConnectOK \/ WaitEnds \/ Recheck \/ Close
  BY <1>2, <1>9 DEF Tick, Disconnect, Cancel, ConnectOK, WaitEnds, Recheck, Close
<1>10. CASE Return \/ ConnectErr \/ ReplayDone \/ PublishCancelled \/ FallbackInterval \/ Connected
  BY <1>2, <1>10 DEF Return, ConnectErr, ReplayDone, PublishCancelled, FallbackInterval, Connected, Step
<1>11. CASE UNCHANGED vars
  BY <1>2, <1>11 DEF vars
<1> QED
  BY <1>3, <1>4, <1>5, <1>6, <1>7, <1>8, <1>9, <1>10, <1>11
  DEF Next, Publisher, Environment, FallbackDrain, BufferFromChannel

\* An offer appends its event to the backlog, or refuses it.
LEMMA OffersImplement ==
  ASSUME TypeOK, Emit
  PROVE  Queue!Accept \/ Queue!Refuse
<1>1. emitted' = emitted + 1 /\ UNCHANGED <<edgeBuf, replay, payload, sent, expired, unacked>>
  BY DEF Emit
<1>2. replay \in Seq(Nat) /\ Ids(edgeBuf) \in Seq(Nat) /\ payload \in Seq(Nat) /\ eventCh \in Seq(Nat) /\ emitted + 1 \in Nat
  BY IdsFacts DEF TypeOK
<1> DEFINE a == replay \o Ids(edgeBuf) \o payload
<1>3. a \in Seq(Nat)
  <2>1. replay \o Ids(edgeBuf) \in Seq(Nat)
    BY <1>2, ConcatFacts
  <2> QED BY <1>2, <2>1, ConcatFacts
<1>4. CASE eventCh' = Append(eventCh, emitted + 1) /\ UNCHANGED overflow
  <2>1. \A s, t \in Seq(Nat), x \in Nat : s \o Append(t, x) = Append(s \o t, x)
    OBVIOUS
  <2>2. a \o eventCh' = Append(a \o eventCh, emitted + 1)
    BY <1>2, <1>3, <1>4, <2>1
  <2>3. Pipeline' = Append(Pipeline, emitted + 1)
    BY <1>1, <2>2 DEF Pipeline
  <2> QED BY <1>1, <1>4, <2>3 DEF Queue!Accept
<1>5. CASE overflow' = overflow \cup {emitted + 1} /\ UNCHANGED eventCh
  <2>1. Pipeline' = Pipeline
    BY <1>1, <1>5 DEF Pipeline
  <2>2. (overflow \cup expired \cup unacked)' = (overflow \cup expired \cup unacked) \cup {emitted + 1}
    BY <1>1, <1>5
  <2> QED BY <1>1, <2>1, <2>2 DEF Queue!Refuse
<1> QED BY <1>4, <1>5 DEF Emit

\* Every other step settles events of the backlog, or none.
LEMMA StepsSettle ==
  ASSUME TypeOK, [Next]_vars, ~Emit, Backlogged, Backlogged'
  PROVE  Queue!Settle
<1>1. Range(Pipeline) = Held /\ Range(Pipeline') = Held'
  BY DEF Backlogged
<1>2. /\ UNCHANGED emitted /\ Held' \subseteq Held
      /\ Range(sent) \subseteq Range(sent') /\ Range(sent') \subseteq Range(sent) \cup Held
      /\ Lost \subseteq Lost' /\ Lost' \subseteq Lost \cup Held
  BY OnlyHeld
<1>3. \A s, t \in Seq(Nat) : Ascending(s) /\ Ascending(t) /\ Range(t) \subseteq Range(s) => IsWhatRemains(s, t)
  BY Remains
<1>4. IsWhatRemains(Pipeline, Pipeline')
  <2>1. Pipeline \in Seq(Nat) /\ Pipeline' \in Seq(Nat) /\ Ascending(Pipeline) /\ Ascending(Pipeline')
    BY DEF Backlogged
  <2> QED BY <1>1, <1>2, <1>3, <2>1
<1> DEFINE kept == Matches(Pipeline, Pipeline')
           gone == {Pipeline[i] : i \in DOMAIN Pipeline \ kept}
<1>5. gone \subseteq Range(sent') \cup Lost'
  <2> SUFFICES ASSUME NEW i \in DOMAIN Pipeline, i \notin kept
               PROVE  Pipeline[i] \in Range(sent') \cup Lost'
    OBVIOUS
  <2>1. Pipeline[i] \in Range(Pipeline) /\ Pipeline[i] \notin Range(Pipeline')
    BY DEF Range, Matches
  <2>2. Held \subseteq Held' \cup Settled'
    BY NothingVanishes
  <2> QED BY <1>1, <2>1, <2>2 DEF Settled, Lost
<1>6. kept \in SUBSET DOMAIN Pipeline
  BY DEF Matches
<1>7. \E f \in [1..Cardinality(kept) -> kept] :
        /\ Range(f) = kept
        /\ \A i, j \in DOMAIN f : i < j => f[i] < f[j]
        /\ Pipeline' = [i \in DOMAIN f |-> Pipeline[f[i]]]
  BY <1>4 DEF IsWhatRemains
<1>8. /\ Range(sent) \subseteq Range(sent') /\ Range(sent') \subseteq Range(sent) \cup Range(Pipeline)
      /\ Lost \subseteq Lost' /\ Lost' \subseteq Lost \cup Range(Pipeline)
  BY <1>1, <1>2
<1>9. Lost = overflow \cup expired \cup unacked /\ Lost' = (overflow \cup expired \cup unacked)'
  BY DEF Lost
<1> HIDE DEF kept
<1>10. /\ {Pipeline[i] : i \in DOMAIN Pipeline \ kept} \subseteq Range(sent') \cup (overflow \cup expired \cup unacked)'
       /\ overflow \cup expired \cup unacked \subseteq (overflow \cup expired \cup unacked)'
       /\ (overflow \cup expired \cup unacked)' \subseteq (overflow \cup expired \cup unacked) \cup Range(Pipeline)
  BY <1>5, <1>8, <1>9
<1>11. \A f : Queue!Range(f) = Range(f)
  BY DEF Queue!Range, Range
<1>12. \A S : Queue!Cardinality(S) = Cardinality(S)
  BY DEF Queue!Cardinality, Cardinality
<1>13. \E f \in [1..Queue!Cardinality(kept) -> kept] :
         /\ Queue!Range(f) = kept
         /\ \A i, j \in DOMAIN f : i < j => f[i] < f[j]
         /\ Pipeline' = [i \in DOMAIN f |-> Pipeline[f[i]]]
  BY <1>7, <1>11, <1>12
<1> QED BY <1>2, <1>6, <1>8, <1>10, <1>11, <1>13 DEF Queue!Settle

\* The publisher implements the event queue: what the agent holds, over its channel, the event in
\* hand, the edge buffer and the replay list together, is a queue that an event enters at the back
\* and leaves only by arriving at NATS or by being given up, and never comes back to.
THEOREM QueueImplemented == Spec => ImplementsQueue
<1>1. Init => Queue!Init
  BY EmptyRange DEF Init, Queue!Init, Pipeline, Ids
<1>2. TypeOK /\ Backlogged /\ Backlogged' /\ [Next]_vars => [Queue!Next]_(Queue!vars)
  BY OffersImplement, StepsSettle DEF Queue!Next
<1> QED BY <1>1, <1>2, TypeCorrect, BacklogInvariant, PTL DEF Spec, ImplementsQueue, Queue!Spec

-----------------------------------------------------------------------------
\* Every event has one fate.

\* What push evicts is gone from the buffer.
LEMMA EvictedAreGone ==
  ASSUME TypeOK, NEW e \in Nat, Push(e), Ascending(Ids(edgeBuf)), \A x \in Range(Ids(edgeBuf)) : x < e
  PROVE  \E X \in SUBSET Range(Ids(edgeBuf)) :
           expired' = expired \cup X /\ \A x \in X : x \notin Range(Ids(edgeBuf'))
<1>1. PICK k \in 0..Len(edgeBuf) :
        /\ edgeBuf' = Append(SubSeq(edgeBuf, k + 1, Len(edgeBuf)), [id |-> e, at |-> clock])
        /\ expired' = expired \cup {edgeBuf[i].id : i \in 1..k}
  BY DEF Push, Pushed
<1>2. edgeBuf \in Seq(Entry) /\ edgeBuf' \in Seq(Entry) /\ Len(edgeBuf) \in Nat
  BY PushType DEF TypeOK
<1> DEFINE n == Len(edgeBuf)
           X == {edgeBuf[i].id : i \in 1..k}
<1>3. /\ Len(SubSeq(edgeBuf, k + 1, n)) = n - k
      /\ \A i \in 1..(n - k) : SubSeq(edgeBuf, k + 1, n)[i] = edgeBuf[i + k]
      /\ SubSeq(edgeBuf, k + 1, n) \in Seq(Entry)
  BY <1>2
<1>4. /\ Len(edgeBuf') = n - k + 1
      /\ \A i \in 1..(n - k) : edgeBuf'[i] = edgeBuf[i + k]
      /\ edgeBuf'[n - k + 1] = [id |-> e, at |-> clock]
  BY <1>1, <1>2, <1>3
<1>5. /\ DOMAIN Ids(edgeBuf) = 1..n
      /\ \A i \in 1..n : Ids(edgeBuf)[i] = edgeBuf[i].id
      /\ Range(Ids(edgeBuf)) = {edgeBuf[i].id : i \in 1..n}
  BY <1>2, IdsFacts
<1>6. Range(Ids(edgeBuf')) = {edgeBuf'[i].id : i \in 1..(n - k + 1)}
  <2>1. Range(Ids(edgeBuf')) = {edgeBuf'[i].id : i \in 1..Len(edgeBuf')}
    BY <1>2, IdsFacts
  <2> QED BY <1>4, <2>1
<1>7. /\ \A i, j \in 1..n : i < j => edgeBuf[i].id < edgeBuf[j].id
      /\ \A i \in 1..n : edgeBuf[i].id \in Nat /\ edgeBuf[i].id < e
  <2>1. \A i, j \in 1..n : i < j => edgeBuf[i].id < edgeBuf[j].id
    BY <1>5 DEF Ascending
  <2>2. \A i \in 1..n : edgeBuf[i].id < e
    BY <1>5
  <2>3. \A i \in 1..n : edgeBuf[i].id \in Nat
    BY <1>2, EntryType
  <2> QED BY <2>1, <2>2, <2>3
<1>8. X \in SUBSET Range(Ids(edgeBuf))
  BY <1>2, <1>5
<1>9. ASSUME NEW i \in 1..k, NEW j \in 1..(n - k + 1)
      PROVE  edgeBuf[i].id # edgeBuf'[j].id
  <2>1. i \in 1..n
    BY <1>2
  <2>2. CASE j = n - k + 1
    <3>1. edgeBuf'[j].id = e
      BY <1>4, <2>2
    <3> QED BY <1>7, <2>1, <3>1
  <2>3. CASE j \in 1..(n - k)
    <3>1. j + k \in 1..n /\ i < j + k
      BY <1>2, <2>3
    <3>2. edgeBuf'[j].id = edgeBuf[j + k].id
      BY <1>4, <2>3
    <3>3. /\ edgeBuf[i].id < edgeBuf[j + k].id
          /\ edgeBuf[i].id \in Nat /\ edgeBuf[j + k].id \in Nat
      BY <1>7, <2>1, <3>1
    <3> QED BY <3>2, <3>3
  <2> QED BY <1>2, <2>2, <2>3
<1>10. \A x \in X : x \notin Range(Ids(edgeBuf'))
  BY <1>6, <1>9
<1> QED BY <1>1, <1>8, <1>10

\* What drain drops is not among what it hands out.
LEMMA DroppedAreGone ==
  ASSUME NEW buf \in Seq(Entry), NEW now \in Nat,
         NEW positions \in Listings(Kept(buf, now)), Ascending(Ids(buf))
  PROVE  \A x \in {buf[i].id : i \in DOMAIN buf \ Kept(buf, now)} : x \notin Range(Drained(buf, positions))
<1> DEFINE K == Kept(buf, now)
           D == Drained(buf, positions)
<1>1. /\ K \subseteq DOMAIN buf /\ Range(positions) = K
      /\ positions \in [1..Cardinality(K) -> DOMAIN buf]
  BY DrainType
<1>2. Range(D) = {buf[positions[m]].id : m \in DOMAIN positions}
  BY <1>1 DEF Drained, Range
<1>3. \A m \in DOMAIN positions : positions[m] \in K
  BY <1>1 DEF Range
<1>4. DOMAIN buf = 1..Len(buf) /\ Len(buf) \in Nat
  OBVIOUS
<1>5. /\ \A i, j \in 1..Len(buf) : i < j => buf[i].id < buf[j].id
      /\ \A i \in 1..Len(buf) : buf[i].id \in Nat
  <2>1. DOMAIN Ids(buf) = 1..Len(buf) /\ \A i \in 1..Len(buf) : Ids(buf)[i] = buf[i].id
    BY IdsFacts
  <2>2. \A i \in 1..Len(buf) : buf[i].id \in Nat
    BY <1>4, EntryType
  <2> QED BY <2>1, <2>2 DEF Ascending
<1>6. ASSUME NEW i \in DOMAIN buf \ K, NEW j \in K
      PROVE  buf[i].id # buf[j].id
  <2>1. i \in 1..Len(buf) /\ j \in 1..Len(buf) /\ i # j
    BY <1>1, <1>4
  <2>2. i < j \/ j < i
    BY <1>4, <2>1
  <2>3. buf[i].id < buf[j].id \/ buf[j].id < buf[i].id
    BY <1>5, <2>1, <2>2
  <2>4. buf[i].id \in Nat /\ buf[j].id \in Nat
    BY <1>5, <2>1
  <2> QED BY <2>3, <2>4
<1> QED BY <1>2, <1>3, <1>6

\* An event that is held is not given up, one that is given up was given up for one reason, one
\* that was never accepted never arrives, and one that arrived is neither held nor given up
\* unless its live publish failed: with Accounted, each event has exactly one fate.
OneFate ==
  /\ Held \cap Lost = {}
  /\ overflow \cap (expired \cup unacked) = {} /\ expired \cap unacked = {}
  /\ overflow \cap Range(sent) = {}
  /\ Range(sent) \cap (Held \cup Lost) \subseteq nacked

\* Only what was offered is given up.
LostWereOffered == \A x \in Lost : x \in Nat /\ x <= emitted

\* A step that gives up X for its age and Y for a lost publish and delivers only events of Z,
\* all of them held before, keeps the fates apart.
LEMMA FatesStayApart ==
  ASSUME OneFate, nacked \subseteq nacked', Held' \subseteq Held, UNCHANGED overflow,
         NEW X \in SUBSET Held, NEW Y \in SUBSET Held, NEW Z \in SUBSET Held,
         expired' = expired \cup X, unacked' = unacked \cup Y,
         Range(sent') \subseteq Range(sent) \cup Z,
         \A x \in X : x \notin Held' /\ x \notin Y,
         \A y \in Y : y \notin Held',
         \A z \in Z : z \in Held' \/ z \in X \/ z \in Y => z \in nacked'
  PROVE  OneFate'
<1>1. /\ \A x \in Held : x \notin overflow /\ x \notin expired /\ x \notin unacked
      /\ \A x \in overflow : x \notin expired /\ x \notin unacked /\ x \notin Range(sent)
      /\ \A x \in expired : x \notin unacked
      /\ \A x \in Range(sent) : x \in Held \/ x \in overflow \/ x \in expired \/ x \in unacked => x \in nacked
  BY DEF OneFate, Lost
<1>2. /\ \A x \in Held' : x \notin overflow' /\ x \notin expired' /\ x \notin unacked'
      /\ \A x \in overflow' : x \notin expired' /\ x \notin unacked'
      /\ \A x \in expired' : x \notin unacked'
  BY <1>1
<1>3. \A x \in overflow' : x \notin Range(sent')
  BY <1>1
<1>4. \A x \in Range(sent') : x \in Held' \/ x \in overflow' \/ x \in expired' \/ x \in unacked' => x \in nacked'
  BY <1>1
<1> QED BY <1>2, <1>3, <1>4 DEF OneFate, Lost

\* What a push evicts is older than all the agent still holds.
LEMMA EvictionFates ==
  ASSUME TypeOK, LineUp, NEW e \in Nat, Push(e), e \in Held, \A x \in Range(Ids(edgeBuf)) : x < e,
         replay' = <<>>, payload' = <<>>, Range(eventCh') \subseteq Range(eventCh)
  PROVE  \E X \in SUBSET Held :
           expired' = expired \cup X /\ \A x \in X : x \notin Held'
<1>1. PICK X \in SUBSET Range(Ids(edgeBuf)) :
        expired' = expired \cup X /\ \A x \in X : x \notin Range(Ids(edgeBuf'))
  BY EvictedAreGone DEF LineUp
<1>2. \A x \in X : x \notin Range(eventCh')
  <2>1. \A x \in X, y \in Range(eventCh) : x < y /\ x \in Nat /\ y \in Nat
    BY DEF LineUp, Before
  <2>2. \A x \in X, y \in Range(eventCh) : x # y
    BY <2>1
  <2> QED BY <2>2
<1>3. Range(replay') = {} /\ Range(payload') = {}
  BY EmptyRange
<1>4. \A x \in X : x \notin Held'
  BY <1>1, <1>2, <1>3 DEF Held
<1> QED BY <1>1, <1>4 DEF Held

\* Whatever is not an offer keeps the fates apart.
LEMMA StepKeepsFates ==
  ASSUME TypeOK, LineUp, OneFate, [Next]_vars, ~Emit
  PROVE  OneFate'
<1> USE DEF world, queues, link, history
<1>1. Held' \subseteq Held
  BY OnlyHeld
<1>3. CASE UNCHANGED <<queues, history>>
  BY <1>3 DEF OneFate, Held, Lost
<1>4. ASSUME UNCHANGED overflow, nacked \subseteq nacked', UNCHANGED unacked,
             Range(sent') \subseteq Range(sent),
             \E X \in SUBSET Held : expired' = expired \cup X /\ \A x \in X : x \notin Held'
      PROVE  OneFate'
  <2>1. PICK X \in SUBSET Held : expired' = expired \cup X /\ \A x \in X : x \notin Held'
    BY <1>4
  <2>2. {} \in SUBSET Held /\ unacked' = unacked \cup {}
    BY <1>4
  <2> QED BY <1>1, <1>4, <2>1, <2>2, FatesStayApart
<1>5. ASSUME NEW e \in Held, NEW n \in Nat, Arrive(e, n), unacked' = unacked \cup IF n = 0 THEN {e} ELSE {},
             e \notin Held', UNCHANGED <<overflow, expired, nacked>>
      PROVE  OneFate'
  <2>1. e \in Nat
    BY DEF Held, LineUp
  <2>2. expired' = expired \cup {} /\ {} \in SUBSET Held /\ {e} \in SUBSET Held
    BY <1>5
  <2>3. CASE n = 0
    <3>1. sent' = sent
      BY <1>5, <2>3 DEF Arrive, TypeOK
    <3>2. unacked' = unacked \cup {e}
      BY <1>5, <2>3
    <3>3. Range(sent') \subseteq Range(sent) \cup {} /\ nacked \subseteq nacked' /\ UNCHANGED overflow
      BY <1>5, <3>1
    <3>4. \A y \in {e} : y \notin Held'
      BY <1>5
    <3> QED BY <1>1, <2>2, <3>2, <3>3, <3>4, FatesStayApart
  <2>4. CASE n # 0
    <3>1. Range(sent') \subseteq Range(sent) \cup {e}
      BY <1>5, <2>1, ArriveAdds DEF TypeOK
    <3>2. unacked' = unacked \cup {}
      BY <1>5, <2>4
    <3>3. nacked \subseteq nacked' /\ UNCHANGED overflow
      BY <1>5
    <3>4. \A z \in {e} : z \in Held' \/ z \in {} \/ z \in {} => z \in nacked'
      BY <1>5
    <3> QED BY <1>1, <2>2, <3>1, <3>2, <3>3, <3>4, FatesStayApart
  <2> QED BY <2>3, <2>4
<1>6. ASSUME NEW from, NEW next, Stash(from, next),
             from \in {"fallback", "buffer"}, next \in {"fallback_wait", "backoff"}
      PROVE  OneFate'
  <2>1. CASE Step(from, next)
    BY <1>3, <2>1 DEF Step
  <2>2. CASE eventCh # <<>> /\ Push(Head(eventCh)) /\ eventCh' = Tail(eventCh) /\ Goto(from, from)
             /\ UNCHANGED <<world, replay, payload, link, sent, nacked, overflow, unacked>>
    <3>1. Head(eventCh) \in Nat /\ Range(eventCh) = {Head(eventCh)} \cup Range(eventCh')
      BY <2>2, TailFacts DEF TypeOK
    <3>2. replay' = <<>> /\ payload' = <<>>
      BY <1>6, <2>2, PayloadRange DEF Goto, TypeOK
    <3>3. Head(eventCh) \in Held /\ \A x \in Range(Ids(edgeBuf)) : x < Head(eventCh)
      BY <3>1 DEF Held, LineUp, Before
    <3>4. \E X \in SUBSET Held : expired' = expired \cup X /\ \A x \in X : x \notin Held'
      BY <2>2, <3>1, <3>2, <3>3, EvictionFates
    <3> QED BY <1>4, <2>2, <3>4
  <2> QED BY <1>6, <2>1, <2>2 DEF Stash
<1>7. CASE Drain
  <2> DEFINE X == {edgeBuf[i].id : i \in DOMAIN edgeBuf \ Kept(edgeBuf, clock)}
  <2>1. PICK positions \in Listings(Kept(edgeBuf, clock)) : replay' = Drained(edgeBuf, positions)
    BY <1>7 DEF Drain
  <2>2. /\ edgeBuf' = <<>> /\ UNCHANGED <<eventCh, payload, sent, nacked, overflow, unacked>>
        /\ pc = "drain" /\ expired' = expired \cup X
    BY <1>7 DEF Drain, Goto
  <2>3. edgeBuf \in Seq(Entry) /\ clock \in Nat /\ Ascending(Ids(edgeBuf))
    BY DEF TypeOK, LineUp
  <2>4. X \in SUBSET Range(Ids(edgeBuf))
    <3>1. Range(Ids(edgeBuf)) = {edgeBuf[i].id : i \in 1..Len(edgeBuf)} /\ DOMAIN edgeBuf = 1..Len(edgeBuf)
      BY <2>3, IdsFacts
    <3> QED BY <3>1
  <2>5. \A x \in X : x \notin Range(replay')
    BY <2>1, <2>3, DroppedAreGone
  <2> HIDE DEF X
  <2>6. \A x \in X : x \notin Range(eventCh')
    <3>1. \A x \in X, y \in Range(eventCh) : x < y /\ x \in Nat /\ y \in Nat
      BY <2>4 DEF LineUp, Before
    <3>2. \A x \in X, y \in Range(eventCh) : x # y
      BY <3>1
    <3> QED BY <2>2, <3>2
  <2>7. Range(Ids(edgeBuf')) = {} /\ Range(payload') = {}
    BY <2>2, IdsEmpty, EmptyRange, PayloadRange
  <2>8. \A x \in X : x \notin Held'
    BY <2>5, <2>6, <2>7 DEF Held
  <2>9. X \in SUBSET Held
    BY <2>4 DEF Held
  <2>10. Range(sent') \subseteq Range(sent) /\ nacked \subseteq nacked'
    BY <2>2
  <2> QED BY <1>4, <2>2, <2>8, <2>9, <2>10
<1>8. CASE ReplayOne
  <2> DEFINE e == Head(replay)
  <2>1. /\ replay # <<>> /\ replay' = Tail(replay) /\ pc = "replay"
        /\ UNCHANGED <<eventCh, edgeBuf, payload, overflow, expired, nacked>>
    BY <1>8 DEF ReplayOne, Goto
  <2>2. /\ e \in Nat /\ Range(replay) = {e} \cup Range(replay')
        /\ \A x \in Range(replay') : e < x
    BY <2>1, TailFacts DEF TypeOK, LineUp
  <2>3. PICK n \in Nat : Arrive(e, n) /\ unacked' = unacked \cup IF n = 0 THEN {e} ELSE {}
    BY <1>8 DEF ReplayOne, ReplayCopies
  <2>4. e \in Held /\ \A x \in Range(eventCh') : e < x
    BY <2>1, <2>2 DEF Held, LineUp, Before
  <2>5. Range(Ids(edgeBuf')) = {} /\ Range(payload') = {}
    BY <2>1, IdsEmpty, EmptyRange, PayloadRange DEF LineUp
  <2> HIDE DEF e
  <2>6. e \notin Range(replay') /\ e \notin Range(eventCh')
    BY <2>2, <2>4
  <2>7. e \notin Held'
    BY <2>5, <2>6 DEF Held
  <2> QED BY <1>5, <2>1, <2>3, <2>4, <2>7
<1>9. CASE Receive
  <2>1. /\ eventCh # <<>> /\ UNCHANGED <<expired, overflow, unacked, sent, nacked>>
    BY <1>9 DEF Receive
  <2>2. {} \in SUBSET Held /\ expired' = expired \cup {}
    BY <2>1
  <2> QED BY <1>4, <2>1, <2>2
<1>10. ASSUME pc \in {"received", "send"}, payload' = <<>>, UNCHANGED <<eventCh, replay>>
       PROVE  /\ replay' = <<>> /\ payload' = <<>> /\ Range(payload) = {Head(payload)}
              /\ Head(payload) \in Held /\ Head(payload) \in Nat
              /\ \A x \in Range(Ids(edgeBuf)) : x < Head(payload)
              /\ UNCHANGED edgeBuf => Head(payload) \notin Held'
  <2>1. replay = <<>>
    BY <1>10 DEF TypeOK
  <2>2. Range(payload) = {Head(payload)} /\ Head(payload) \in Nat
    BY <1>10, PayloadRange, InHand
  <2>3. \A x \in Range(Ids(edgeBuf)) : x < Head(payload) /\ x \in Nat
    BY <2>2 DEF LineUp, Before
  <2>4. \A x \in Range(eventCh) : Head(payload) < x /\ x \in Nat
    BY <2>2 DEF LineUp, Before
  <2>5. Head(payload) \notin Range(Ids(edgeBuf)) /\ Head(payload) \notin Range(eventCh)
    BY <2>2, <2>3, <2>4
  <2>6. Range(replay') = {} /\ Range(payload') = {}
    BY <1>10, <2>1, EmptyRange
  <2>7. UNCHANGED edgeBuf => Head(payload) \notin Held'
    BY <1>10, <2>5, <2>6 DEF Held
  <2>8. Head(payload) \in Held
    BY <2>2 DEF Held
  <2> QED BY <1>10, <2>1, <2>2, <2>3, <2>7, <2>8
<1>11. CASE NotConnected \/ PublishErr
  <2> DEFINE e == Head(payload)
  <2>1. /\ pc \in {"received", "send"} /\ Push(e) /\ payload' = <<>>
        /\ UNCHANGED <<eventCh, replay, overflow, unacked>>
    BY <1>11 DEF NotConnected, PublishErr, Goto
  <2>2. /\ replay' = <<>> /\ e \in Held /\ e \in Nat /\ \A x \in Range(Ids(edgeBuf)) : x < e
    BY <1>10, <2>1
  <2>3. PICK X \in SUBSET Held : expired' = expired \cup X /\ \A x \in X : x \notin Held'
    BY <2>1, <2>2, EvictionFates
  <2>4. \/ sent' = sent /\ nacked' = nacked
        \/ Range(sent') \subseteq Range(sent) \cup {e} /\ nacked' = nacked \cup {e}
    <3>1. CASE NotConnected
      BY <3>1 DEF NotConnected
    <3>2. CASE PublishErr
      <4>1. PICK n \in Nat : Arrive(e, n)
        BY <3>2 DEF PublishErr
      <4>2. nacked' = nacked \cup {e}
        BY <3>2 DEF PublishErr
      <4> QED BY <2>2, <4>1, <4>2, ArriveAdds DEF TypeOK
    <3> QED BY <1>11, <3>1, <3>2
  <2> HIDE DEF e
  <2>5. unacked' = unacked \cup {} /\ {} \in SUBSET Held /\ {e} \in SUBSET Held
    BY <2>1, <2>2
  <2>6. CASE sent' = sent /\ nacked' = nacked
    <3>1. nacked \subseteq nacked' /\ Range(sent') \subseteq Range(sent)
      BY <2>6
    <3> QED BY <1>4, <2>1, <2>3, <3>1
  <2>7. CASE Range(sent') \subseteq Range(sent) \cup {e} /\ nacked' = nacked \cup {e}
    BY <1>1, <2>1, <2>3, <2>5, <2>7, FatesStayApart
  <2> QED BY <2>4, <2>6, <2>7
<1>12. CASE PublishAcked \/ PublishCore
  <2>1. pc = "send" /\ payload' = <<>> /\ UNCHANGED <<eventCh, edgeBuf, replay, overflow, expired, nacked>>
    BY <1>12 DEF PublishAcked, PublishCore, Goto
  <2>2. PICK n \in Nat : /\ Arrive(Head(payload), n)
                         /\ unacked' = unacked \cup IF n = 0 THEN {Head(payload)} ELSE {}
    BY <1>12 DEF PublishAcked, PublishCore
  <2>3. Head(payload) \in Held /\ Head(payload) \notin Held'
    BY <1>10, <2>1
  <2> QED BY <1>5, <2>1, <2>2, <2>3
<1>13. CASE Tick \/ Disconnect \/ Cancel \/ ConnectOK \/ WaitEnds \/ Recheck \/ Close
  BY <1>3, <1>13 DEF Tick, Disconnect, Cancel, ConnectOK, WaitEnds, Recheck, Close
<1>14. CASE Return \/ ConnectErr \/ ReplayDone \/ PublishCancelled \/ FallbackInterval \/ Connected
  BY <1>3, <1>14 DEF Return, ConnectErr, ReplayDone, PublishCancelled, FallbackInterval, Connected, Step
<1>15. CASE UNCHANGED vars
  BY <1>3, <1>15 DEF vars
<1> QED
  BY <1>6, <1>7, <1>8, <1>9, <1>11, <1>12, <1>13, <1>14, <1>15
  DEF Next, Publisher, Environment, FallbackDrain, BufferFromChannel

\* An offered event is new, so it has no fate yet.
LEMMA OfferKeepsFates ==
  ASSUME TypeOK, LineUp, Ahead, LostWereOffered, OneFate, Emit
  PROVE  OneFate'
<1> DEFINE e == emitted + 1
<1>1. /\ emitted \in Nat /\ eventCh \in Seq(Nat) /\ e \in Nat
  BY DEF TypeOK
<1>2. UNCHANGED <<edgeBuf, replay, payload, sent, nacked, expired, unacked>>
  BY DEF Emit, history, queues, link
<1>3. \A x \in Held \cup Lost \cup Range(sent) : x \in Nat /\ x <= emitted
  BY DEF Ahead, LineUp, Held, LostWereOffered
<1>4. e \notin Held \cup Lost \cup Range(sent)
  BY <1>1, <1>3
<1>5. \/ Held' = Held \cup {e} /\ Lost' = Lost /\ overflow' = overflow
      \/ Held' = Held /\ Lost' = Lost \cup {e} /\ overflow' = overflow \cup {e}
  <2>1. CASE eventCh' = Append(eventCh, e) /\ UNCHANGED overflow
    <3>1. Range(eventCh') = Range(eventCh) \cup {e}
      BY <1>1, <2>1, AppendFacts
    <3> QED BY <1>2, <2>1, <3>1 DEF Held, Lost
  <2>2. CASE overflow' = overflow \cup {e} /\ UNCHANGED eventCh
    BY <1>2, <2>2 DEF Held, Lost
  <2> QED BY <2>1, <2>2 DEF Emit
<1> HIDE DEF e
<1>6. e \notin Held /\ e \notin expired /\ e \notin unacked /\ e \notin Range(sent) /\ e \notin Lost
  BY <1>4 DEF Lost
<1> QED BY <1>2, <1>5, <1>6 DEF OneFate

\* Only offered events are given up.
LEMMA LostStep ==
  ASSUME TypeOK, LineUp, LostWereOffered, [Next]_vars
  PROVE  LostWereOffered'
<1>1. emitted \in Nat
  BY DEF TypeOK
<1>2. CASE Emit
  <2>1. emitted' = emitted + 1 /\ UNCHANGED <<expired, unacked>> /\ overflow' \subseteq overflow \cup {emitted + 1}
    BY <1>2 DEF Emit
  <2>2. Lost' \subseteq Lost \cup {emitted + 1}
    BY <2>1 DEF Lost
  <2> QED BY <1>1, <2>1, <2>2 DEF LostWereOffered
<1>3. CASE ~Emit
  <2>1. emitted' = emitted /\ Lost' \subseteq Lost \cup Held
    BY <1>3, OnlyHeld
  <2>2. \A x \in Held : x \in Nat /\ x <= emitted
    BY DEF LineUp, Held
  <2> QED BY <2>1, <2>2 DEF LostWereOffered
<1> QED BY <1>2, <1>3

\* Every event the collectors offered has one fate, at any time: it is held by the agent, it was
\* refused by the full channel, it outlived the edge buffer, it was given up after a publish that
\* was lost, or it arrived.  An event is in two places only where its live publish failed although
\* the server stored it (Accounted says that it is in one at least).
THEOREM FatesAreOne == Spec => []OneFate
<1> DEFINE I == LostWereOffered /\ OneFate
<1>1. Init => I
  BY EmptyRange, IdsEmpty DEF Init, LostWereOffered, OneFate, Held, Lost
<1>2. TypeOK /\ LineUp /\ ArrivalInv /\ I /\ [Next]_vars => I'
  BY LostStep, OfferKeepsFates, StepKeepsFates DEF ArrivalInv
<1> QED BY <1>1, <1>2, TypeCorrect, LineUpInvariant, ArrivalInvariant, PTL DEF Spec

-----------------------------------------------------------------------------
\* How often an event arrives, by what happened to it.

\* On core NATS an event arrives at most once; with JetStream at most twice, and a third time
\* only where its live publish returned an error.
CopiesByFate ==
  /\ TRUE \notin JSModes => nacked = {}
  /\ \A e \in 1..emitted :
       Copies(e) <= IF e \in nacked THEN 3 ELSE IF TRUE \in JSModes THEN 2 ELSE 1

\* Its inductive form: a connection has a JetStream context only where one is possible.
CopiesByFateInv ==
  /\ TRUE \notin JSModes => nacked = {} /\ ~js
  /\ \A e \in Nat : e \notin nacked => Copies(e) <= IF TRUE \in JSModes THEN 2 ELSE 1

\* What a step publishes was held, and it is published twice only by a replay on JetStream.
LEMMA WhatArrives ==
  ASSUME TypeOK, [Next]_vars
  PROVE  /\ \/ UNCHANGED sent
            \/ \E e \in Held, n \in 0..2 : Arrive(e, n) /\ (n = 2 => js)
         /\ nacked \subseteq nacked' /\ (nacked' # nacked => js)
         /\ js' = js \/ js' \in JSModes
<1> USE DEF world, queues, link, history
<1>1. CASE Emit
  BY <1>1 DEF Emit
<1>2. CASE FallbackDrain \/ BufferFromChannel
  BY <1>2 DEF FallbackDrain, BufferFromChannel, Stash, Step
<1>3. CASE Drain \/ Receive \/ NotConnected
  BY <1>3 DEF Drain, Receive, NotConnected
<1>4. CASE ReplayOne
  <2>1. replay # <<>> /\ UNCHANGED <<nacked, js>>
    BY <1>4 DEF ReplayOne
  <2>2. \E n \in 0..2 : Arrive(Head(replay), n) /\ (n = 2 => js)
    BY <1>4 DEF ReplayOne, ReplayCopies
  <2>3. Head(replay) \in Held
    <3>1. Range(replay) = {Head(replay)} \cup Range(Tail(replay))
      BY <2>1, TailFacts DEF TypeOK
    <3> QED BY <3>1 DEF Held
  <2> QED BY <2>1, <2>2, <2>3
<1>5. CASE PublishErr \/ PublishAcked \/ PublishCore
  <2>1. /\ pc = "send" /\ UNCHANGED js
        /\ \/ nacked' = nacked
           \/ js /\ (nacked' = nacked \cup {Head(payload)})
    BY <1>5 DEF PublishErr, PublishAcked, PublishCore, Goto
  <2>2. \E n \in 0..1 : Arrive(Head(payload), n)
    BY <1>5 DEF PublishErr, PublishAcked, PublishCore
  <2>3. \E n \in 0..2 : Arrive(Head(payload), n) /\ (n = 2 => js)
    BY <2>2
  <2>4. Head(payload) \in Held
    BY <2>1, PayloadRange DEF Held
  <2>5. nacked \subseteq nacked' /\ (nacked' # nacked => js)
    BY <2>1
  <2>6. \E e \in Held, n \in 0..2 : Arrive(e, n) /\ (n = 2 => js)
    BY <2>3, <2>4
  <2>7. js' = js
    BY <2>1
  <2> QED BY <2>5, <2>6, <2>7, Zenon
<1>6. CASE ConnectOK
  BY <1>6 DEF ConnectOK
<1>7. CASE Tick \/ Disconnect \/ Cancel \/ WaitEnds \/ Recheck \/ Close
  BY <1>7 DEF Tick, Disconnect, Cancel, WaitEnds, Recheck, Close
<1>8. CASE Return \/ ConnectErr \/ ReplayDone \/ PublishCancelled \/ FallbackInterval \/ Connected
  BY <1>8 DEF Return, ConnectErr, ReplayDone, PublishCancelled, FallbackInterval, Connected, Step
<1>9. CASE UNCHANGED vars
  BY <1>9 DEF vars
<1> QED
  BY <1>1, <1>2, <1>3, <1>4, <1>5, <1>6, <1>7, <1>8, <1>9 DEF Next, Publisher, Environment

\* What has not arrived has no copies.
LEMMA NoneArrived ==
  ASSUME NEW e, e \notin Range(sent)
  PROVE  Copies(e) = 0
<1>1. {i \in DOMAIN sent : sent[i] = e} = {}
  BY DEF Range
<1> QED BY <1>1, FS_EmptySet DEF Copies

\* A step keeps the bounds: an event that is held and whose publish has not failed has not arrived.
LEMMA CopiesByFateStep ==
  ASSUME TypeOK, LineUp, OneFate, CopiesByFateInv, [Next]_vars
  PROVE  CopiesByFateInv'
<1> DEFINE bound == IF TRUE \in JSModes THEN 2 ELSE 1
<1>1. /\ \/ UNCHANGED sent
         \/ \E e \in Held, n \in 0..2 : Arrive(e, n) /\ (n = 2 => js)
      /\ nacked \subseteq nacked' /\ (nacked' # nacked => js)
      /\ js' = js \/ js' \in JSModes
  BY WhatArrives
<1>2. JSModes \subseteq BOOLEAN /\ js \in BOOLEAN
  BY TelemetryAssumption DEF TypeOK
<1>3. TRUE \notin JSModes => nacked' = {} /\ ~js'
  <2>1. TRUE \notin JSModes => nacked = {} /\ ~js
    BY DEF CopiesByFateInv
  <2>2. ASSUME TRUE \notin JSModes PROVE JSModes \subseteq {FALSE}
    BY <1>2, <2>2
  <2> SUFFICES ASSUME TRUE \notin JSModes PROVE nacked' = {} /\ js' = FALSE
    OBVIOUS
  <2>3. js = FALSE /\ nacked = {}
    BY <1>2, <2>1
  <2>4. js' = FALSE
    BY <1>1, <2>2, <2>3, Zenon
  <2>5. nacked' = {}
    BY <1>1, <2>3
  <2> QED BY <2>4, <2>5
<1>4. \A e \in Nat : e \notin nacked => Copies(e) <= bound
  BY DEF CopiesByFateInv
<1>5. CASE UNCHANGED sent
  <2>1. \A e \in Nat : Copies(e)' = Copies(e)
    BY <1>5 DEF Copies
  <2>2. \A e \in Nat : e \notin nacked' => Copies(e)' <= bound
    BY <1>1, <1>4, <2>1
  <2> QED BY <1>3, <2>2 DEF CopiesByFateInv
<1>6. ASSUME NEW e \in Held, NEW n \in 0..2, Arrive(e, n), n = 2 => js
      PROVE  CopiesByFateInv'
  <2>1. sent \in Seq(Nat) /\ e \in Nat
    BY DEF TypeOK, LineUp, Held
  <2>2. Copies(e)' <= Copies(e) + n /\ \A x \in Nat : x # e => Copies(x)' = Copies(x)
    BY <1>6, <2>1, CopiesArrive
  <2>3. e \notin nacked => Copies(e) = 0
    BY NoneArrived DEF OneFate
  <2>4. n <= bound
    <3>1. CASE TRUE \in JSModes
      BY <3>1
    <3>2. CASE TRUE \notin JSModes
      <4>1. n # 2
        BY <1>6, <3>2 DEF CopiesByFateInv
      <4> QED BY <3>2, <4>1
    <3> QED BY <3>1, <3>2
  <2>5. Copies(e)' \in Nat
    <3>1. sent' \in Seq(Nat)
      BY <1>6, <2>1, ArriveType
    <3>2. IsFiniteSet(1..Len(sent')) /\ DOMAIN sent' = 1..Len(sent')
      BY <3>1, FS_Interval
    <3>3. {i \in DOMAIN sent' : sent'[i] = e} \in SUBSET (1..Len(sent'))
      BY <3>2
    <3>4. IsFiniteSet({i \in DOMAIN sent' : sent'[i] = e})
      BY <3>2, <3>3, FS_Subset
    <3> QED BY <3>4, FS_CardinalityType DEF Copies
  <2>6. \A x \in Nat : x \notin nacked' => Copies(x)' <= bound
    <3> SUFFICES ASSUME NEW x \in Nat, x \notin nacked' PROVE Copies(x)' <= bound
      OBVIOUS
    <3>1. x \notin nacked
      BY <1>1
    <3>2. CASE x # e
      BY <1>4, <2>2, <3>1, <3>2
    <3>3. CASE x = e
      <4>1. Copies(e)' <= 0 + n
        BY <2>2, <2>3, <3>1, <3>3
      <4>2. bound \in Nat
        OBVIOUS
      <4> HIDE DEF bound
      <4> QED BY <2>4, <2>5, <3>3, <4>1, <4>2
    <3> QED BY <3>2, <3>3
  <2> QED BY <1>3, <2>6 DEF CopiesByFateInv
<1> QED BY <1>1, <1>5, <1>6

\* How often an event can arrive, by what happened to it.  Three copies need a live JetStream
\* publish that returned an error; without that a replay stores an event twice at worst; and a
\* deployment without JetStream never duplicates one.
THEOREM CopiesPerFate == Spec => []CopiesByFate
<1>1. Init => CopiesByFateInv
  <2> SUFFICES ASSUME Init PROVE CopiesByFateInv
    OBVIOUS
  <2>1. Range(sent) = {} /\ nacked = {} /\ js = FALSE
    BY EmptyRange DEF Init
  <2>2. \A e \in Nat : Copies(e) = 0
    BY <2>1, NoneArrived
  <2>3. \A e \in Nat : Copies(e) <= IF TRUE \in JSModes THEN 2 ELSE 1
    <3>1. 0 <= IF TRUE \in JSModes THEN 2 ELSE 1
      OBVIOUS
    <3> QED BY <2>2, <3>1
  <2>4. TRUE \notin JSModes => nacked = {} /\ ~js
    BY <2>1
  <2> QED BY <2>3, <2>4 DEF CopiesByFateInv
<1>2. TypeOK /\ CopiesInv /\ CopiesByFateInv => CopiesByFate
  <2> SUFFICES ASSUME TypeOK, CopiesInv, CopiesByFateInv PROVE CopiesByFate
    OBVIOUS
  <2>1. \A e \in 1..emitted : e \in Nat
    BY DEF TypeOK
  <2>2. \A e \in Nat : Copies(e) <= 3 /\ (e \notin nacked => Copies(e) <= IF TRUE \in JSModes THEN 2 ELSE 1)
    BY DEF CopiesInv, CopiesByFateInv
  <2>3. TRUE \notin JSModes => nacked = {}
    BY DEF CopiesByFateInv
  <2> QED BY <2>1, <2>2, <2>3 DEF CopiesByFate
<1>3. Spec => []CopiesInv
  BY InitCopies, CopiesStep, TypeCorrect, LineUpInvariant, PTL DEF Spec
<1> QED BY <1>1, <1>2, <1>3, CopiesByFateStep, TypeCorrect, LineUpInvariant, FatesAreOne, PTL DEF Spec
==============================================================================
