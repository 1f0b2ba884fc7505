---------------------------- MODULE EventBuffer ----------------------------
(***************************************************************************)
(* The time-bounded edge buffer of the agent (internal/agent/buffer.go).   *)
(*                                                                         *)
(* A buffer is a sequence of entries; an entry is an event (its number,    *)
(* standing for the payload) and the time at which push stamped it.  The   *)
(* two operations that change a buffer are given by what they keep:        *)
(* push drops the longest expired prefix, drain hands out every entry that *)
(* is younger than MaxAge and empties the buffer.                          *)
(***************************************************************************)
EXTENDS Integers, Sequences, FiniteSets, Functions

CONSTANT MaxAge     \* the buffer's maxAge, in ticks of the clock

ASSUME MaxAgeAssumption == MaxAge \in Nat

Entry == [id : Nat, at : Nat]

\* The events of a buffer, oldest first.
Ids(buf) == [i \in DOMAIN buf |-> buf[i].id]

\* What push evicts: entries stamped Before(now - maxAge).
Mutant_ExpiredTooSoon(entry, now) == entry.at <= now - MaxAge
Expired(entry, now) == entry.at < now - MaxAge

\* What drain hands out: entries stamped After(now - maxAge).  An entry that
\* is exactly maxAge old is neither evicted by push nor returned by drain.
Fresh(entry, now) == entry.at > now - MaxAge

\* The eviction loop of push stops at index k: everything before is expired
\* and the entry after it, if any, is not.
EvictionStops(buf, now, k) ==
  /\ \A i \in 1..k : Expired(buf[i], now)
  /\ k < Len(buf) => ~Expired(buf[k + 1], now)

\* The buffer after push appended `id` at `now`, k expired entries evicted.
Pushed(buf, k, id, now) ==
  Append(SubSeq(buf, k + 1, Len(buf)), [id |-> id, at |-> now])

\* The positions of the entries that drain returns.
Kept(buf, now) == {i \in DOMAIN buf : Fresh(buf[i], now)}

\* The increasing listing of a finite set of integers (there is exactly one).
Listings(S) ==
  {f \in [1..Cardinality(S) -> S] :
      /\ Range(f) = S
      /\ \A i, j \in DOMAIN f : i < j => f[i] < f[j]}

\* What drain returns: the payloads at the listed positions, in that order.
Drained(buf, positions) == [i \in DOMAIN positions |-> buf[positions[i]].id]
=============================================================================
