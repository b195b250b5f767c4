---------------------------- MODULE ReplayFilter ----------------------------
(***************************************************************************)
(* The replay filter of the bridge (common/replayfilter): a map of the     *)
(* digests seen, and a list of the same digests in the order they were     *)
(* inserted, with the time the caller gave.  TestAndSet runs under the     *)
(* filter's mutex, so it is one step; the time it is called with was read  *)
(* before the mutex was taken, so calls may come with times in any order.  *)
(*                                                                         *)
(* SipHash under a random key is taken to be injective: a digest is the    *)
(* byte sequence itself.                                                   *)
(***************************************************************************)
EXTENDS Integers, Sequences

CONSTANTS Ttl,            \* how long an entry is kept
          MaxFilterSize   \* maxFilterSize

VARIABLES filter,  \* the keys of the map
          fifo     \* the list, eldest entry first: a digest and when it was first seen

FilterInit == filter = {} /\ fifo = <<>>

\* Is the filter so full that compactFilter purges an entry whatever its age?
Full(q) == Len(q) >= MaxFilterSize

\* compactFilter stops at an entry whose TTL has not passed.  With no TTL it never stops.
Kept(e, now) == Ttl > 0 /\ now - e.firstSeen < Ttl

\* How many entries compactFilter removes from the list before it stops: one if the
\* list is full, then all up to the first one that is kept.
Purged(q, now) ==
  LET forced == IF Full(q) THEN 1 ELSE 0
      stops == {i \in (forced + 1)..Len(q) : Kept(q[i], now)}
  IN IF stops = {} THEN Len(q)
     ELSE (CHOOSE i \in stops : \A j \in stops : i <= j) - 1

\* It stops at an entry from the future: the whole filter is reset.
Jumped(q, now) == Purged(q, now) < Len(q) /\ q[Purged(q, now) + 1].firstSeen > now

\* The list that compactFilter leaves.
Compacted(q, now) ==
  IF Jumped(q, now) THEN <<>> ELSE SubSeq(q, Purged(q, now) + 1, Len(q))

\* A bug: the purged entries leave the list but stay in the map.
NothingDeleted(q, now) == IF Jumped(q, now) THEN {q[i].digest : i \in 1..Len(q)} ELSE {}

\* The keys that compactFilter deletes from the map.
Deleted(q, now) ==
  IF Jumped(q, now) THEN {q[i].digest : i \in 1..Len(q)}
  ELSE {q[i].digest : i \in 1..Purged(q, now)}

\* What TestAndSet(now, d) returns.
Seen(now, d) == d \in filter \ Deleted(fifo, now)

\* TestAndSet(now, d).
TestAndSet(now, d) ==
  /\ filter' = (filter \ Deleted(fifo, now)) \cup {d}
  /\ fifo' = IF Seen(now, d) THEN Compacted(fifo, now)
             ELSE Append(Compacted(fifo, now), [digest |-> d, firstSeen |-> now])

-----------------------------------------------------------------------------
\* The map and the list hold the same digests, each once: an entry that leaves the list
\* leaves the map, so a digest is never refused for an entry that can no longer expire.
MapMatchesList ==
  /\ filter = {fifo[i].digest : i \in 1..Len(fifo)}
  /\ \A i, j \in 1..Len(fifo) : i # j => fifo[i].digest # fifo[j].digest
=============================================================================
