------------------------------- MODULE Queues -------------------------------
(***************************************************************************)
(* What a queue of packets between the two ends of a connection holds: the *)
(* segments it carries, and the state of the defence it announces.         *)
(* How often a packet of some kind occurs in it is counted here too.       *)
(* A packet of a connection that numbers its segments is a record with the *)
(* fields type and, if that is "Payload", seg.                             *)
(***************************************************************************)
EXTENDS Integers, Sequences, FiniteSets

\* The payload packets of q carry the segments lo+1 .. hi, each once, in this order.
Carries(q, lo, hi) ==
  /\ lo <= hi
  /\ \A i \in 1..Len(q) : q[i].type = "Payload" => lo < q[i].seg /\ q[i].seg <= hi
  /\ \A i, j \in 1..Len(q) :
        i < j /\ q[i].type = "Payload" /\ q[j].type = "Payload" => q[i].seg < q[j].seg
  /\ \A n \in (lo + 1)..hi :
        \E i \in 1..Len(q) : q[i].type = "Payload" /\ q[i].seg = n

\* q holds neither of the signals on and off.
NoSignal(q, on, off) == \A i \in 1..Len(q) : q[i] \notin {on, off}

\* Whoever has followed the signals of q up to now, and is defending if was holds, will
\* defend after q if and only if is holds.
Announces(q, on, off, was, is) ==
  /\ NoSignal(q, on, off) => (was <=> is)
  /\ \A i \in 1..Len(q) :
       q[i] \in {on, off} /\ (\A j \in (i + 1)..Len(q) : q[j] \notin {on, off})
          => (is <=> q[i] = on)
\* How many packets of q are in S.
Occurrences(q, S) == Cardinality({i \in 1..Len(q) : q[i] \in S})
=============================================================================
