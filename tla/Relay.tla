------------------------------- MODULE Relay -------------------------------
(***************************************************************************)
(* What one pluggable-transport connection promises to the two programs it *)
(* joins (the SOCKS client of the Tor client, the ORPort of the bridge):   *)
(* in each direction, the segments handed to it come out on the other side *)
(* in the order they went in, none twice, none missing between two that    *)
(* came out.  A connection may stop at any point, so this is all it        *)
(* promises when it breaks.                                                *)
(*                                                                         *)
(* The segments of a direction are numbered 1, 2, 3, ... in the order in   *)
(* which the upstream reader took them.                                    *)
(***************************************************************************)
EXTENDS Naturals, Sequences

CONSTANT Side,      \* the two ends of the connection
         Peer(_)    \* the other end

VARIABLES accepted, \* accepted[s]: how many segments end s has taken from its program
          output    \* output[s]: the numbers of the segments end s gave to its program

relayVars == <<accepted, output>>

\* The k segments that follow the ones already in the log o.
Following(o, k) == [i \in 1..k |-> Len(o) + i]

Init ==
  /\ accepted = [s \in Side |-> 0]
  /\ output = [s \in Side |-> <<>>]

Accept(s) ==
  /\ accepted'[s] \in Nat /\ accepted'[s] > accepted[s]
  /\ accepted' = [accepted EXCEPT ![s] = accepted'[s]]
  /\ UNCHANGED output

Deliver(s) ==
  /\ \E k \in 1..(accepted[Peer(s)] - Len(output[s])) :
        output' = [output EXCEPT ![s] = @ \o Following(@, k)]
  /\ UNCHANGED accepted

Next == \E s \in Side : Accept(s) \/ Deliver(s)

Spec == Init /\ [][Next]_relayVars
=============================================================================
