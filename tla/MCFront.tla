------------------------------ MODULE MCFront ------------------------------
(* Instances of Front for TLC. *)
EXTENDS Front

Meets(up, pieces, ticks, ends) ==
  [segs |-> [s \in Side |-> IF s = Client THEN up ELSE 0], pieces |-> pieces,
   ticks |-> ticks, ends |-> ends]

\* The client draws one or two dummies, or each end one.
Uneven == [s \in Side |-> IF s = Client THEN 3 ELSE 2]
Even   == [s \in Side |-> 2]

\* The defence starts, stops and starts again; it starts from Ready and stops while
\* more data comes; it starts and stops; the bridge's program ends its stream.
Restarts  == Meets(4, {2}, TRUE, {})
FromReady == Meets(3, {1}, TRUE, {})
Ticks     == Meets(2, {2}, TRUE, {})
Ends      == Meets(2, {2}, FALSE, {Server})

Interleaved == {Restarts, FromReady}
Winding     == {Ticks, Ends}
=============================================================================
