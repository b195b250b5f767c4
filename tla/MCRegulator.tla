---------------------------- MODULE MCRegulator ----------------------------
(* Instances of Regulator for TLC. *)
EXTENDS Regulator

Meets(up, down, ends, ticks, ahead) ==
  [chunks |-> [s \in Side |-> IF s = Client THEN up ELSE down], ends |-> ends, ticks |-> ticks,
   ahead |-> ahead]

\* The defence starts, stops and starts again; the bridge's clock is ahead; either program
\* ends, the bridge's with a clock that is ahead.
Restarts   == Meets(<<2, 2>>, <<1>>, {}, 1, FALSE)
Ahead      == Meets(<<2>>, <<1>>, {}, 0, TRUE)
ClientEnds == Meets(<<1, 1>>, <<>>, {Client}, 0, FALSE)
BridgeEnds == Meets(<<2>>, <<1>>, {Server}, 0, TRUE)

Connections == {Restarts, Ahead, ClientEnds, BridgeEnds}
=============================================================================
