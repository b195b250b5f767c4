----------------------------- MODULE MCRandomWT -----------------------------
(* Instances of RandomWT for TLC. *)
EXTENDS RandomWT

Meets(up, down, ends, k, t) ==
  [chunks |-> [s \in Side |-> IF s = Client THEN up ELSE down],
   ends |-> ends, kicks |-> k, ticks |-> t]

\* Data both ways while the ticker fires; either program ends; two turns at once.
Talks  == Meets(<<2, 1>>, <<1>>, {}, 0, 1)
Ends   == {Meets(<<2>>, <<>>, {Client}, 0, 1), Meets(<<1>>, <<1>>, {Server}, 0, 0),
           Meets(<<2>>, <<1>>, {Server}, 0, 1)}
Kicked == Meets(<<2>>, <<>>, {}, 1, 0)

All == Ends \cup {Talks, Kicked}
=============================================================================
