------------------------------ MODULE MCWFGan ------------------------------
(* Instances of WFGan for TLC. *)
EXTENDS WFGan

Meets(up, down, gan, ticks) ==
  [chunks |-> [s \in Side |-> IF s = Client THEN up ELSE down], gan |-> gan, ticks |-> ticks]

\* One read of more than a cell, or two small ones; no generator, and one that fails.
Generated == {Meets(<<600>>, <<600>>, "answers", 1), Meets(<<500, 100>>, <<600>>, "answers", 1),
              Meets(<<600>>, <<>>, "absent", 0), Meets(<<600>>, <<600>>, "fails", 1)}
\* The network may give no response at all; the generator then asks for a cell.
Drawn == {<<1072, 0>>}
=============================================================================
