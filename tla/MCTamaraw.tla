----------------------------- MODULE MCTamaraw -----------------------------
(* Instances of Tamaraw for TLC: a few segments up, with or without an answer. *)
EXTENDS Tamaraw
Segs(up, down) == [s \in Side |-> IF s = Client THEN up ELSE down]
Mixed == {Segs(3, 0), Segs(2, 1)}
=============================================================================
