------------------------------ MODULE MCProxy ------------------------------
(* An instance of Proxy for TLC. *)
EXTENDS Proxy, TLC
CONSTANTS c1, c2, c3
MCConn == {c1, c2, c3}
Symmetric == Permutations(MCConn)
=============================================================================
