------------------------- MODULE MCServerHandshake -------------------------
(* Instances of ServerHandshake for TLC: messages of neighbouring hours, three connections. *)
EXTENDS ServerHandshake, TLC

CONSTANTS h1, h2, c1, c2, c3
MCHello == {h1, h2}
MCConn == {c1, c2, c3}
MCEpoch == (h1 :> 1 @@ h2 :> 2)
Symmetric == Permutations(MCConn)
=============================================================================
