------------------------------ MODULE UniformDH ------------------------------
(***************************************************************************)
(* The UniformDH key exchange (common/uniformdh) over a group of any size. *)
(***************************************************************************)
EXTENDS Integers

CONSTANTS Modp, Gen  \* modpGroup, gen

\* big.Int.Exp
Exp(b, n) == LET pow[k \in 0..n] == IF k = 0 THEN 1 ELSE (pow[k - 1] * b) % Modp IN pow[n]

\* A bug: X is computed before the low bit of the private key is cleared.
GenerateKeyEarly(raw) ==
  [priv |-> raw - (raw % 2), pub |-> IF raw % 2 = 0 THEN Exp(Gen, raw) ELSE Modp - Exp(Gen, raw)]

\* The low bit of the random number is cleared and decides between X and p - X.
GenerateKey(raw) == LET x == raw - (raw % 2)
                    IN [priv |-> x, pub |-> IF raw % 2 = 0 THEN Exp(Gen, x) ELSE Modp - Exp(Gen, x)]

Handshake(priv, pub) == Exp(pub, priv)
=============================================================================
