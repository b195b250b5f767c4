-------------------------------- MODULE Obfs3 --------------------------------
(***************************************************************************)
(* Both ends of an obfs3 connection (transports/obfs3/obfs3.go).           *)
(*                                                                         *)
(* What an end has written to the network is a sequence of tokens, the     *)
(* reader takes any number of them at a time.  A public key is one token   *)
(* (it is read with ReadFull), padding, magic value and data are tokens    *)
(* per byte.  An encrypted byte names its key, its place in the key stream *)
(* and its value.                                                          *)
(***************************************************************************)
EXTENDS Integers, Sequences, SequencesExt, TLC, UniformDH

CONSTANTS MaxPadding, MagicLen,  \* maxPadding, sha256.Size
          Env  \* environments, records with fields
               \*   raw     the random numbers keys are made from, per end
               \*   pads    the lengths of padding drawn
               \*   data    the bytes each end writes
               \*   broken  may the network fail and deadlines pass?

Ends == {"init", "resp"}
Peer(s) == IF s = "init" THEN "resp" ELSE "init"

VARIABLES env,  \* the environment, fixed from the start
          sys   \* both ends
vars == <<env, sys>>

\* wire holds every token the end has written, taken how many of the peer's it has read.
NewEnd == [pc |-> "new", key |-> <<>>, secret |-> 0, txMagic |-> TRUE, rxMagic |-> TRUE,
           wire |-> <<>>, taken |-> 0, rxBuf |-> <<>>, sent |-> 0, got |-> <<>>]
Init == env \in Env /\ sys = [s \in Ends |-> NewEnd]

Step(s, rec) == sys' = [sys EXCEPT ![s] = rec @@ @] /\ UNCHANGED env

Pads(n) == [i \in 1..n |-> <<"pad">>]
Magic(s, secret) == [i \in 1..MagicLen |-> <<"magic", secret, s, i>>]
Coming(s) == SubSeq(sys[Peer(s)].wire, sys[s].taken + 1, Len(sys[Peer(s)].wire))

-----------------------------------------------------------------------------
(* handshake. *)

SendKey(s) == /\ sys[s].pc = "new"
              /\ \E r \in env.raw[s], n \in env.pads :
                   LET k == GenerateKey(r) IN
                   Step(s, [pc |-> "key", key |-> k, wire |-> <<<<"key", k.pub>>>> \o Pads(n)])

TakeKey(s) == /\ sys[s].pc = "key" /\ Coming(s) # <<>>
              /\ Step(s, [pc |-> "up", taken |-> 1,
                          secret |-> Handshake(sys[s].key.priv, Head(Coming(s))[2])])

\* An I/O error or a deadline; the connection is closed.
Fails(s) == /\ sys[s].pc \in {"new", "key", "up"} /\ (env.broken \/ sys[Peer(s)].pc = "failed")
            /\ Step(s, [pc |-> "failed"])

-----------------------------------------------------------------------------
(* Write and Read. *)

\* The first Write sends padding and the magic value ahead of the data.
Write(s) == /\ sys[s].pc = "up" /\ sys[s].sent < env.data
            /\ \E n \in IF sys[s].txMagic THEN env.pads ELSE {0} :
                 Step(s, [txMagic |-> FALSE, sent |-> sys[s].sent + 1,
                          wire |-> sys[s].wire \o (IF sys[s].txMagic THEN Pads(n) \o Magic(s, sys[s].secret) ELSE <<>>)
                                   \o <<<<"data", sys[s].secret, s, sys[s].sent + 1>>>>])

\* bytes.Index: where the magic value begins, 0-based, or -1.
Index(buf, magic) ==
  LET at == {i \in 0..(Len(buf) - MagicLen) : SubSeq(buf, i + 1, i + MagicLen) = magic}
  IN IF at = {} THEN -1 ELSE Min(at)

\* findPeerMagic, one read of it.
FindMagic(s) == /\ sys[s].pc = "up" /\ sys[s].rxMagic
                /\ \E n \in 1..Len(Coming(s)) :
                   /\ n <= MaxPadding + MagicLen
                   /\ LET buf == sys[s].rxBuf \o SubSeq(Coming(s), 1, n)
                          pos == Index(buf, Magic(Peer(s), sys[s].secret))
                          more == [taken |-> sys[s].taken + n, rxBuf |-> buf]
                          found == SubSeq(buf, pos + MagicLen + 1, Len(buf))
                      IN IF pos = -1 /\ Len(buf) < MaxPadding + MagicLen THEN Step(s, more)
                         ELSE IF pos = -1 \/ pos > MaxPadding THEN Step(s, [pc |-> "failed"])
                         ELSE Step(s, [rxMagic |-> FALSE, rxBuf |-> found] @@ more)

\* The key stream of an end is at the number of bytes decrypted so far.
Decrypt(s, i, token) == IF token = <<"data", sys[s].secret, Peer(s), Len(sys[s].got) + i>>
                        THEN Len(sys[s].got) + i ELSE "garbage"
Deliver(s, tokens, rec) ==
  Step(s, [got |-> sys[s].got \o [i \in 1..Len(tokens) |-> Decrypt(s, i, tokens[i])]] @@ rec)

\* What is left of the handshake is read first, then the network.
ReadBuffer(s) == /\ sys[s].pc = "up" /\ ~sys[s].rxMagic /\ sys[s].rxBuf # <<>>
                 /\ \E n \in 1..Len(sys[s].rxBuf) :
                      Deliver(s, SubSeq(sys[s].rxBuf, 1, n),
                              [rxBuf |-> SubSeq(sys[s].rxBuf, n + 1, Len(sys[s].rxBuf))])
ReadNet(s) == /\ sys[s].pc = "up" /\ ~sys[s].rxMagic /\ sys[s].rxBuf = <<>>
              /\ \E n \in 1..Len(Coming(s)) : Deliver(s, SubSeq(Coming(s), 1, n), [taken |-> sys[s].taken + n])

Next == \E s \in Ends : SendKey(s) \/ TakeKey(s) \/ Fails(s) \/ Write(s) \/ FindMagic(s) \/ ReadBuffer(s) \/ ReadNet(s)
Spec == Init /\ [][Next]_vars

-----------------------------------------------------------------------------
(* Properties. *)

\* Two ends that finished the handshake have the same secret, whichever of X and p - X each
\* of them sent (uniformdh.go:112).
KeysAgree == \A s, t \in Ends : sys[s].pc = "up" /\ sys[t].pc = "up" => sys[s].secret = sys[t].secret

\* However the stream is cut, across the magic value too, both padding lengths are accepted
\* and the data is decrypted from its first byte on, in order.
InStep == \A s \in Ends : /\ ~env.broken => sys[s].pc # "failed"
                          /\ sys[s].got = [i \in 1..Len(sys[s].got) |-> i]
=============================================================================
