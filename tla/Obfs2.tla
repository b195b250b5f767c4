-------------------------------- MODULE Obfs2 --------------------------------
(***************************************************************************)
(* Both ends of an obfs2 connection (transports/obfs2/obfs2.go), with the  *)
(* conventions of Obfs3.  Seed and header are one token each (both are     *)
(* read with ReadFull); an encrypted token names its key and its place in  *)
(* the key stream.                                                         *)
(***************************************************************************)
EXTENDS Integers, Sequences, SequencesExt, TLC

CONSTANTS MaxPadding,  \* maxPadding
          Env          \* environments: pads, data, broken as in Obfs3

Ends == {"init", "resp"}
Peer(s) == IF s = "init" THEN "resp" ELSE "init"

VARIABLES env, sys
vars == <<env, sys>>

NewEnd == [pc |-> "new", peerSeed |-> <<>>, padLen |-> 0, tx |-> <<>>, rx |-> <<>>,
           wire |-> <<>>, taken |-> 0, sent |-> 0, got |-> <<>>]
Init == env \in Env /\ sys = [s \in Ends |-> NewEnd]

Step(s, rec) == sys' = [sys EXCEPT ![s] = rec @@ @] /\ UNCHANGED env

\* mac and hsKdf: the key is named by what is hashed.  The seeds are fresh, so each is
\* named by its end.
HsKdf(magic, seed) == <<magic, seed>>
PadMagic(s) == <<s, "obfuscation padding">>
DataMagic(s) == <<s, "obfuscated data">>

Coming(s) == SubSeq(sys[Peer(s)].wire, sys[s].taken + 1, Len(sys[Peer(s)].wire))
Taking(s, n, rec) == Step(s, [taken |-> sys[s].taken + n] @@ rec)

-----------------------------------------------------------------------------
(* handshake. *)

SendSeed(s) == /\ sys[s].pc = "new"
               /\ \E n \in env.pads :
                    Step(s, [pc |-> "seed", tx |-> HsKdf(PadMagic(s), s),
                             wire |-> <<<<"seed", s>>, <<"header", HsKdf(PadMagic(s), s), n>>>>
                                      \o [i \in 1..n |-> <<"pad">>]])

TakeSeed(s) == /\ sys[s].pc = "seed" /\ Coming(s) # <<>>
               /\ LET seed == Head(Coming(s))[2] IN
                  Taking(s, 1, [pc |-> "header", peerSeed |-> seed, rx |-> HsKdf(PadMagic(Peer(s)), seed)])

\* The magic value comes out right if the header was encrypted with the key derived.
TakeHeader(s) == /\ sys[s].pc = "header" /\ Coming(s) # <<>>
                 /\ LET hdr == Head(Coming(s)) IN
                    IF hdr[1] = "header" /\ hdr[2] = sys[s].rx /\ hdr[3] <= MaxPadding
                    THEN Taking(s, 1, [pc |-> "padding", padLen |-> hdr[3]])
                    ELSE Step(s, [pc |-> "failed"])

\* kdf: both seeds, the initiator's first.
CombSeed(s) == IF s = "init" THEN <<s, sys[s].peerSeed>> ELSE <<sys[s].peerSeed, s>>

TakePadding(s) == /\ sys[s].pc = "padding" /\ Len(Coming(s)) >= sys[s].padLen
                  /\ Taking(s, sys[s].padLen, [pc |-> "up", tx |-> HsKdf(DataMagic(s), CombSeed(s)),
                                               rx |-> HsKdf(DataMagic(Peer(s)), CombSeed(s))])

Fails(s) == /\ sys[s].pc # "failed" /\ (env.broken \/ sys[Peer(s)].pc = "failed")
            /\ Step(s, [pc |-> "failed"])

-----------------------------------------------------------------------------
(* Write and Read. *)

Write(s) == /\ sys[s].pc = "up" /\ sys[s].sent < env.data
            /\ Step(s, [sent |-> sys[s].sent + 1,
                        wire |-> Append(sys[s].wire, <<"data", sys[s].tx, sys[s].sent + 1>>)])

Read(s) == /\ sys[s].pc = "up"
           /\ \E n \in 1..Len(Coming(s)) :
                Taking(s, n, [got |-> sys[s].got \o [i \in 1..n |->
                                IF Coming(s)[i] = <<"data", sys[s].rx, Len(sys[s].got) + i>>
                                THEN Len(sys[s].got) + i ELSE "garbage"]])

Next == \E s \in Ends : SendSeed(s) \/ TakeSeed(s) \/ TakeHeader(s) \/ TakePadding(s) \/ Fails(s) \/ Write(s) \/ Read(s)
Spec == Init /\ [][Next]_vars

-----------------------------------------------------------------------------
(* Properties. *)

\* Each end decrypts with the key the other encrypts with, in both directions.
KeysAgree == \A s \in Ends : sys[s].pc = "up" /\ sys[Peer(s)].pc = "up" => sys[s].tx = sys[Peer(s)].rx

\* The padding is skipped exactly, whatever its length, and the data is decrypted from its
\* first byte on, in order.
InStep == \A s \in Ends : /\ ~env.broken => sys[s].pc # "failed"
                          /\ sys[s].got = [i \in 1..Len(sys[s].got) |-> i]
=============================================================================
