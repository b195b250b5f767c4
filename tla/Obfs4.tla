------------------------------- MODULE Obfs4 -------------------------------
(***************************************************************************)
(* One direction of an obfs4 connection after the handshake                *)
(* (transports/obfs4: Write, padBurst, makePacket, readPackets, Read; and  *)
(* framing: Encode, Decode).                                               *)
(*                                                                         *)
(* The byte stream is kept as the frames it consists of and as counts of   *)
(* bytes: written to the network, arrived, decoded.  A frame is a masked   *)
(* length and a box; box and length are right for the reader if the two    *)
(* ends are at the same nonce and at the same mask.  What the bytes of a   *)
(* box are, and tampering with them, is left out.  Delays are left out.    *)
(***************************************************************************)
EXTENDS Integers, Sequences, SequencesExt

CONSTANTS LengthLength,            \* lengthLength
          BoxOverhead,             \* secretbox.Overhead
          PacketOverhead,          \* packetOverhead
          MaximumSegmentLength,    \* MaximumSegmentLength
          Env                      \* environments, records with fields
                                   \*   writes  lengths of the calls of Write
                                   \*   iat     "none", "enabled" or "paranoid"
                                   \*   lens    the values of lenDist
                                   \*   counter number of values of the nonce counter
                                   \*   broken  may the network fail?

HeaderLength == LengthLength + BoxOverhead + PacketOverhead
MaxPacketPayloadLength == MaximumSegmentLength - HeaderLength

VARIABLES env,  \* the environment, fixed from the start
          sys   \* both ends
vars == <<env, sys>>

Init == /\ env \in Env
        /\ sys = [toWrite |-> env.writes,  \* calls of Write to come
                  wpc     |-> "idle",      \* where Write stands
                  nonce   |-> 1,           \* encoder: counter
                  mask    |-> 0,           \* encoder: blocks taken from drbg
                  frames  |-> <<>>,        \* every frame encoded
                  encoded |-> 0,           \* their bytes
                  written |-> 0,           \* bytes written to the network
                  accepted |-> 0,          \* bytes of data in the frames
                  rpc     |-> "read",      \* where Read stands
                  arrived |-> 0,           \* bytes read from the network
                  pos     |-> 0,           \* bytes decoded
                  at      |-> 1,           \* the frame they lead to
                  rnonce  |-> 1,           \* decoder: counter
                  rmask   |-> 0,           \* decoder: blocks taken from drbg
                  nextLength |-> 0,        \* decoder: nextLength
                  got     |-> 0,           \* bytes of data decoded
                  target  |-> 0]           \* history: the length the burst was padded to

\* r with the fields of rec.
With(r, rec) == [f \in DOMAIN r |-> IF f \in DOMAIN rec THEN rec[f] ELSE r[f]]
Step(rec) == sys' = With(sys, rec) /\ UNCHANGED env

-----------------------------------------------------------------------------
(* Encoding.  A burst is a list of packets, each [data, pad]. *)

Size(p) == HeaderLength + p.data + p.pad
Sum(burst) == FoldSeq(LAMBDA p, n : Size(p) + n, 0, burst)

\* Write chops its data into packets of the largest size.
Chopped(n) == LET k == (n + MaxPacketPayloadLength - 1) \div MaxPacketPayloadLength IN
  [i \in 1..k |-> [data |-> IF i < k THEN MaxPacketPayloadLength
                            ELSE n - (k - 1) * MaxPacketPayloadLength, pad |-> 0]]

Padding(n) == [data |-> 0, pad |-> n]

PadLen(len, toPadTo) == LET tail == len % MaximumSegmentLength IN
  IF toPadTo >= tail THEN toPadTo - tail ELSE MaximumSegmentLength - tail + toPadTo

\* A bug: the header of the padding packet is not counted.
PadBurstNoHeader(len, toPadTo) == LET n == PadLen(len, toPadTo) IN
  IF n > HeaderLength THEN <<Padding(n)>> ELSE IF n > 0 THEN <<Padding(MaxPacketPayloadLength), Padding(n)>>
  ELSE <<>>

\* padBurst: the packets that pad a burst of len bytes.
PadBurst(len, toPadTo) == LET n == PadLen(len, toPadTo) IN
  IF n > HeaderLength THEN <<Padding(n - HeaderLength)>>
  ELSE IF n > 0 THEN <<Padding(MaxPacketPayloadLength), Padding(n)>>
  ELSE <<>>

\* A bug: a counter that wrapped is used on.
EncodableWrapped(k) == TRUE

\* boxNonce.bytes: can k more packets be encoded before the counter is back at 0?
Encodable(k) == sys.nonce + k <= env.counter /\ sys.nonce # 0

\* makePacket and Encode for each packet of a burst: a nonce and a mask per frame.
Encoded(burst) == [i \in DOMAIN burst |->
  [nonce |-> (sys.nonce + i - 1) % env.counter, mask |-> sys.mask + i - 1,
   box |-> Size(burst[i]) - LengthLength, data |-> burst[i].data]]

Encode(burst, rec) ==
  /\ sys' = With(With(sys, rec),
                 [nonce |-> (sys.nonce + Len(burst)) % env.counter, mask |-> sys.mask + Len(burst),
                  frames |-> sys.frames \o Encoded(burst), encoded |-> sys.encoded + Sum(burst)])
  /\ UNCHANGED env

\* Write fails at the packet for which there is no nonce, and the packets before it have been
\* sealed; nothing of the burst is written.
EncodeFails(burst) == IF sys.nonce = 0 THEN Step([wpc |-> "failed"])
                      ELSE Encode(SubSeq(burst, 1, env.counter - sys.nonce), [wpc |-> "failed"])

-----------------------------------------------------------------------------
(* Write. *)

Data == Head(sys.toWrite)
WriteBegin == /\ sys.wpc = "idle" /\ sys.toWrite # <<>>
              /\ \E t \in IF env.iat = "paranoid" THEN {0} ELSE env.lens :
                 LET chopped == Chopped(Data)
                     burst == IF env.iat = "paranoid" THEN chopped
                              ELSE chopped \o PadBurst(Sum(chopped), t)
                 IN IF Encodable(Len(burst))
                    THEN Encode(burst, [wpc |-> "write", toWrite |-> Tail(sys.toWrite), target |-> t,
                                        accepted |-> sys.accepted + Data])
                    ELSE EncodeFails(burst)

Pending == sys.encoded - sys.written
Sent(n) == Step([written |-> sys.written + n, wpc |-> IF n = Pending THEN "idle" ELSE "write"])

\* iatNone writes everything at once, iatEnabled at most a segment at a time.
WriteOut == /\ sys.wpc = "write" /\ env.iat # "paranoid"
            /\ Sent(IF env.iat = "none" THEN Pending
                    ELSE IF Pending < MaximumSegmentLength THEN Pending ELSE MaximumSegmentLength)

\* iatParanoid draws the length of every write; it may have to pad, and a sample of 0 meets
\* the assertion that something is written.
WriteParanoid == /\ sys.wpc = "write" /\ env.iat = "paranoid"
                 /\ \E t \in env.lens :
                    \/ t = 0 /\ Step([wpc |-> "panic"])
                    \/ t > 0 /\ t <= Pending /\ Sent(t)
                    \/ /\ t > Pending
                       /\ LET pads == PadBurst(Pending, t) IN
                          IF ~Encodable(Len(pads)) THEN EncodeFails(pads)
                          ELSE IF Pending + Sum(pads) # t THEN Encode(pads, [wpc |-> "write"])
                          ELSE Encode(pads, [wpc |-> "idle", written |-> sys.written + t])

\* Partial writes are fatal.
WriteFails == sys.wpc = "write" /\ env.broken /\ Step([wpc |-> "failed"])

-----------------------------------------------------------------------------
(* Read and readPackets: one read of the network, then Decode until it asks for more. *)

NetRead == /\ sys.rpc = "read" /\ sys.arrived < sys.written
           /\ \E n \in 1..(sys.written - sys.arrived) :
                Step([arrived |-> sys.arrived + n, rpc |-> "decode"])

Buffered == sys.arrived - sys.pos
Frame == sys.frames[sys.at]

\* A bug: the length is taken from the stream again after ErrAgain.
DecodeLengthAgain == /\ sys.rpc = "decode" /\ LengthLength <= Buffered
                     /\ Step([pos |-> sys.pos + LengthLength, rmask |-> sys.rmask + 1,
                              nextLength |-> IF sys.rmask = Frame.mask THEN Frame.box ELSE Frame.box + 1])

\* A frame that unmasks wrongly gets a length that cannot be right.
DecodeLength == /\ sys.rpc = "decode" /\ sys.nextLength = 0 /\ LengthLength <= Buffered
                /\ Step([pos |-> sys.pos + LengthLength, rmask |-> sys.rmask + 1,
                         nextLength |-> IF sys.rmask = Frame.mask THEN Frame.box ELSE Frame.box + 1])

DecodeBox == /\ sys.rpc = "decode" /\ sys.nextLength > 0 /\ sys.nextLength <= Buffered
             /\ IF sys.nextLength = Frame.box /\ sys.rnonce = Frame.nonce
                THEN Step([pos |-> sys.pos + Frame.box, at |-> sys.at + 1, nextLength |-> 0,
                           rnonce |-> (sys.rnonce + 1) % env.counter, got |-> sys.got + Frame.data])
                ELSE Step([rpc |-> "mismatch"])

DecodeAgain == /\ sys.rpc = "decode"
               /\ Buffered < IF sys.nextLength = 0 THEN LengthLength ELSE sys.nextLength
               /\ Step([rpc |-> "read"])

Next == \/ WriteBegin \/ WriteOut \/ WriteParanoid \/ WriteFails
        \/ NetRead \/ DecodeLength \/ DecodeBox \/ DecodeAgain
Spec == Init /\ [][Next]_vars

-----------------------------------------------------------------------------
(* Properties. *)

\* framing.go:121: no two frames of a direction are sealed under one nonce, even when the
\* counter runs out in the middle of a Write or of its padding.
NonceFresh == \A i, j \in DOMAIN sys.frames : i # j => sys.frames[i].nonce # sys.frames[j].nonce

\* However the network cuts the stream into pieces, and however Write cuts and pads it, the
\* decoder stays in step: it never meets a wrong tag, and when it has decoded all frames it
\* has all the data they carry.
InStep == /\ sys.rpc # "mismatch"
          /\ sys.at > Len(sys.frames) => sys.got = sys.accepted

\* padBurst brings the end of a burst to the sampled length within a segment, but one
\* header further when two packets were needed.
PaddedTo == sys.wpc = "write" /\ sys.written = 0 /\ env.iat # "paranoid" =>
  LET n == PadLen(Sum(Chopped(Head(env.writes))), sys.target)
  IN sys.encoded % MaximumSegmentLength =
     (sys.target + IF n \in 1..HeaderLength THEN HeaderLength ELSE 0) % MaximumSegmentLength
=============================================================================
