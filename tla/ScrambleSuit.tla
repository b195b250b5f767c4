----------------------------- MODULE ScrambleSuit -----------------------------
(***************************************************************************)
(* A ScrambleSuit connection of the client (transports/scramblesuit):      *)
(* the UniformDH handshake, the packets that arrive, and Write.            *)
(*                                                                         *)
(* The server is external.  What it sends is one stream: its response      *)
(* (none after a ticket handshake), then packets.  The stream is kept as   *)
(* counts of bytes, arrived and consumed, cut anywhere.  A header decrypts *)
(* to what was sent if the key stream is where the sender's was.           *)
(***************************************************************************)
EXTENDS Integers, Sequences, SequencesExt, TLC, UniformDH

CONSTANTS SizeLen, MacLength, PktHdrLength,  \* uniformdh.Size, macLength, pktHdrLength
          MaxHandshakeLength, MaxSegmentLength, MaxPayloadLength,
          FirstPad,  \* 700, the size of the first of two padding packets
          Env  \* environments, records with fields
               \*   ticket   does a ticket handshake take place?
               \*   raw      the random numbers client and server make their keys from
               \*   pads     lengths of the padding in the response
               \*   packets  what the server sends, [type, data, pad]
               \*   writes   lengths of the calls of Write
               \*   broken   may the network, or the source of random numbers, fail?

PktOverhead == MacLength + PktHdrLength
MinHandshakeLength == SizeLen + 2 * MacLength

VARIABLES env,  \* the environment, fixed from the start
          sys   \* the connection
vars == <<env, sys>>

Init == /\ env \in Env
        /\ sys = [pc |-> "start", ticket |-> env.ticket,  \* does it still hold the ticket?
                  key |-> <<>>, skey |-> <<>>, respPad |-> 0,
                  keys |-> <<>>, skeys |-> <<>>,  \* <<outgoing, incoming>> of client and server
                  arrived |-> 0, pos |-> 0,       \* bytes of the stream read, and consumed
                  mac |-> FALSE, hdr |-> FALSE,   \* receiveState: are they stored?
                  totalLen |-> 0, at |-> 1,       \* the packet that comes next
                  ctr |-> 0,                      \* bytes taken from the incoming key stream
                  got |-> 0, tickets |-> 0, seeds |-> 0,
                  toWrite |-> env.writes, burst |-> 0, sample |-> 0, before |-> 0]
Step(rec) == sys' = rec @@ sys /\ UNCHANGED env

-----------------------------------------------------------------------------
(* The handshake. *)

\* initCrypto: HKDF's output is cut in two, the first half for the client's packets.
Okm(seed) == <<<<seed, 1>>, <<seed, 2>>>>
Swap(keys) == <<keys[2], keys[1]>>

\* With a ticket both sides have the key, and nothing is answered.
TicketHandshake == /\ sys.pc = "start" /\ sys.ticket
                   /\ Step([pc |-> "again", keys |-> Okm("ticket"), skeys |-> Swap(Okm("ticket"))])

\* A ticket handshake that cannot be made up becomes one of UniformDH, whose keys replace the
\* ticket's.
FallBack == /\ sys.pc = "start" /\ sys.ticket /\ env.broken
            /\ Step([ticket |-> FALSE, keys |-> Okm("ticket")])

SendHello == /\ sys.pc = "start" /\ ~sys.ticket
             /\ \E r \in env.raw : Step([pc |-> "hello", key |-> GenerateKey(r)])

\* The server, external.
ServerResponds == /\ sys.pc = "hello"
                  /\ \E r \in env.raw, n \in env.pads :
                       LET k == GenerateKey(r)
                       IN Step([pc |-> "read", skey |-> k, respPad |-> n,
                                skeys |-> Swap(Okm(Handshake(k.priv, sys.key.pub)))])

RespLen == IF sys.ticket THEN 0 ELSE MinHandshakeLength + sys.respPad
Size(p) == PktOverhead + p.data + p.pad
StreamLen == RespLen + FoldSeq(LAMBDA p, n : Size(p) + n, 0, env.packets)

ReadHandshake == /\ sys.pc = "read"
                 /\ \E n \in (sys.arrived + 1)..StreamLen : Step([arrived |-> n, pc |-> "parse"])

\* The mark is looked for in front of where the MAC of the longest response begins.
MarkFound(len) == SizeLen + sys.respPad + MacLength <= Min({len, MaxHandshakeLength - MacLength})

\* What came behind the response waits in receiveBuffer for the first read of readPackets.
Accepted == Step([pc |-> "again", pos |-> RespLen, keys |-> Okm(Handshake(sys.key.priv, sys.skey.pub))])

\* parseServerHandshake.  The test that the MAC has arrived compares the length with a
\* position counted from the end of the public key, and so always passes: a MAC that has
\* not arrived in full is compared with what lies in the buffer behind its length (and
\* differs), or lies beyond the buffer's capacity (and the slice panics).
ParseServerHandshake ==
  /\ sys.pc = "parse"
  /\ LET len == sys.arrived IN
     CASE len < MinHandshakeLength -> Step([pc |-> "read"])
       [] len >= MinHandshakeLength /\ ~MarkFound(len) ->
            Step([pc |-> IF len >= MaxHandshakeLength THEN "failed" ELSE "read"])
       [] len >= MinHandshakeLength /\ MarkFound(len) /\ len < RespLen ->
            \E pc \in {"failed", "panic"} : Step([pc |-> pc])
       [] len >= MinHandshakeLength /\ len >= RespLen -> Accepted

\* A write or a read returns an error.
Fails == sys.pc \in {"start", "hello", "read", "again"} /\ env.broken /\ Step([pc |-> "failed"])

-----------------------------------------------------------------------------
(* readPackets: one read, then packets as far as they have arrived. *)

Packet == env.packets[sys.at]
Buffered == sys.arrived - sys.pos

ReadNet == /\ sys.pc = "again"
           /\ \E n \in (sys.arrived + 1)..StreamLen :
                n - sys.arrived <= MaxSegmentLength /\ Step([arrived |-> n, pc |-> "up"])

TakeMac == /\ sys.pc = "up" /\ ~sys.mac /\ Buffered >= MacLength
           /\ Step([mac |-> TRUE, pos |-> sys.pos + MacLength])

\* Where the sender's key stream was when it encrypted the packet that comes next.
SenderCtr == FoldSeq(LAMBDA p, n : Size(p) - MacLength + n, 0, SubSeq(env.packets, 1, sys.at - 1))

\* The lengths are checked before the MAC; out of step they are garbage.
TakeHdr == /\ sys.pc = "up" /\ sys.mac /\ ~sys.hdr /\ Buffered >= PktHdrLength
           /\ IF sys.ctr = SenderCtr
              THEN Step([hdr |-> TRUE, pos |-> sys.pos + PktHdrLength, ctr |-> sys.ctr + PktHdrLength,
                         totalLen |-> Packet.data + Packet.pad])
              ELSE Step([pc |-> "invalid"])

\* The packet is complete: it is authenticated and its kind looked at.
TakePacket == /\ sys.pc = "up" /\ sys.hdr /\ Buffered >= sys.totalLen
              /\ LET done == [mac |-> FALSE, hdr |-> FALSE, totalLen |-> 0, at |-> sys.at + 1,
                              pos |-> sys.pos + sys.totalLen, ctr |-> sys.ctr + sys.totalLen]
                 IN CASE Packet.type = "payload" -> Step([got |-> sys.got + Packet.data] @@ done)
                      [] Packet.type = "ticket"  -> Step([tickets |-> sys.tickets + 1] @@ done)
                      [] Packet.type = "seed"    -> Step([seeds |-> sys.seeds + 1] @@ done)
                      [] OTHER                   -> Step([pc |-> "invalid"])

TakeAgain == /\ sys.pc = "up"
             /\ Buffered < (IF sys.hdr THEN sys.totalLen ELSE IF sys.mac THEN PktHdrLength ELSE MacLength)
             /\ Step([pc |-> "again"])

-----------------------------------------------------------------------------
(* Write and padBurst. *)

\* Packets a write of n bytes is chopped into, as the length of the burst.
Chopped(n) == n + PktOverhead * ((n + MaxPayloadLength - 1) \div MaxPayloadLength)

PadLen(len, sample) == LET tail == len % MaxSegmentLength
                           n == IF sample >= tail THEN sample - tail ELSE MaxSegmentLength - tail + sample
                       IN IF n < PktOverhead THEN n + MaxSegmentLength ELSE n

\* The payload lengths of the packets that pad.
PadBurst(len, sample) == LET n == PadLen(len, sample) IN
  IF n > MaxSegmentLength THEN <<FirstPad - PktOverhead, n - (FirstPad + 2 * PktOverhead)>>
  ELSE <<n - PktOverhead>>

Write == /\ sys.pc \in {"up", "again"} /\ sys.toWrite # <<>>
         /\ \E s \in PktOverhead..MaxSegmentLength :
            LET len == Chopped(Head(sys.toWrite))
                pads == PadBurst(len, s)
            IN IF \E i \in DOMAIN pads : pads[i] > MaxPayloadLength \/ pads[i] < 0 THEN Step([pc |-> "panic"])
               ELSE Step([toWrite |-> Tail(sys.toWrite), sample |-> s, before |-> len,
                          burst |-> len + FoldSeq(LAMBDA p, n : PktOverhead + p + n, 0, pads)])

Next == \/ TicketHandshake \/ FallBack \/ SendHello \/ ServerResponds \/ ReadHandshake \/ ParseServerHandshake \/ Fails
        \/ ReadNet \/ TakeMac \/ TakeHdr \/ TakePacket \/ TakeAgain \/ Write
Spec == Init /\ [][Next]_vars

-----------------------------------------------------------------------------
(* Properties. *)

\* A client that finished the handshake has the server's keys, directions exchanged, and
\* what it has consumed is the response and whole parts of packets.
KeysAgree == sys.pc \in {"up", "again"} => sys.keys = Swap(sys.skeys)

\* Was the stream, when the client gave up, cut behind the mark and inside the MAC?
CutInMac == MarkFound(sys.arrived) /\ sys.arrived < RespLen

\* However the stream is cut, the packets are taken in step and their data arrives; the
\* handshake fails by itself only if the response was cut inside its MAC.
InStep == /\ sys.pc \in {"up", "again"} /\ sys.at > Len(env.packets) =>
               sys.got = FoldSeq(LAMBDA p, n : n + IF p.type = "payload" THEN p.data ELSE 0, 0, env.packets)
          /\ sys.pc = "invalid" => Packet.type = "unknown"
          /\ sys.pc \in {"failed", "panic"} => env.broken \/ CutInMac

\* conn.go:461, "Pad it out so that the last segment is sampleLen bytes": so it is, but one
\* overhead shorter when two packets are needed.
PaddedTo == sys.burst > 0 =>
  sys.burst % MaxSegmentLength =
    (sys.sample - IF PadLen(sys.before, sys.sample) > MaxSegmentLength THEN PktOverhead ELSE 0) % MaxSegmentLength
=============================================================================
