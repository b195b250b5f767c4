--------------------------- MODULE DefConnProofs ---------------------------
(***************************************************************************)
(* Proofs about DefConn, for every SendCap and WireCap and every set of    *)
(* environments: its type correctness, that no segment is lost, duplicated *)
(* or overtaken inside the connection, and that DefConn implements Relay.  *)
(***************************************************************************)
EXTENDS DefConn, QueueProofs

\* The two ends are each other's peers.
LEMMA PeerType == \A s \in Side : Peer(s) \in Side /\ Peer(s) # s /\ Peer(Peer(s)) = s
  BY DEF Side, Peer, Client, Server

\* Signals and payload packets are packets.
LEMMA PacketTypes == /\ SigStart \in Packet /\ SigStop \in Packet
                     /\ \A n \in Nat : Payload(n) \in Packet
  BY DEF SigStart, SigStop, Payload, Packet

\* Every packet has a segment number, which means something in payload packets only.
LEMMA PacketSegs == Numbered(Packet)
  BY DEF Packet, Numbered

-----------------------------------------------------------------------------
(* Type correctness, one group of variables at a time.                     *)

\* A group of variables that a step leaves alone keeps its type.
LEMMA Kept ==
  /\ TypeState /\ UNCHANGED <<st, nsent, nrcv, raced>> => TypeState'
  /\ TypeMain /\ UNCHANGED <<mpc, rem, acc>> => TypeMain'
  /\ TypeTicker /\ UNCHANGED tpc => TypeTicker'
  /\ TypeSend /\ UNCHANGED <<running, hold, errQ>> => TypeSend'
  /\ TypeChan /\ UNCHANGED <<sendQ, closed>> => TypeChan'
  /\ TypeRead /\ UNCHANGED <<rpc, rbuf, dec, out>> => TypeRead'
  /\ TypeNet /\ UNCHANGED <<env, wire, aOpen, bOpen, link>> => TypeNet'
<1>1. TypeState /\ UNCHANGED <<st, nsent, nrcv, raced>> => TypeState' BY DEF TypeState
<1>2. TypeMain /\ UNCHANGED <<mpc, rem, acc>> => TypeMain' BY DEF TypeMain
<1>3. TypeTicker /\ UNCHANGED tpc => TypeTicker' BY DEF TypeTicker
<1>4. TypeSend /\ UNCHANGED <<running, hold, errQ>> => TypeSend' BY DEF TypeSend
<1>5. TypeChan /\ UNCHANGED <<sendQ, closed>> => TypeChan' BY DEF TypeChan
<1>6. TypeRead /\ UNCHANGED <<rpc, rbuf, dec, out>> => TypeRead' BY DEF TypeRead
<1>7. TypeNet /\ UNCHANGED <<env, wire, aOpen, bOpen, link>> => TypeNet' BY DEF TypeNet
<1> QED BY <1>1, <1>2, <1>3, <1>4, <1>5, <1>6, <1>7

\* The initial state is well typed.
LEMMA TypeInit == Init => TypeOK
<1> SUFFICES ASSUME Init PROVE TypeOK
  OBVIOUS
<1>1. TypeState
  <2>1. raced \in BOOLEAN
    BY Zenon DEF Init
  <2>2. st \in [Side -> State] /\ nsent \in [Side -> 0..LowMark] /\ nrcv \in [Side -> 0..LowMark]
    <3>1. /\ st = [s \in Side |-> "Stop"]
          /\ nsent = [s \in Side |-> 0] /\ nrcv = [s \in Side |-> 0]
      BY DEF Init
    <3> QED BY <3>1 DEF State, LowMark
  <2> QED BY <2>1, <2>2 DEF TypeState
<1>2. TypeMain BY DEF Init, TypeMain, MainPC
<1>3. TypeTicker BY DEF Init, TypeTicker, TickerPC
<1>4. TypeSend BY DEF Init, TypeSend
<1>5. TypeChan BY CapAssumption DEF Init, TypeChan
<1>6. TypeRead BY DEF Init, TypeRead, ReaderPC
<1>7. TypeNet BY DEF Init, TypeNet
<1> QED BY <1>1, <1>2, <1>3, <1>4, <1>5, <1>6, <1>7 DEF TypeOK

\* The steps of main keep the types.
LEMMA MainTypes ==
  ASSUME TypeOK, NEW s \in Side, MainStep(s) \/ MainRead(s) \/ MainReadEOF(s)
  PROVE  TypeOK'
<1> USE DEF TypeOK, cntVars, mainVars, sendVars, readVars, sockVars
<1>1. CASE MainPoll(s)
  <2>1. TypeMain' BY <1>1 DEF MainPoll, TypeMain, MainPC
  <2>2. TypeSend' BY <1>1 DEF MainPoll, TypeSend
  <2> QED BY <1>1, <2>1, <2>2, Kept DEF MainPoll
<1>2. CASE MainReadClosed(s)
  <2>1. TypeMain' BY <1>2 DEF MainReadClosed, TypeMain, MainPC
  <2> QED BY <1>2, <2>1, Kept DEF MainReadClosed
<1>3. CASE MainLoad(s)
  <2>1. TypeMain' BY <1>3 DEF MainLoad, TypeMain, MainPC
  <2>2. TypeState' BY <1>3 DEF MainLoad, TypeState, State, LowMark, Count
  <2> QED BY <1>3, <2>1, <2>2, Kept DEF MainLoad
<1>4. CASE MainReload(s)
  <2>1. TypeMain' BY <1>4 DEF MainReload, TypeMain, MainPC
  <2>2. TypeState' BY <1>4 DEF MainReload, TypeState, State, LowMark, Count
  <2> QED BY <1>4, <2>1, <2>2, Kept DEF MainReload
<1>5. CASE MainSetStart(s)
  <2>1. TypeMain' BY <1>5 DEF MainSetStart, TypeMain, MainPC
  <2>2. TypeState' BY <1>5 DEF MainSetStart, TypeState, State, LowMark, Count
  <2> QED BY <1>5, <2>1, <2>2, Kept DEF MainSetStart
<1>6. CASE MainSigStart(s)
  <2>1. TypeMain' BY <1>6 DEF MainSigStart, TypeMain, MainPC
  <2>2. TypeChan' BY <1>6, CapAssumption, PacketTypes DEF MainSigStart, TypeChan, Enqueue
  <2> QED BY <1>6, <2>1, <2>2, Kept DEF MainSigStart
<1>7. CASE MainChop(s)
  <2>1. TypeMain' BY <1>7 DEF MainChop, TypeMain, MainPC
  <2>2. TypeChan'
    <3>1. CASE rem[s] > 0
      <4>1. Payload(acc[s] - rem[s] + 1) \in Packet
        BY PacketTypes DEF TypeMain
      <4>2. Enqueue(s, Payload(acc[s] - rem[s] + 1)) /\ closed' = closed
        BY <1>7, <3>1 DEF MainChop
      <4> QED BY <4>1, <4>2, CapAssumption DEF TypeChan, Enqueue
    <3>2. CASE rem[s] = 0
      BY <1>7, <3>2 DEF MainChop, TypeChan
    <3> QED BY <3>1, <3>2 DEF TypeMain
  <2> QED BY <1>7, <2>1, <2>2, Kept DEF MainChop
<1>8. CASE MainCount(s)
  <2>1. TypeMain' BY <1>8 DEF MainCount, TypeMain, MainPC
  <2>2. TypeState' BY <1>8 DEF MainCount, TypeState, State, LowMark, Count
  <2> QED BY <1>8, <2>1, <2>2, Kept DEF MainCount
<1>9. CASE MainReturn(s)
  <2>1. TypeMain' BY <1>9 DEF MainReturn, TypeMain, MainPC
  <2>2. TypeChan' BY <1>9 DEF MainReturn, TypeChan, Enqueue
  <2> QED BY <1>9, <2>1, <2>2, Kept DEF MainReturn
<1>10. CASE MainClose(s)
  <2>1. TypeMain' BY <1>10 DEF MainClose, TypeMain, MainPC
  <2>2. TypeNet' BY <1>10 DEF MainClose, TypeNet
  <2> QED BY <1>10, <2>1, <2>2, Kept DEF MainClose
<1>11. CASE MainRead(s)
  <2>1. TypeMain' BY <1>11 DEF MainRead, TypeMain, MainPC
  <2> QED BY <1>11, <2>1, Kept DEF MainRead
<1>12. CASE MainReadEOF(s)
  <2>1. TypeMain' BY <1>12 DEF MainReadEOF, TypeMain, MainPC
  <2> QED BY <1>12, <2>1, Kept DEF MainReadEOF
<1> QED BY <1>1, <1>2, <1>3, <1>4, <1>5, <1>6, <1>7, <1>8, <1>9, <1>10, <1>11, <1>12
        DEF MainStep

\* The steps of the ticker keep the types.
LEMMA TickerTypes ==
  ASSUME TypeOK, NEW s \in Side, TickerStep(s)
  PROVE  TypeOK'
<1> USE DEF TypeOK, cntVars, mainVars, sendVars, readVars, sockVars
<1>1. CASE TickerTick(s)
  <2>1. TypeTicker' BY <1>1 DEF TickerTick, TypeTicker, TickerPC
  <2> QED BY <1>1, <2>1, Kept DEF TickerTick
<1>2. CASE TickerSetStop(s)
  <2>1. TypeTicker' BY <1>2 DEF TickerSetStop, TypeTicker, TickerPC
  <2>2. TypeState' BY <1>2 DEF TickerSetStop, TypeState, State, LowMark, Count
  <2> QED BY <1>2, <2>1, <2>2, Kept DEF TickerSetStop
<1>3. CASE TickerSigStop(s)
  <2>1. TypeTicker' BY <1>3 DEF TickerSigStop, TypeTicker, TickerPC
  <2>2. TypeChan' BY <1>3, CapAssumption, PacketTypes DEF TickerSigStop, TypeChan, Enqueue
  <2> QED BY <1>3, <2>1, <2>2, Kept DEF TickerSigStop
<1>4. CASE TickerResetSent(s)
  <2>1. TypeTicker' BY <1>4 DEF TickerResetSent, TypeTicker, TickerPC
  <2>2. TypeState' BY <1>4 DEF TickerResetSent, TypeState, State, LowMark, Count
  <2> QED BY <1>4, <2>1, <2>2, Kept DEF TickerResetSent
<1>5. CASE TickerResetRcv(s)
  <2>1. TypeTicker' BY <1>5 DEF TickerResetRcv, TypeTicker, TickerPC
  <2>2. TypeState' BY <1>5 DEF TickerResetRcv, TypeState, State, LowMark, Count
  <2> QED BY <1>5, <2>1, <2>2, Kept DEF TickerResetRcv
<1>6. CASE TickerExit(s)
  <2>1. TypeTicker' BY <1>6 DEF TickerExit, TypeTicker, TickerPC
  <2> QED BY <1>6, <2>1, Kept DEF TickerExit
<1> QED BY <1>1, <1>2, <1>3, <1>4, <1>5, <1>6
        DEF TickerStep

\* The steps of the send goroutine keep the types.
LEMMA SendTypes ==
  ASSUME TypeOK, NEW s \in Side, SendStep(s)
  PROVE  TypeOK'
<1> USE DEF TypeOK, cntVars, mainVars, sendVars, readVars, sockVars
<1>1. CASE SendTake(s)
  <2>0. /\ Head(sendQ[s]) \in Packet
        /\ Tail(sendQ[s]) \in Seq(Packet) /\ Len(Tail(sendQ[s])) <= SendCap
    BY <1>1, HeadTailTypes, CapAssumption DEF SendTake, TypeChan
  <2>1. TypeSend' BY <1>1, <2>0 DEF SendTake, TypeSend
  <2>2. TypeChan' BY <1>1, <2>0 DEF SendTake, TypeChan
  <2> QED BY <1>1, <2>1, <2>2, Kept DEF SendTake
<1>2. CASE SendWrite(s)
  <2>1. TypeSend' BY <1>2 DEF SendWrite, TypeSend
  <2>2. TypeNet'
    <3>1. wire[s] \o hold[s] \in Seq(Packet)
      BY ConcatProperties DEF TypeNet, TypeSend
    <3> QED BY <1>2, <3>1 DEF SendWrite, TypeNet
  <2> QED BY <1>2, <2>1, <2>2, Kept DEF SendWrite
<1>3. CASE SendFail(s)
  <2>1. TypeSend' BY <1>3 DEF SendFail, TypeSend
  <2> QED BY <1>3, <2>1, Kept DEF SendFail
<1>4. CASE SendExit(s)
  <2>1. TypeSend' BY <1>4 DEF SendExit, TypeSend
  <2> QED BY <1>4, <2>1, Kept DEF SendExit
<1> QED BY <1>1, <1>2, <1>3, <1>4
        DEF SendStep

\* The steps of the reader keep the types.
LEMMA ReaderTypes ==
  ASSUME TypeOK, NEW s \in Side, ReaderStep(s)
  PROVE  TypeOK'
<1> USE DEF TypeOK, cntVars, mainVars, sendVars, readVars, sockVars
<1>1. CASE ReaderRead(s)
  <2>0. /\ Head(wire[Peer(s)]) \in Packet /\ Tail(wire[Peer(s)]) \in Seq(Packet)
        /\ Append(rbuf[s], Head(wire[Peer(s)])) \in Seq(Packet)
    BY <1>1, HeadTailTypes, PeerType, AppendProperties DEF ReaderRead, TypeNet, TypeRead
  <2>1. TypeRead' BY <1>1, <2>0 DEF ReaderRead, TypeRead
  <2>2. TypeNet' BY <1>1, <2>0, PeerType DEF ReaderRead, TypeNet
  <2> QED BY <1>1, <2>1, <2>2, Kept DEF ReaderRead
<1>2. CASE ReaderFail(s)
  <2>1. TypeRead' BY <1>2 DEF ReaderFail, TypeRead, ReaderPC
  <2> QED BY <1>2, <2>1, Kept DEF ReaderFail
<1>3. CASE ReaderPayload(s)
  <2>0. /\ Tail(rbuf[s]) \in Seq(Packet) /\ Head(rbuf[s]).seg \in Nat
        /\ Append(dec[s], Head(rbuf[s]).seg) \in Seq(Nat)
    <3>1. Head(rbuf[s]) \in Packet /\ Tail(rbuf[s]) \in Seq(Packet)
      BY <1>3, HeadTailTypes DEF ReaderPayload, TypeRead
    <3>2. Head(rbuf[s]).seg \in Nat
      BY <3>1 DEF Packet
    <3>3. dec[s] \in Seq(Nat)
      BY DEF TypeRead
    <3> QED BY <3>1, <3>2, <3>3, AppendProperties
  <2>1. TypeRead' BY <1>3, <2>0 DEF ReaderPayload, TypeRead, ReaderPC
  <2>2. TypeState' BY <1>3 DEF ReaderPayload, TypeState, State, LowMark, Count
  <2> QED BY <1>3, <2>1, <2>2, Kept DEF ReaderPayload
<1>4. CASE ReaderSignal(s)
  <2>0. Tail(rbuf[s]) \in Seq(Packet)
    BY <1>4, HeadTailTypes DEF ReaderSignal, TypeRead
  <2>1. TypeRead' BY <1>4, <2>0 DEF ReaderSignal, TypeRead, ReaderPC
  <2>2. TypeState' BY <1>4 DEF ReaderSignal, TypeState, State, LowMark, Count
  <2> QED BY <1>4, <2>1, <2>2, Kept DEF ReaderSignal
<1>5. CASE ReaderDeliver(s)
  <2>0. out[s] \o dec[s] \in Seq(Nat) /\ <<>> \in Seq(Nat)
    BY ConcatProperties DEF TypeRead
  <2>1. TypeRead' BY <1>5, <2>0 DEF ReaderDeliver, TypeRead, ReaderPC
  <2> QED BY <1>5, <2>1, Kept DEF ReaderDeliver
<1>6. CASE ReaderClose(s)
  <2>1. TypeRead' BY <1>6 DEF ReaderClose, TypeRead, ReaderPC
  <2>2. TypeNet' BY <1>6 DEF ReaderClose, TypeNet
  <2> QED BY <1>6, <2>1, <2>2, Kept DEF ReaderClose
<1> QED BY <1>1, <1>2, <1>3, <1>4, <1>5, <1>6
        DEF ReaderStep

\* Every step keeps the types.
LEMMA TypeStep == TypeOK /\ [Next]_vars => TypeOK'
<1> SUFFICES ASSUME TypeOK, [Next]_vars PROVE TypeOK'
  OBVIOUS
<1>1. ASSUME NEW s \in Side,
             \/ MainStep(s) \/ MainRead(s) \/ MainReadEOF(s)
             \/ TickerStep(s) \/ SendStep(s) \/ ReaderStep(s)
      PROVE  TypeOK'
  BY <1>1, MainTypes, TickerTypes, SendTypes, ReaderTypes
<1>2. CASE NetFail
  <2>1. TypeNet' BY <1>2 DEF NetFail, TypeOK, TypeNet
  <2> QED BY <1>2, <2>1, Kept DEF NetFail, TypeOK, cntVars, mainVars, sendVars, readVars
<1>3. CASE UNCHANGED vars
  BY <1>3, Kept DEF vars, TypeOK
<1> QED BY <1>1, <1>2, <1>3 DEF Next

\* In every reachable state the variables have their types, SendChan stays within its
\* capacity and ErrChan never holds more than the error Send returned with, so Send
\* never blocks on ErrChan (defconn.go, Send).
THEOREM TypeCorrect == Spec => []TypeOK
  BY TypeInit, TypeStep, PTL DEF Spec

-----------------------------------------------------------------------------
(* How the steps of the goroutines move a stretch along the pipeline.      *)

\* ReaderRead: a packet goes from the wire to ReceiveBuffer.
LEMMA MoveRead ==
  ASSUME NEW a \in Nat, NEW o \in Seq(Nat), NEW d \in Seq(Nat), NEW rb \in Seq(Packet),
         NEW w \in Seq(Packet), NEW run, NEW h, NEW q,
         Conveys(a, o, d, rb, TRUE, w, run, h, q), w # <<>>
  PROVE  Conveys(a, o, d, Append(rb, Head(w)), TRUE, Tail(w), run, h, q)
<1>0. Head(w) \in Packet BY HeadTailTypes
<1>1. PICK x, y, z \in 0..a : /\ Carries(rb, Len(o) + Len(d), x) /\ Carries(w, x, y)
                              /\ run => Carries(h, y, z) /\ Carries(q, z, a)
  BY DEF Conveys
<1>2. CASE Head(w).type = "Payload"
  <2>1. Head(w).seg = x + 1 /\ x + 1 <= y /\ Carries(Tail(w), x + 1, y)
    BY <1>1, <1>2, PacketSegs, CarriesHead
  <2>2. Carries(Append(rb, Head(w)), Len(o) + Len(d), x + 1)
    BY <1>0, <1>1, <1>2, <2>1, PacketSegs, CarriesNext
  <2>3. x + 1 \in 0..a BY <2>1
  <2> QED BY <1>1, <2>1, <2>2, <2>3 DEF Conveys
<1>3. CASE Head(w).type # "Payload"
  <2>1. Carries(Tail(w), x, y) BY <1>1, <1>3, CarriesSkip
  <2>2. Carries(Append(rb, Head(w)), Len(o) + Len(d), x)
    BY <1>0, <1>1, <1>3, CarriesSignal
  <2> QED BY <1>1, <2>1, <2>2 DEF Conveys
<1> QED BY <1>2, <1>3

\* ReaderPayload: the next segment goes from ReceiveBuffer to ReceiveDecodedBuffer.
LEMMA MovePayload ==
  ASSUME NEW a \in Nat, NEW o \in Seq(Nat), NEW d \in Seq(Nat), NEW rb \in Seq(Packet),
         NEW open, NEW w, NEW run, NEW h, NEW q,
         Conveys(a, o, d, rb, open, w, run, h, q), rb # <<>>, Head(rb).type = "Payload"
  PROVE  Conveys(a, o, Append(d, Head(rb).seg), Tail(rb), open, w, run, h, q)
<1>1. PICK x, y, z \in 0..a :
        /\ Carries(rb, Len(o) + Len(d), x)
        /\ open => Carries(w, x, y) /\ (run => Carries(h, y, z) /\ Carries(q, z, a))
  BY DEF Conveys
<1> DEFINE e == Append(d, Head(rb).seg)
<1>2. Carries(Tail(rb), Len(o) + Len(d) + 1, x)
  BY <1>1, PacketSegs, CarriesHead
<1>3. Head(rb).seg = Len(o) + Len(d) + 1
  BY <1>1, PacketSegs, CarriesHead
<1>4. /\ e \in Seq(Nat) /\ Len(e) = Len(d) + 1 /\ e[Len(d) + 1] = Len(o) + Len(d) + 1
      /\ \A i \in 1..Len(d) : e[i] = d[i]
      /\ DOMAIN e = 1..Len(e)
  BY <1>3, AppendProperties, LenProperties
<1> HIDE DEF e
<1>5. \A i \in 1..Len(d) : d[i] = Len(o) + i
  BY DEF Conveys
<1>6. ASSUME NEW i \in 1..Len(e) PROVE e[i] = Len(o) + i
  <2>1. CASE i \in 1..Len(d) BY <1>4, <1>5, <2>1
  <2>2. CASE i = Len(d) + 1 BY <1>4, <2>2
  <2> QED BY <1>4, <2>1, <2>2
<1>7. e = [i \in 1..Len(e) |-> Len(o) + i]
  BY <1>4, <1>6
<1>8. Carries(Tail(rb), Len(o) + Len(e), x)
  BY <1>2, <1>4
<1> QED BY <1>1, <1>7, <1>8 DEF Conveys, e

\* ReaderSignal: a signal leaves ReceiveBuffer.
LEMMA MoveSignal ==
  ASSUME NEW a \in Nat, NEW o \in Seq(Nat), NEW d \in Seq(Nat), NEW rb \in Seq(Packet),
         NEW open, NEW w, NEW run, NEW h, NEW q,
         Conveys(a, o, d, rb, open, w, run, h, q), rb # <<>>, Head(rb).type # "Payload"
  PROVE  Conveys(a, o, d, Tail(rb), open, w, run, h, q)
<1>1. \A x \in 0..a : Carries(rb, Len(o) + Len(d), x) => Carries(Tail(rb), Len(o) + Len(d), x)
  BY CarriesSkip
<1> QED BY <1>1 DEF Conveys

\* ReaderDeliver: what was decoded is handed to the program.
LEMMA MoveDeliver ==
  ASSUME NEW a \in Nat, NEW o \in Seq(Nat), NEW d \in Seq(Nat),
         NEW rb, NEW open, NEW w, NEW run, NEW h, NEW q,
         Conveys(a, o, d, rb, open, w, run, h, q)
  PROVE  /\ Len(o) + Len(d) <= a
         /\ Conveys(a, o \o d, <<>>, rb, open, w, run, h, q)
<1> DEFINE c == o \o d
<1>1. /\ c \in Seq(Nat) /\ Len(c) = Len(o) + Len(d)
      /\ \A i \in 1..(Len(o) + Len(d)) : c[i] = IF i <= Len(o) THEN o[i] ELSE d[i - Len(o)]
  BY ConcatProperties
<1> HIDE DEF c
<1>2. /\ \A i \in 1..Len(o) : o[i] = i
      /\ \A i \in 1..Len(d) : d[i] = Len(o) + i
  BY DEF Conveys
<1>3. ASSUME NEW i \in 1..Len(c) PROVE c[i] = i
  <2>1. CASE i <= Len(o)
    <3>1. i \in 1..Len(o) /\ c[i] = o[i]
      BY <1>1, <2>1
    <3> QED BY <1>2, <3>1
  <2>2. CASE i > Len(o)
    <3>1. i - Len(o) \in 1..Len(d) /\ c[i] = d[i - Len(o)]
      BY <1>1, <2>2
    <3> QED BY <1>2, <3>1
  <2> QED BY <1>1, <2>1, <2>2
<1>4. c = [i \in 1..Len(c) |-> i]
  <2>1. c \in [1..Len(c) -> Nat]
    BY <1>1, LenProperties
  <2> QED BY <1>3, <2>1
<1>5. <<>> = [i \in 1..Len(<<>>) |-> Len(c) + i] /\ Len(<<>>) = 0
  OBVIOUS
<1>6. Len(c) + Len(<<>>) = Len(o) + Len(d)
  BY <1>1, <1>5
<1>7. Len(o) + Len(d) <= a
  BY DEF Conveys, Carries
<1>8. Conveys(a, c, <<>>, rb, open, w, run, h, q)
  BY <1>4, <1>5, <1>6 DEF Conveys
<1> QED BY <1>7, <1>8 DEF c

\* SendWrite: the packet being written goes to the wire.
LEMMA MoveWrite ==
  ASSUME NEW a \in Nat, NEW o \in Seq(Nat), NEW d \in Seq(Nat), NEW rb \in Seq(Packet),
         NEW w \in Seq(Packet), NEW h \in Seq(Packet), NEW q \in Seq(Packet),
         Conveys(a, o, d, rb, TRUE, w, TRUE, h, q), Len(h) = 1
  PROVE  Conveys(a, o, d, rb, TRUE, w \o h, TRUE, <<>>, q)
<1>1. PICK x, y, z \in 0..a : /\ Carries(rb, Len(o) + Len(d), x) /\ Carries(w, x, y)
                              /\ Carries(h, y, z) /\ Carries(q, z, a)
  BY DEF Conveys
<1>2. h # <<>> /\ Tail(h) = <<>> /\ Head(h) \in Packet /\ w \o h = Append(w, Head(h))
  <2>1. h # <<>>
    <3>1. Len(<<>>) # 1 OBVIOUS
    <3> QED BY <3>1, Zenon
  <2>2. Head(h) \in Packet /\ Tail(h) \in Seq(Packet) /\ Len(Tail(h)) = 0
    BY <2>1, HeadTailProperties
  <2>3. h = <<Head(h)>>
    BY <2>1, LenProperties
  <2>4. Tail(h) = <<>>
    BY <2>2, EmptySeq
  <2> QED BY <2>1, <2>2, <2>3, <2>4, AppendIsConcat
<1>3. Carries(w \o h, x, z)
  <2>1. CASE Head(h).type = "Payload"
    <3>1. Head(h).seg = y + 1 /\ Carries(<<>>, y + 1, z)
      <4>1. Head(h).seg = y + 1 /\ Carries(Tail(h), y + 1, z)
        BY <1>1, <1>2, <2>1, PacketSegs, CarriesHead
      <4> QED BY <1>2, <4>1
    <3>2. z = y + 1 BY <3>1, CarriesEmpty
    <3> QED BY <1>1, <1>2, <2>1, <3>1, <3>2, PacketSegs, CarriesNext
  <2>2. CASE Head(h).type # "Payload"
    <3>1. Carries(<<>>, y, z)
      <4>1. Carries(Tail(h), y, z) BY <1>1, <1>2, <2>2, CarriesSkip
      <4> QED BY <1>2, <4>1
    <3>2. z = y BY <3>1, CarriesEmpty
    <3> QED BY <1>1, <1>2, <2>2, <3>2, CarriesSignal
  <2> QED BY <2>1, <2>2
<1>4. Carries(<<>>, z, z) BY CarriesEmpty
<1> QED BY <1>1, <1>3, <1>4 DEF Conveys

\* SendTake: the first packet of SendChan becomes the one being written.
LEMMA MoveTake ==
  ASSUME NEW a \in Nat, NEW o \in Seq(Nat), NEW d \in Seq(Nat), NEW rb \in Seq(Packet),
         NEW open \in BOOLEAN, NEW w \in Seq(Packet), NEW run \in BOOLEAN,
         NEW q \in Seq(Packet), Conveys(a, o, d, rb, open, w, run, <<>>, q), q # <<>>
  PROVE  Conveys(a, o, d, rb, open, w, run, <<Head(q)>>, Tail(q))
<1>0. Head(q) \in Packet
  BY HeadTailTypes
<1>1. PICK x, y, z \in 0..a :
        /\ Carries(rb, Len(o) + Len(d), x)
        /\ open => Carries(w, x, y) /\ (run => Carries(<<>>, y, z) /\ Carries(q, z, a))
  BY DEF Conveys
<1>2. CASE open /\ run
  <2>0. y = z /\ Carries(<<>>, y, z) /\ Carries(q, z, a)
    BY <1>1, <1>2, CarriesEmpty
  <2>1. CASE Head(q).type = "Payload"
    <3>1. Head(q).seg = z + 1 /\ z + 1 <= a /\ Carries(Tail(q), z + 1, a)
      BY <2>0, <2>1, PacketSegs, CarriesHead
    <3>2. Carries(<<Head(q)>>, y, z + 1)
      BY <2>0, <2>1, <3>1, CarriesOne
    <3>3. z + 1 \in 0..a BY <3>1
    <3> QED BY <1>1, <3>1, <3>2, <3>3 DEF Conveys
  <2>2. CASE Head(q).type # "Payload"
    <3>1. Carries(Tail(q), z, a) BY <2>0, <2>2, CarriesSkip
    <3>2. Carries(<<Head(q)>>, y, z)
      <4>1. z \in Nat OBVIOUS
      <4>2. Carries(<<Head(q)>>, z, z)
        BY <1>0, <2>2, <4>1, CarriesOne, Zenon
      <4> QED BY <2>0, <4>2
    <3> QED BY <1>1, <3>1, <3>2 DEF Conveys
  <2> QED BY <2>1, <2>2
<1>3. CASE ~(open /\ run)
  BY <1>1, <1>3 DEF Conveys
<1> QED BY <1>2, <1>3

\* MainChop: the next segment is queued.
LEMMA MoveQueue ==
  ASSUME NEW a \in Nat, NEW o \in Seq(Nat), NEW d \in Seq(Nat), NEW rb \in Seq(Packet),
         NEW open \in BOOLEAN, NEW w \in Seq(Packet), NEW run \in BOOLEAN,
         NEW h \in Seq(Packet), NEW q \in Seq(Packet),
         Conveys(a, o, d, rb, open, w, run, h, q)
  PROVE  Conveys(a + 1, o, d, rb, open, w, run, h, Append(q, Payload(a + 1)))
<1>1. PICK x, y, z \in 0..a :
        /\ Carries(rb, Len(o) + Len(d), x)
        /\ open => Carries(w, x, y) /\ (run => Carries(h, y, z) /\ Carries(q, z, a))
  BY DEF Conveys
<1>2. Carries(q, z, a) => Carries(Append(q, Payload(a + 1)), z, a + 1)
  <2>1. /\ Payload(a + 1) \in Packet
        /\ Payload(a + 1).type = "Payload" /\ Payload(a + 1).seg = a + 1
    BY PacketTypes DEF Payload
  <2> QED BY <2>1, PacketSegs, CarriesNext
<1>3. x \in 0..(a + 1) /\ y \in 0..(a + 1) /\ z \in 0..(a + 1)
  OBVIOUS
<1> QED BY <1>1, <1>2, <1>3 DEF Conveys

\* MainSigStart, TickerSigStop: a signal is queued.
LEMMA MoveQueueSignal ==
  ASSUME NEW a \in Nat, NEW o, NEW d, NEW rb, NEW open, NEW w, NEW run, NEW h,
         NEW q \in Seq(Packet), NEW e \in Packet, e.type # "Payload",
         Conveys(a, o, d, rb, open, w, run, h, q)
  PROVE  Conveys(a, o, d, rb, open, w, run, h, Append(q, e))
<1>1. \A z \in 0..a : Carries(q, z, a) => Carries(Append(q, e), z, a)
  BY CarriesSignal
<1> QED BY <1>1 DEF Conveys

\* A socket closes: what is behind it is cut off, and what is written to it is lost.
LEMMA MoveClose ==
  ASSUME NEW a, NEW o, NEW d, NEW rb, NEW open \in BOOLEAN, NEW w, NEW run, NEW h, NEW q,
         NEW g, Conveys(a, o, d, rb, open, w, run, h, q)
  PROVE  Conveys(a, o, d, rb, FALSE, w, run, g, q)
  BY DEF Conveys

\* The send goroutine returns: what it held and what is in SendChan is cut off.
LEMMA MoveStop ==
  ASSUME NEW a, NEW o, NEW d, NEW rb, NEW open \in BOOLEAN, NEW w, NEW run \in BOOLEAN,
         NEW h, NEW q, NEW g, Conveys(a, o, d, rb, open, w, run, h, q)
  PROVE  Conveys(a, o, d, rb, open, w, FALSE, g, q)
  BY DEF Conveys

-----------------------------------------------------------------------------
(* Every step keeps both directions of the connection whole.               *)

\* A direction whose buffers a step leaves alone stays as it is.
LEMMA PipelineKept ==
  ASSUME NEW s \in Side, Pipeline(s),
         acc'[s] - rem'[s] = acc[s] - rem[s],
         out'[Peer(s)] = out[Peer(s)], dec'[Peer(s)] = dec[Peer(s)],
         rbuf'[Peer(s)] = rbuf[Peer(s)], bOpen'[Peer(s)] = bOpen[Peer(s)],
         wire'[s] = wire[s], running'[s] = running[s], hold'[s] = hold[s],
         sendQ'[s] = sendQ[s]
  PROVE  Pipeline(s)'
  BY DEF Pipeline

\* Initially all buffers are empty.
LEMMA PipelineInit == Init => NoLossInside
<1> SUFFICES ASSUME Init, NEW s \in Side PROVE Pipeline(s) /\ rem[s] = 0
  BY DEF NoLossInside
<1>1. /\ acc[s] = 0 /\ rem[s] = 0 /\ out[Peer(s)] = <<>> /\ dec[Peer(s)] = <<>>
      /\ rbuf[Peer(s)] = <<>> /\ wire[s] = <<>> /\ hold[s] = <<>> /\ sendQ[s] = <<>>
  BY PeerType DEF Init
<1>2. Carries(<<>>, 0, 0) BY CarriesEmpty
<1>3. Conveys(0, <<>>, <<>>, <<>>, bOpen[Peer(s)], <<>>, running[s], <<>>, <<>>)
  BY <1>2 DEF Conveys
<1> QED BY <1>1, <1>3 DEF Pipeline

\* What the lemmas on moves ask of the variables.
LEMMA PipelineTypes ==
  ASSUME TypeOK, NEW s \in Side
  PROVE  /\ acc[s] - rem[s] \in Nat /\ Peer(s) \in Side
         /\ out[Peer(s)] \in Seq(Nat) /\ dec[Peer(s)] \in Seq(Nat)
         /\ rbuf[Peer(s)] \in Seq(Packet) /\ bOpen[Peer(s)] \in BOOLEAN
         /\ wire[s] \in Seq(Packet) /\ running[s] \in BOOLEAN
         /\ hold[s] \in Seq(Packet) /\ sendQ[s] \in Seq(Packet)
<1>1. Peer(s) \in Side BY PeerType
<1>2. acc[s] - rem[s] \in Nat BY DEF TypeOK, TypeMain
<1>3. /\ out[Peer(s)] \in Seq(Nat) /\ dec[Peer(s)] \in Seq(Nat)
      /\ rbuf[Peer(s)] \in Seq(Packet)
  BY <1>1 DEF TypeOK, TypeRead
<1>4. bOpen[Peer(s)] \in BOOLEAN /\ wire[s] \in Seq(Packet)
  BY <1>1 DEF TypeOK, TypeNet
<1>5. running[s] \in BOOLEAN /\ hold[s] \in Seq(Packet)
  BY DEF TypeOK, TypeSend
<1>6. sendQ[s] \in Seq(Packet) BY DEF TypeOK, TypeChan
<1> QED BY <1>1, <1>2, <1>3, <1>4, <1>5, <1>6

\* A signal queued at s.
LEMMA SignalKeeps ==
  ASSUME TypeOK, NEW s \in Side, NEW t \in Side, Pipeline(t), NEW e \in Signal,
         Enqueue(s, e), UNCHANGED <<acc, rem, out, dec, rbuf, bOpen, wire, running, hold>>
  PROVE  Pipeline(t)'
<1>0. e \in Packet /\ e.type # "Payload"
  BY DEF Signal, SigStart, SigStop, Packet
<1>1. CASE t = s
  <2>1. sendQ'[s] = Append(sendQ[s], e)
    BY DEF Enqueue, TypeOK, TypeChan
  <2>2. Conveys(acc[s] - rem[s], out[Peer(s)], dec[Peer(s)], rbuf[Peer(s)],
                bOpen[Peer(s)], wire[s], running[s], hold[s], Append(sendQ[s], e))
    BY <1>0, <1>1, PipelineTypes, MoveQueueSignal DEF Pipeline
  <2> QED BY <1>1, <2>1, <2>2 DEF Pipeline
<1>2. CASE t # s
  <2>1. sendQ'[t] = sendQ[t]
    BY <1>2 DEF Enqueue, TypeOK, TypeChan
  <2> QED BY <2>1, PipelineKept
<1> QED BY <1>1, <1>2

\* Both sockets of s close: what comes towards s is cut off.
LEMMA CloseKeeps ==
  ASSUME TypeOK, NEW s \in Side, NEW t \in Side, Pipeline(t),
         bOpen' = [bOpen EXCEPT ![s] = FALSE],
         UNCHANGED <<acc, rem, out, dec, rbuf, wire, running, hold, sendQ>>
  PROVE  Pipeline(t)'
<1>0. Peer(t) \in Side /\ bOpen \in [Side -> BOOLEAN]
  BY PeerType DEF TypeOK, TypeNet
<1>1. CASE Peer(t) = s
  <2>1. bOpen'[Peer(t)] = FALSE BY <1>0, <1>1
  <2>2. Conveys(acc[t] - rem[t], out[Peer(t)], dec[Peer(t)], rbuf[Peer(t)], FALSE,
                wire[t], running[t], hold[t], sendQ[t])
    BY PipelineTypes, MoveClose, ZenonT(40) DEF Pipeline
  <2> QED BY <2>1, <2>2 DEF Pipeline
<1>2. CASE Peer(t) # s
  <2>1. bOpen'[Peer(t)] = bOpen[Peer(t)] BY <1>0, <1>2
  <2> QED BY <2>1, PipelineKept
<1> QED BY <1>1, <1>2

\* The steps of main keep both directions.
LEMMA MainKeeps ==
  ASSUME TypeOK, NEW s \in Side, NEW t \in Side, Pipeline(t),
         mpc[s] = "read" => rem[s] = 0,
         MainStep(s) \/ MainRead(s) \/ MainReadEOF(s)
  PROVE  Pipeline(t)'
<1> USE DEF cntVars, mainVars, sendVars, readVars, sockVars
<1>1. CASE \/ MainPoll(s) \/ MainReadClosed(s) \/ MainLoad(s) \/ MainReload(s)
           \/ MainSetStart(s) \/ MainCount(s) \/ MainReturn(s) \/ MainReadEOF(s)
  <2>1. UNCHANGED <<acc, rem, out, dec, rbuf, bOpen, wire, running, hold, sendQ>>
    BY <1>1 DEF MainPoll, MainReadClosed, MainLoad, MainReload, MainSetStart, MainCount,
       MainReturn, MainReadEOF
  <2> QED BY <2>1, PipelineKept
<1>2. CASE MainRead(s)
  <2>1. UNCHANGED <<out, dec, rbuf, bOpen, wire, running, hold, sendQ>>
    BY <1>2 DEF MainRead
  <2>2. acc'[t] - rem'[t] = acc[t] - rem[t]
    <3>1. PICK k \in 1..2 : /\ acc' = [acc EXCEPT ![s] = @ + k]
                            /\ rem' = [rem EXCEPT ![s] = k]
      BY <1>2 DEF MainRead
    <3>2. rem[s] = 0 BY <1>2 DEF MainRead
    <3> QED BY <3>1, <3>2 DEF TypeOK, TypeMain
  <2> QED BY <2>1, <2>2, PipelineKept
<1>3. CASE MainSigStart(s)
  <2>1. Enqueue(s, SigStart) /\ SigStart \in Signal
        /\ UNCHANGED <<acc, rem, out, dec, rbuf, bOpen, wire, running, hold>>
    BY <1>3 DEF MainSigStart, Signal
  <2> QED BY <2>1, SignalKeeps
<1>4. CASE MainChop(s)
  <2>1. CASE rem[s] = 0
    <3>1. UNCHANGED <<acc, rem, out, dec, rbuf, bOpen, wire, running, hold, sendQ>>
      BY <1>4, <2>1 DEF MainChop
    <3> QED BY <3>1, PipelineKept
  <2>2. CASE rem[s] > 0
    <3>1. /\ Enqueue(s, Payload(acc[s] - rem[s] + 1))
          /\ rem' = [rem EXCEPT ![s] = @ - 1]
          /\ UNCHANGED <<acc, out, dec, rbuf, bOpen, wire, running, hold>>
      BY <1>4, <2>2 DEF MainChop
    <3>2. CASE t = s
      <4>1. sendQ'[s] = Append(sendQ[s], Payload(acc[s] - rem[s] + 1))
        BY <3>1 DEF Enqueue, TypeOK, TypeChan
      <4>2. acc'[s] - rem'[s] = (acc[s] - rem[s]) + 1
        BY <3>1 DEF TypeOK, TypeMain
      <4>3. Conveys((acc[s] - rem[s]) + 1, out[Peer(s)], dec[Peer(s)], rbuf[Peer(s)],
                    bOpen[Peer(s)], wire[s], running[s], hold[s],
                    Append(sendQ[s], Payload((acc[s] - rem[s]) + 1)))
        BY <3>2, PipelineTypes, MoveQueue DEF Pipeline
      <4> QED BY <3>1, <3>2, <4>1, <4>2, <4>3 DEF Pipeline
    <3>3. CASE t # s
      <4>1. sendQ'[t] = sendQ[t] /\ rem'[t] = rem[t]
        BY <3>1, <3>3 DEF Enqueue, TypeOK, TypeChan, TypeMain
      <4> QED BY <3>1, <4>1, PipelineKept
    <3> QED BY <3>2, <3>3
  <2> QED BY <2>1, <2>2 DEF TypeOK, TypeMain
<1>5. CASE MainClose(s)
  <2>1. /\ bOpen' = [bOpen EXCEPT ![s] = FALSE]
        /\ UNCHANGED <<acc, rem, out, dec, rbuf, wire, running, hold, sendQ>>
    BY <1>5 DEF MainClose
  <2> QED BY <2>1, CloseKeeps
<1> QED BY <1>1, <1>2, <1>3, <1>4, <1>5 DEF MainStep

\* The steps of the ticker keep both directions.
LEMMA TickerKeeps ==
  ASSUME TypeOK, NEW s \in Side, NEW t \in Side, Pipeline(t), TickerStep(s)
  PROVE  Pipeline(t)'
<1> USE DEF cntVars, mainVars, sendVars, readVars, sockVars
<1>1. CASE TickerSigStop(s)
  <2>1. /\ Enqueue(s, SigStop) /\ SigStop \in Signal
        /\ UNCHANGED <<acc, rem, out, dec, rbuf, bOpen, wire, running, hold>>
    BY <1>1 DEF TickerSigStop, Signal
  <2> QED BY <2>1, SignalKeeps
<1>2. CASE ~TickerSigStop(s)
  <2>1. UNCHANGED <<acc, rem, out, dec, rbuf, bOpen, wire, running, hold, sendQ>>
    BY <1>2 DEF TickerStep, TickerTick, TickerSetStop, TickerResetSent, TickerResetRcv,
       TickerExit
  <2> QED BY <2>1, PipelineKept
<1> QED BY <1>1, <1>2

\* The steps of the send goroutine keep both directions.
LEMMA SendKeeps ==
  ASSUME TypeOK, NEW s \in Side, NEW t \in Side, Pipeline(t), SendStep(s)
  PROVE  Pipeline(t)'
<1> USE DEF cntVars, mainVars, sendVars, readVars, sockVars
<1>0. /\ UNCHANGED <<acc, rem, out, dec, rbuf, bOpen>>
      /\ t # s => UNCHANGED <<wire[t], running[t], hold[t], sendQ[t]>>
  BY DEF SendStep, SendTake, SendWrite, SendFail, SendExit, TypeOK, TypeSend, TypeChan,
     TypeNet
<1>1. CASE t # s
  BY <1>0, <1>1, PipelineKept
<1>2. CASE t = s /\ SendTake(s)
  <2>1. /\ hold[s] = <<>> /\ sendQ[s] # <<>> /\ UNCHANGED <<wire, running>>
        /\ hold'[s] = <<Head(sendQ[s])>> /\ sendQ'[s] = Tail(sendQ[s])
    BY <1>2 DEF SendTake, TypeOK, TypeSend, TypeChan
  <2>2. Conveys(acc[s] - rem[s], out[Peer(s)], dec[Peer(s)], rbuf[Peer(s)],
                bOpen[Peer(s)], wire[s], running[s], <<>>, sendQ[s])
    BY <1>2, <2>1 DEF Pipeline
  <2>3. Conveys(acc[s] - rem[s], out[Peer(s)], dec[Peer(s)], rbuf[Peer(s)],
                bOpen[Peer(s)], wire[s], running[s], <<Head(sendQ[s])>>, Tail(sendQ[s]))
    BY <2>1, <2>2, PipelineTypes, MoveTake
  <2> QED BY <1>0, <1>2, <2>1, <2>3 DEF Pipeline
<1>3. CASE t = s /\ SendWrite(s)
  <2>1. /\ hold[s] # <<>> /\ UNCHANGED <<sendQ, running>> /\ running[s] = TRUE
        /\ hold'[s] = <<>>
    BY <1>3 DEF SendWrite, TypeOK, TypeSend
  <2>2. CASE bOpen[Peer(s)]
    <3>1. wire'[s] = wire[s] \o hold[s]
      BY <1>3, <2>2 DEF SendWrite, TypeOK, TypeNet
    <3>2. Len(hold[s]) = 1
      <4>0. hold[s] \in Seq(Packet)
        BY DEF TypeOK, TypeSend
      <4>1. Len(hold[s]) <= 1 /\ Len(hold[s]) \in Nat
        BY <4>0, LenProperties DEF TypeOK, TypeSend
      <4>2. Len(hold[s]) > 0
        BY <2>1, <4>0, HeadTailTypes
      <4>3. \A n \in Nat : n <= 1 /\ n > 0 => n = 1
        OBVIOUS
      <4> QED BY <4>1, <4>2, <4>3, Zenon
    <3>3. bOpen[Peer(s)] = TRUE BY <2>2, PipelineTypes
    <3>4. Conveys(acc[s] - rem[s], out[Peer(s)], dec[Peer(s)], rbuf[Peer(s)],
                  TRUE, wire[s] \o hold[s], TRUE, <<>>, sendQ[s])
      BY <1>3, <2>1, <3>2, <3>3, PipelineTypes, MoveWrite DEF Pipeline
    <3> QED BY <1>0, <1>3, <2>1, <3>1, <3>3, <3>4 DEF Pipeline
  <2>3. CASE ~bOpen[Peer(s)]
    <3>1. wire' = wire /\ bOpen[Peer(s)] = FALSE
      BY <1>3, <2>3, PipelineTypes DEF SendWrite
    <3>2. Conveys(acc[s] - rem[s], out[Peer(s)], dec[Peer(s)], rbuf[Peer(s)],
                  FALSE, wire[s], running[s], <<>>, sendQ[s])
      BY <1>3, PipelineTypes, MoveClose, ZenonT(40) DEF Pipeline
    <3> QED BY <1>0, <1>3, <2>1, <3>1, <3>2 DEF Pipeline
  <2> QED BY <2>2, <2>3
<1>4. CASE t = s /\ (SendFail(s) \/ SendExit(s))
  <2>1. /\ UNCHANGED <<sendQ, wire>> /\ running'[s] = FALSE
    BY <1>4 DEF SendFail, SendExit, TypeOK, TypeSend
  <2>0. hold[s] = <<>> \/ hold'[s] = <<>>
    BY <1>4 DEF SendFail, SendExit, TypeOK, TypeSend
  <2>3. hold'[s] = <<>>
    BY <1>4, <2>0 DEF SendFail, SendExit, TypeOK, TypeSend
  <2>2. Conveys(acc[s] - rem[s], out[Peer(s)], dec[Peer(s)], rbuf[Peer(s)],
                bOpen[Peer(s)], wire[s], FALSE, <<>>, sendQ[s])
    <3>1. Conveys(acc[s] - rem[s], out[Peer(s)], dec[Peer(s)], rbuf[Peer(s)],
                  bOpen[Peer(s)], wire[s], running[s], hold[s], sendQ[s])
      BY <1>4 DEF Pipeline
    <3>2. bOpen[Peer(s)] \in BOOLEAN /\ running[s] \in BOOLEAN
      BY PipelineTypes
    <3> QED BY <3>1, <3>2, MoveStop
  <2> QED BY <1>0, <1>4, <2>1, <2>2, <2>3 DEF Pipeline
<1> QED BY <1>1, <1>2, <1>3, <1>4 DEF SendStep

\* The steps of the reader keep both directions.
LEMMA ReaderKeeps ==
  ASSUME TypeOK, NEW s \in Side, NEW t \in Side, Pipeline(t), ReaderStep(s)
  PROVE  Pipeline(t)'
<1> USE DEF cntVars, mainVars, sendVars, readVars, sockVars
<1>0. UNCHANGED <<acc, rem, running, hold, sendQ>>
  BY DEF ReaderStep, ReaderRead, ReaderFail, ReaderPayload, ReaderSignal, ReaderDeliver,
     ReaderClose
<1>1. CASE ReaderClose(s)
  <2>1. /\ bOpen' = [bOpen EXCEPT ![s] = FALSE]
        /\ UNCHANGED <<out, dec, rbuf, wire>>
    BY <1>1 DEF ReaderClose
  <2> QED BY <1>0, <2>1, CloseKeeps
<1>2. CASE ReaderFail(s)
  BY <1>0, <1>2, PipelineKept DEF ReaderFail
<1>3. CASE Peer(t) # s /\ ~ReaderClose(s)
  <2>1. t = s /\ Peer(s) \in Side /\ Peer(s) # s
    BY <1>3 DEF Side, Peer, Client, Server
  <2>2. /\ bOpen' = bOpen /\ wire'[s] = wire[s]
        /\ UNCHANGED <<out[Peer(s)], dec[Peer(s)], rbuf[Peer(s)]>>
    BY <1>3, <2>1 DEF ReaderStep, ReaderRead, ReaderFail, ReaderPayload, ReaderSignal,
       ReaderDeliver, TypeOK, TypeRead, TypeNet
  <2> QED BY <1>0, <2>1, <2>2, PipelineKept
<1> DEFINE Rest(o, d, rb, w) ==
      Conveys(acc[t] - rem[t], o, d, rb, bOpen[s], w, running[t], hold[t], sendQ[t])
<1>4. ASSUME Peer(t) = s
      PROVE  /\ Rest(out[s], dec[s], rbuf[s], wire[t])
             /\ acc[t] - rem[t] \in Nat /\ out[s] \in Seq(Nat) /\ dec[s] \in Seq(Nat)
             /\ rbuf[s] \in Seq(Packet) /\ wire[t] \in Seq(Packet)
  BY <1>4, PipelineTypes DEF Pipeline
<1>5. CASE Peer(t) = s /\ ReaderRead(s)
  <2>1. /\ bOpen[s] = TRUE /\ wire[t] # <<>> /\ UNCHANGED <<bOpen, out, dec>>
        /\ rbuf'[s] = Append(rbuf[s], Head(wire[t])) /\ wire'[t] = Tail(wire[t])
    <3>1. Peer(s) = t BY <1>5, PeerType
    <3> QED BY <1>5, <3>1 DEF ReaderRead, TypeOK, TypeRead, TypeNet
  <2>2. Conveys(acc[t] - rem[t], out[s], dec[s], rbuf[s], TRUE, wire[t], running[t],
                hold[t], sendQ[t])
    BY <1>4, <1>5, <2>1
  <2>3. Conveys(acc[t] - rem[t], out[s], dec[s], Append(rbuf[s], Head(wire[t])), TRUE,
                Tail(wire[t]), running[t], hold[t], sendQ[t])
    BY <1>4, <1>5, <2>1, <2>2, MoveRead
  <2> QED BY <1>0, <1>5, <2>1, <2>3 DEF Pipeline
<1>6. CASE Peer(t) = s /\ ReaderPayload(s)
  <2>1. /\ rbuf[s] # <<>> /\ Head(rbuf[s]).type = "Payload" /\ UNCHANGED <<bOpen, out, wire>>
        /\ dec'[s] = Append(dec[s], Head(rbuf[s]).seg) /\ rbuf'[s] = Tail(rbuf[s])
    BY <1>6 DEF ReaderPayload, TypeOK, TypeRead
  <2>2. Rest(out[s], Append(dec[s], Head(rbuf[s]).seg), Tail(rbuf[s]), wire[t])
    BY <1>4, <1>6, <2>1, MovePayload
  <2> QED BY <1>0, <1>6, <2>1, <2>2 DEF Pipeline
<1>7. CASE Peer(t) = s /\ ReaderSignal(s)
  <2>1. /\ rbuf[s] # <<>> /\ Head(rbuf[s]).type # "Payload"
        /\ UNCHANGED <<bOpen, out, dec, wire>> /\ rbuf'[s] = Tail(rbuf[s])
    BY <1>7 DEF ReaderSignal, TypeOK, TypeRead, Signal, SigStart, SigStop
  <2>2. Rest(out[s], dec[s], Tail(rbuf[s]), wire[t])
    BY <1>4, <1>7, <2>1, MoveSignal
  <2> QED BY <1>0, <1>7, <2>1, <2>2 DEF Pipeline
<1>8. CASE Peer(t) = s /\ ReaderDeliver(s)
  <2>0. UNCHANGED <<bOpen, rbuf, wire>>
    BY <1>8 DEF ReaderDeliver
  <2>1. CASE UNCHANGED <<dec, out>>
    BY <1>0, <2>0, <2>1, PipelineKept
  <2>2. CASE out'[s] = out[s] \o dec[s] /\ dec'[s] = <<>>
    <3>1. Rest(out[s] \o dec[s], <<>>, rbuf[s], wire[t])
      BY <1>4, <1>8, MoveDeliver
    <3> QED BY <1>0, <1>8, <2>0, <2>2, <3>1 DEF Pipeline
  <2> QED BY <1>8, <2>1, <2>2 DEF ReaderDeliver, TypeOK, TypeRead
<1> QED BY <1>1, <1>2, <1>3, <1>5, <1>6, <1>7, <1>8 DEF ReaderStep

\* Main goes back to waiting only from an empty receiveBuf.
LEMMA DrainedStep ==
  ASSUME TypeOK, NEW t \in Side, mpc[t] \in {"poll", "read"} => rem[t] = 0, [Next]_vars
  PROVE  (mpc[t] \in {"poll", "read"} => rem[t] = 0)'
<1> USE DEF cntVars, mainVars, sendVars, readVars, sockVars
<1>1. ASSUME NEW s \in Side, MainStep(s) \/ MainRead(s) \/ MainReadEOF(s)
      PROVE  (mpc[t] \in {"poll", "read"} => rem[t] = 0)'
  BY <1>1 DEF MainStep, MainPoll, MainReadClosed, MainLoad, MainReload, MainSetStart,
     MainSigStart, MainChop, MainCount, MainReturn, MainClose, MainRead, MainReadEOF,
     TypeOK, TypeMain
<1>2. ASSUME NEW s \in Side, TickerStep(s) \/ SendStep(s) \/ ReaderStep(s)
      PROVE  UNCHANGED <<mpc, rem>>
  <2>1. CASE TickerStep(s)
    BY <2>1 DEF TickerStep, TickerTick, TickerSetStop, TickerSigStop, TickerResetSent,
       TickerResetRcv, TickerExit
  <2>2. CASE SendStep(s)
    BY <2>2 DEF SendStep, SendTake, SendWrite, SendFail, SendExit
  <2>3. CASE ReaderStep(s)
    BY <2>3 DEF ReaderStep, ReaderRead, ReaderFail, ReaderPayload, ReaderSignal,
       ReaderDeliver, ReaderClose
  <2> QED BY <1>2, <2>1, <2>2, <2>3
<1>3. CASE NetFail \/ UNCHANGED vars
  BY <1>3 DEF NetFail, vars
<1> QED BY <1>1, <1>2, <1>3 DEF Next

\* Every step keeps both directions whole.
LEMMA PipelineStep == TypeOK /\ NoLossInside /\ [Next]_vars => NoLossInside'
<1> SUFFICES ASSUME TypeOK, NoLossInside, [Next]_vars, NEW t \in Side
             PROVE  (Pipeline(t) /\ (mpc[t] \in {"poll", "read"} => rem[t] = 0))'
  BY DEF NoLossInside
<1>1. Pipeline(t) /\ \A s \in Side : mpc[s] \in {"poll", "read"} => rem[s] = 0
  BY DEF NoLossInside
<1>2. ASSUME NEW s \in Side,
             \/ MainStep(s) \/ MainRead(s) \/ MainReadEOF(s)
             \/ TickerStep(s) \/ SendStep(s) \/ ReaderStep(s)
      PROVE  Pipeline(t)'
  BY <1>1, <1>2, MainKeeps, TickerKeeps, SendKeeps, ReaderKeeps
<1>3. CASE NetFail
  BY <1>1, <1>3, PipelineKept DEF NetFail, cntVars, mainVars, sendVars, readVars
<1>4. CASE UNCHANGED vars
  BY <1>1, <1>4, PipelineKept DEF vars
<1>5. Pipeline(t)'
  BY <1>2, <1>3, <1>4 DEF Next
<1> QED BY <1>1, <1>5, DrainedStep

\* At every moment, in both directions, the buffers between ReadFrom at one end and the
\* program at the other hold consecutive stretches of the data, so no segment is lost,
\* duplicated or overtaken, and a broken connection only loses a tail.
THEOREM NothingLost == Spec => []NoLossInside
<1>1. Init => NoLossInside BY PipelineInit
<1> QED BY <1>1, PipelineStep, TypeCorrect, PTL DEF Spec

-----------------------------------------------------------------------------
(* DefConn implements Relay.                                               *)

\* A read from the local program is an Accept of the relay.
LEMMA ReadAccepts ==
  ASSUME TypeOK, NEW s \in Side, MainRead(s)
  PROVE  Abstract!Accept(s)
<1>1. PICK k \in 1..2 : acc' = [acc EXCEPT ![s] = @ + k]
  BY DEF MainRead
<1>2. acc \in [Side -> Nat] BY DEF TypeOK, TypeMain
<1>3. acc'[s] = acc[s] + k BY <1>1, <1>2
<1>4. out' = out BY DEF MainRead, readVars
<1> QED BY <1>1, <1>2, <1>3, <1>4 DEF Abstract!Accept

\* Handing decoded data over is a Deliver of the relay.
LEMMA HandOverDelivers ==
  ASSUME TypeOK, NoLossInside, NEW s \in Side, dec[s] # <<>>,
         out' = [out EXCEPT ![s] = @ \o dec[s]], UNCHANGED acc
  PROVE  Abstract!Deliver(s)
<1> DEFINE k == Len(dec[s])
           t == Peer(s)
<1>1. t \in Side /\ Peer(t) = s BY PeerType
<1>2. Conveys(acc[t] - rem[t], out[s], dec[s], rbuf[s], bOpen[s], wire[t], running[t],
              hold[t], sendQ[t])
  BY <1>1 DEF NoLossInside, Pipeline
<1>3. dec[s] = [i \in 1..k |-> Len(out[s]) + i]
  BY <1>2 DEF Conveys
<1>4. dec[s] = Abstract!Following(out[s], k)
  BY <1>3 DEF Abstract!Following
<1>5. out[s] \in Seq(Nat) /\ dec[s] \in Seq(Nat) /\ acc[t] - rem[t] \in Nat
  BY <1>1, PipelineTypes DEF TypeOK, TypeRead
<1>6. Len(out[s]) + k <= acc[t] - rem[t]
  BY <1>2, <1>5, MoveDeliver
<1>7. k \in Nat /\ k > 0 /\ Len(out[s]) \in Nat
  BY <1>5, HeadTailTypes, LenProperties
<1>8. acc[t] \in Nat /\ rem[t] \in Nat
  BY <1>1 DEF TypeOK, TypeMain
<1> HIDE DEF k, t
<1>9. k \in 1..(acc[t] - Len(out[s]))
  BY <1>6, <1>7, <1>8
<1>10. out' = [out EXCEPT ![s] = @ \o Abstract!Following(@, k)]
  BY <1>4
<1> QED BY <1>9, <1>10 DEF Abstract!Deliver, t

\* Every step of DefConn is a step of the relay or leaves it unchanged.
LEMMA StepRefines ==
  TypeOK /\ NoLossInside /\ [Next]_vars => [Abstract!Next]_(Abstract!relayVars)
<1> SUFFICES ASSUME TypeOK, NoLossInside, [Next]_vars
             PROVE  Abstract!Next \/ UNCHANGED <<acc, out>>
  BY DEF Abstract!relayVars
<1> USE DEF cntVars, mainVars, sendVars, readVars, sockVars
<1>1. ASSUME NEW s \in Side, MainRead(s) PROVE Abstract!Next
  BY <1>1, ReadAccepts DEF Abstract!Next
<1>2. ASSUME NEW s \in Side, MainStep(s) \/ MainReadEOF(s) PROVE UNCHANGED <<acc, out>>
  BY <1>2 DEF MainStep, MainPoll, MainReadClosed, MainLoad, MainReload, MainSetStart,
     MainSigStart, MainChop, MainCount, MainReturn, MainClose, MainReadEOF
<1>3. ASSUME NEW s \in Side, TickerStep(s) \/ SendStep(s) PROVE UNCHANGED <<acc, out>>
  BY <1>3 DEF TickerStep, TickerTick, TickerSetStop, TickerSigStop, TickerResetSent,
     TickerResetRcv, TickerExit, SendStep, SendTake, SendWrite, SendFail, SendExit
<1>4. ASSUME NEW s \in Side, ReaderStep(s) PROVE Abstract!Next \/ UNCHANGED <<acc, out>>
  <2>1. CASE ReaderDeliver(s)
    <3>1. CASE dec[s] # <<>> /\ out' = [out EXCEPT ![s] = @ \o dec[s]] /\ UNCHANGED acc
      BY <3>1, HandOverDelivers DEF Abstract!Next
    <3>2. CASE UNCHANGED <<acc, out>> BY <3>2
    <3> QED BY <2>1, <3>1, <3>2 DEF ReaderDeliver
  <2>2. CASE ~ReaderDeliver(s)
    BY <1>4, <2>2 DEF ReaderStep, ReaderRead, ReaderFail, ReaderPayload, ReaderSignal,
       ReaderClose
  <2> QED BY <2>1, <2>2
<1>5. CASE NetFail \/ UNCHANGED vars
  BY <1>5 DEF NetFail, vars
<1> QED BY <1>1, <1>2, <1>3, <1>4, <1>5 DEF Next

\* For every capacity, every amount of data and every failure, a defended connection is
\* a relay: what the programs at its ends receive is, in each direction, a prefix of
\* what was sent, in order and without repetitions.
THEOREM RefinesRelay == Spec => ImplementsRelay
<1>1. Init => Abstract!Init
  BY DEF Init, Abstract!Init
<1> QED BY <1>1, StepRefines, TypeCorrect, NothingLost, PTL
        DEF Spec, ImplementsRelay, Abstract!Spec

-----------------------------------------------------------------------------
(* The bridge follows the client.                                          *)

\* Only the client's main and ticker move the state and send signals.
OnlyClientMoves ==
  /\ mpc[Server] \notin {"load", "reload", "setStart", "sigStart"}
  /\ tpc[Server] \notin {"setStop", "sigStop"}

\* Is the client's defence on?
Defends == st[Client] = "Start"

\* What the client has queued and the bridge has not processed brings the bridge to where
\* the client is; a signal that is not queued yet is that of the client's state.
Announced ==
  /\ mpc[Client] = "sigStart" => Defends
  /\ tpc[Client] = "sigStop" => ~Defends
  /\ Connected /\ mpc[Client] # "sigStart" /\ tpc[Client] # "sigStop" =>
       Announces(UpFlight, SigStart, SigStop, st[Server] = "Start", Defends)

AnnouncedInv == OnlyClientMoves /\ (~raced => Announced)

\* The ends are the client and the bridge.
LEMMA TwoSides == /\ Client \in Side /\ Server \in Side /\ Client # Server
                  /\ \A s \in Side : s = Client \/ s = Server
                  /\ Peer(Client) = Server /\ Peer(Server) = Client
  BY DEF Side, Peer, Client, Server

\* Payload packets are no signals.
LEMMA SignalsApart == /\ Signal = {SigStart, SigStop} /\ SigStart # SigStop
                      /\ \A p \in Packet : p.type = "Payload" => p \notin {SigStart, SigStop}
  BY DEF Signal, SigStart, SigStop, Packet

\* Everything between ReadFrom at one end and ReadPackets at the other, in order.
Flight(rb, w, h, q) == rb \o w \o h \o q

\* The packets in flight are packets.
LEMMA FlightType ==
  ASSUME NEW rb \in Seq(Packet), NEW w \in Seq(Packet), NEW h \in Seq(Packet),
         NEW q \in Seq(Packet)
  PROVE  Flight(rb, w, h, q) \in Seq(Packet)
<1>1. rb \o w \in Seq(Packet) BY ConcatProperties
<1>2. (rb \o w) \o h \in Seq(Packet) BY <1>1, ConcatProperties
<1> QED BY <1>1, <1>2, ConcatProperties DEF Flight

\* Queues in a row may be grouped in any way.
LEMMA Regroup == \A a, b, c \in Seq(Packet) : (a \o b) \o c = a \o (b \o c)
  BY ConcatAssociative

\* SendTake: what is in flight stays the same.
LEMMA FlightTake ==
  ASSUME NEW rb \in Seq(Packet), NEW w \in Seq(Packet), NEW q \in Seq(Packet), q # <<>>
  PROVE  Flight(rb, w, <<Head(q)>>, Tail(q)) = Flight(rb, w, <<>>, q)
<1> DEFINE a == rb \o w
           h == <<Head(q)>>
           r == Tail(q)
<1>1. a \in Seq(Packet) BY ConcatProperties
<1>2. h \in Seq(Packet) /\ r \in Seq(Packet) BY SplitFirst
<1>3. q = h \o r BY SplitFirst
<1> HIDE DEF a, h, r
<1>4. (a \o h) \o r = a \o (h \o r) BY <1>1, <1>2, Regroup
<1>5. a \o <<>> = a BY <1>1, ConcatEmptySeq
<1> QED BY <1>3, <1>4, <1>5 DEF Flight, a, h, r

\* SendWrite: what is in flight stays the same.
LEMMA FlightWrite ==
  ASSUME NEW rb \in Seq(Packet), NEW w \in Seq(Packet), NEW h \in Seq(Packet),
         NEW q \in Seq(Packet)
  PROVE  Flight(rb, w \o h, <<>>, q) = Flight(rb, w, h, q)
<1>1. rb \o (w \o h) = (rb \o w) \o h BY ConcatAssociative, SMTT(20)
<1>2. rb \o (w \o h) \in Seq(Packet) /\ w \o h \in Seq(Packet) BY ConcatProperties
<1>3. (rb \o (w \o h)) \o <<>> = rb \o (w \o h) BY <1>2, ConcatEmptySeq
<1> QED BY <1>1, <1>3 DEF Flight

\* ReaderRead: what is in flight stays the same.
LEMMA FlightRead ==
  ASSUME NEW rb \in Seq(Packet), NEW w \in Seq(Packet), NEW h, NEW q, w # <<>>
  PROVE  Flight(Append(rb, Head(w)), Tail(w), h, q) = Flight(rb, w, h, q)
<1> DEFINE x == <<Head(w)>>
           r == Tail(w)
<1>1. x \in Seq(Packet) /\ r \in Seq(Packet) /\ w = x \o r BY SplitFirst
<1>2. Append(rb, Head(w)) = rb \o x BY HeadTailTypes, AppendIsConcat
<1> HIDE DEF x, r
<1>3. (rb \o x) \o r = rb \o (x \o r) BY <1>1, ConcatAssociative
<1>4. Append(rb, Head(w)) \o r = rb \o w BY <1>1, <1>2, <1>3
<1> QED BY <1>4 DEF Flight, r

\* Queueing e on q puts it behind everything in flight.
ComesLast(rb, w, h, q, e) ==
  Flight(rb, w, h, Append(q, e)) = Append(Flight(rb, w, h, q), e)

\* A queued packet comes last.
LEMMA FlightQueue ==
  ASSUME NEW rb \in Seq(Packet), NEW w \in Seq(Packet), NEW h \in Seq(Packet),
         NEW q \in Seq(Packet), NEW e \in Packet
  PROVE  ComesLast(rb, w, h, q, e)
<1> DEFINE a == rb \o w \o h
<1>1. a \in Seq(Packet)
  <2>1. rb \o w \in Seq(Packet) BY ConcatProperties
  <2> QED BY <2>1, ConcatProperties
<1> HIDE DEF a
<1>2. Append(q, e) = q \o <<e>> /\ <<e>> \in Seq(Packet) BY AppendIsConcat
<1>3. a \o (q \o <<e>>) = (a \o q) \o <<e>> BY <1>1, <1>2, ConcatAssociative
<1>4. a \o q \in Seq(Packet) BY <1>1, ConcatProperties
<1>5. Append(a \o q, e) = (a \o q) \o <<e>> BY <1>4, AppendIsConcat
<1> QED BY <1>2, <1>3, <1>5 DEF ComesLast, Flight, a

\* Taking the first packet of rb takes the first packet in flight.
TakesFirst(rb, w, h, q) ==
  /\ Flight(rb, w, h, q) # <<>>
  /\ Head(Flight(rb, w, h, q)) = Head(rb)
  /\ Tail(Flight(rb, w, h, q)) = Flight(Tail(rb), w, h, q)

\* The reader takes the first packet.
LEMMA FlightFirst ==
  ASSUME NEW rb \in Seq(Packet), NEW w \in Seq(Packet), NEW h \in Seq(Packet),
         NEW q \in Seq(Packet), rb # <<>>
  PROVE  TakesFirst(rb, w, h, q)
<1> DEFINE a == rb \o w
           b == a \o h
           c == b \o q
<1>0. Tail(rb) \in Seq(Packet) BY HeadTailTypes
<1>1. a \in Seq(Packet) /\ a # <<>> /\ Head(a) = Head(rb) /\ Tail(a) = Tail(rb) \o w
  BY ConcatProperties, ConcatFirst
<1> HIDE DEF a
<1>2. b \in Seq(Packet) /\ b # <<>> /\ Head(b) = Head(a) /\ Tail(b) = Tail(a) \o h
  BY <1>1, ConcatProperties, ConcatFirst, SMTT(20)
<1> HIDE DEF b
<1>3. c # <<>> /\ Head(c) = Head(b) /\ Tail(c) = Tail(b) \o q
  BY <1>2, ConcatFirst
<1> QED BY <1>1, <1>2, <1>3 DEF TakesFirst, Flight, a, b, c

\* The packets in flight from the client to the bridge.
LEMMA UpFlightIs ==
  ASSUME TypeOK
  PROVE  /\ UpFlight = Flight(rbuf[Server], wire[Client], hold[Client], sendQ[Client])
         /\ rbuf[Server] \in Seq(Packet) /\ wire[Client] \in Seq(Packet)
         /\ hold[Client] \in Seq(Packet) /\ sendQ[Client] \in Seq(Packet)
         /\ UpFlight \in Seq(Packet)
<1>1. UpFlight = Flight(rbuf[Server], wire[Client], hold[Client], sendQ[Client])
  BY DEF UpFlight, Flight
<1>2. /\ rbuf[Server] \in Seq(Packet) /\ wire[Client] \in Seq(Packet)
      /\ hold[Client] \in Seq(Packet) /\ sendQ[Client] \in Seq(Packet)
  BY TwoSides DEF TypeOK, TypeRead, TypeNet, TypeSend, TypeChan
<1> QED BY <1>1, <1>2, FlightType

\* A packet queued by the client comes last of those in flight.
LEMMA UpFlightQueue ==
  ASSUME TypeOK, NEW e \in Packet,
         sendQ' = [sendQ EXCEPT ![Client] = Append(@, e)], UNCHANGED <<rbuf, wire, hold>>
  PROVE  UpFlight' = Append(UpFlight, e) /\ UpFlight \in Seq(Packet)
<1> DEFINE rb == rbuf[Server]
           w == wire[Client]
           h == hold[Client]
           q == sendQ[Client]
<1>1. rb \in Seq(Packet) /\ w \in Seq(Packet) /\ h \in Seq(Packet) /\ q \in Seq(Packet)
  BY UpFlightIs
<1>2. sendQ'[Client] = Append(q, e)
  BY TwoSides DEF TypeOK, TypeChan
<1>3. UpFlight' = Flight(rb, w, h, sendQ'[Client]) /\ UpFlight = Flight(rb, w, h, q)
  BY DEF UpFlight, Flight
<1> HIDE DEF rb, w, h, q
<1>4. ComesLast(rb, w, h, q, e)
  BY <1>1, FlightQueue
<1> QED BY <1>2, <1>3, <1>4, UpFlightIs DEF ComesLast

\* The announcement stays right while nothing that it depends on changes.
LEMMA AnnouncedKept ==
  ASSUME ~raced => Announced, ~raced' => ~raced, Connected' => Connected,
         Connected' => UpFlight' = UpFlight,
         st'[Server] = st[Server], Defends' <=> Defends,
         mpc'[Client] = "sigStart" <=> mpc[Client] = "sigStart",
         tpc'[Client] = "sigStop" <=> tpc[Client] = "sigStop"
  PROVE  ~raced' => Announced'
<1> SUFFICES ASSUME ~raced' PROVE Announced'
  OBVIOUS
<1> DEFINE d == Defends
           w == st[Server] = "Start"
<1>1. Connected' => (Announces(UpFlight, SigStart, SigStop, w, d)
                      <=> Announces(UpFlight', SigStart, SigStop, w', d'))
  BY DEF Announces
<1> QED BY <1>1 DEF Announced

\* It stays right when the client queues a payload packet.
LEMMA PayloadQueued ==
  ASSUME TypeOK, ~raced => Announced, NEW e \in Packet, e.type = "Payload",
         sendQ' = [sendQ EXCEPT ![Client] = Append(@, e)],
         UNCHANGED <<st, tpc, rbuf, wire, hold, running, bOpen, link, raced>>,
         mpc[Client] # "sigStart", mpc'[Client] # "sigStart"
  PROVE  ~raced' => Announced'
<1> SUFFICES ASSUME ~raced PROVE Announced'
  OBVIOUS
<1> DEFINE d == Defends
           w == st[Server] = "Start"
<1>1. UpFlight' = Append(UpFlight, e) /\ UpFlight \in Seq(Packet)
  BY UpFlightQueue
<1>2. d \in BOOLEAN /\ w \in BOOLEAN /\ (d' <=> d) /\ (w' <=> w) /\ (Connected' <=> Connected)
  BY DEF Defends, Connected
<1>3. e \notin {SigStart, SigStop} BY SignalsApart
<1> HIDE DEF d, w
<1>4. Announces(UpFlight, SigStart, SigStop, w, d)
        => Announces(Append(UpFlight, e), SigStart, SigStop, w, d)
  BY <1>1, <1>2, <1>3, AnnouncesOther
<1>5. Announces(UpFlight, SigStart, SigStop, w, d)
        => Announces(UpFlight', SigStart, SigStop, w', d')
  BY <1>1, <1>2, <1>4 DEF Announces
<1> QED BY <1>2, <1>5 DEF Announced, d, w

\* It is right once the client has queued the signal of its state.
LEMMA SignalQueued ==
  ASSUME TypeOK, NEW e \in {SigStart, SigStop}, Defends <=> e = SigStart,
         sendQ' = [sendQ EXCEPT ![Client] = Append(@, e)],
         UNCHANGED <<st, rbuf, wire, hold>>
  PROVE  Announces(UpFlight', SigStart, SigStop, (st[Server] = "Start")', Defends')
<1> DEFINE d == Defends
           w == st[Server] = "Start"
<1>0. e \in Packet BY PacketTypes
<1>1. UpFlight' = Append(UpFlight, e) /\ UpFlight \in Seq(Packet)
  BY <1>0, UpFlightQueue
<1>2. d \in BOOLEAN /\ w \in BOOLEAN /\ (d' <=> d) /\ (w' <=> w) /\ (d <=> e = SigStart)
  BY DEF Defends
<1> HIDE DEF d, w
<1>3. Announces(Append(UpFlight, e), SigStart, SigStop, w, d)
  BY <1>0, <1>1, <1>2, AnnouncesSignal
<1>4. Announces(UpFlight', SigStart, SigStop, w', d')
  BY <1>1, <1>2, <1>3 DEF Announces
<1> QED BY <1>4 DEF d, w

\* The steps of main: the client announces every change of its own to or from Start.
LEMMA MainAnnounces ==
  ASSUME TypeOK, AnnouncedInv, NEW s \in Side, MainStep(s) \/ MainRead(s) \/ MainReadEOF(s)
  PROVE  AnnouncedInv'
<1> USE DEF cntVars, mainVars, sendVars, readVars, sockVars
<1>0. /\ tpc' = tpc /\ UNCHANGED <<rbuf, wire, hold, running, link>> /\ mpc \in [Side -> MainPC]
      /\ bOpen' = bOpen \/ bOpen' = [bOpen EXCEPT ![s] = FALSE]
      /\ \A t \in Side : t # s => mpc'[t] = mpc[t] /\ st'[t] = st[t] /\ sendQ'[t] = sendQ[t]
  BY DEF MainStep, MainPoll, MainReadClosed, MainLoad, MainReload, MainSetStart, MainSigStart,
     MainChop, MainCount, MainReturn, MainClose, MainRead, MainReadEOF, Enqueue,
     TypeOK, TypeMain, TypeState, TypeChan
<1>1. Connected' => Connected
  <2>1. CASE bOpen' = bOpen BY <1>0, <2>1 DEF Connected
  <2>2. CASE bOpen' = [bOpen EXCEPT ![s] = FALSE]
    <3>1. ~bOpen'[s] BY <2>2 DEF TypeOK, TypeNet
    <3> QED BY <3>1, TwoSides DEF Connected
  <2> QED BY <1>0, <2>1, <2>2
<1>2. OnlyClientMoves'
  <2>1. CASE s = Client BY <1>0, <2>1, TwoSides DEF AnnouncedInv, OnlyClientMoves
  <2>2. CASE s = Server
    <3>1. mpc'[Server] \notin {"load", "reload", "setStart", "sigStart"}
      BY <1>0, <2>2, TwoSides DEF AnnouncedInv, OnlyClientMoves, MainStep, MainPoll,
         MainReadClosed, MainLoad, MainReload, MainSetStart, MainSigStart, MainChop,
         MainCount, MainReturn, MainClose, MainRead, MainReadEOF
    <3> QED BY <1>0, <3>1 DEF AnnouncedInv, OnlyClientMoves
  <2> QED BY <2>1, <2>2, TwoSides
<1>3. ~raced' => Announced'
  <2>0. ~raced => Announced BY DEF AnnouncedInv
  <2>1. CASE s = Server
    <3>1. st' = st /\ raced' = raced
      BY <2>1 DEF AnnouncedInv, OnlyClientMoves, MainStep, MainPoll, MainReadClosed, MainLoad,
         MainReload, MainSetStart, MainSigStart, MainChop, MainCount, MainReturn, MainClose,
         MainRead, MainReadEOF
    <3>2. UpFlight' = UpFlight /\ mpc'[Client] = mpc[Client]
      BY <1>0, <2>1, TwoSides DEF UpFlight
    <3> QED BY <1>0, <1>1, <2>0, <3>1, <3>2, AnnouncedKept DEF Defends
  <2>2. CASE s = Client
    <3>0. st'[Server] = st[Server] BY <1>0, <2>2, TwoSides
    <3>1. CASE \/ MainPoll(s) \/ MainReadClosed(s) \/ MainCount(s) \/ MainReturn(s)
               \/ MainClose(s) \/ MainRead(s) \/ MainReadEOF(s)
      <4>1. UNCHANGED <<st, sendQ, raced>>
        BY <3>1 DEF MainPoll, MainReadClosed, MainCount, MainReturn, MainClose, MainRead,
           MainReadEOF
      <4>2. mpc[Client] # "sigStart" /\ mpc'[Client] # "sigStart"
        BY <1>0, <2>2, <3>1 DEF MainPoll, MainReadClosed, MainCount, MainReturn, MainClose,
           MainRead, MainReadEOF
      <4> QED BY <1>0, <1>1, <2>0, <3>0, <4>1, <4>2, AnnouncedKept DEF UpFlight, Defends
    <3>2. CASE MainChop(s)
      <4>0. /\ UNCHANGED <<st, bOpen, raced>>
            /\ mpc[Client] # "sigStart" /\ mpc'[Client] # "sigStart"
        BY <1>0, <2>2, <3>2 DEF MainChop
      <4>1. CASE rem[s] = 0
        <5>1. sendQ' = sendQ BY <3>2, <4>1 DEF MainChop
        <5> QED BY <1>0, <1>1, <2>0, <3>0, <4>0, <5>1, AnnouncedKept DEF UpFlight, Defends
      <4>2. CASE rem[s] > 0
        <5> DEFINE e == Payload(acc[s] - rem[s] + 1)
        <5>1. sendQ' = [sendQ EXCEPT ![Client] = Append(@, e)]
          BY <2>2, <3>2, <4>2 DEF MainChop, Enqueue
        <5>2. e \in Packet /\ e.type = "Payload"
          <6>1. acc[s] - rem[s] + 1 \in Nat BY DEF TypeOK, TypeMain
          <6> QED BY <6>1, PacketTypes DEF Payload
        <5> QED BY <1>0, <2>0, <4>0, <5>1, <5>2, PayloadQueued
      <4> QED BY <4>1, <4>2 DEF TypeOK, TypeMain
    <3>3. CASE MainSigStart(s)
      <4>1. /\ UNCHANGED <<st, raced>> /\ mpc[Client] = "sigStart" /\ mpc'[Client] = "chop"
            /\ sendQ' = [sendQ EXCEPT ![Client] = Append(@, SigStart)]
        BY <1>0, <2>2, <3>3 DEF MainSigStart, Enqueue
      <4>2. ASSUME ~raced PROVE Announced'
        <5>1. Defends BY <2>0, <4>1, <4>2 DEF Announced
        <5>2. Announces(UpFlight', SigStart, SigStop, (st[Server] = "Start")', Defends')
          BY <1>0, <4>1, <5>1, SignalQueued
        <5>3. tpc'[Client] = "sigStop" => ~Defends'
          BY <1>0, <2>0, <4>1, <4>2 DEF Announced, Defends
        <5> QED BY <4>1, <5>2, <5>3 DEF Announced
      <4> QED BY <4>1, <4>2
    <3>4. CASE MainLoad(s) \/ MainReload(s) \/ MainSetStart(s)
      <4>0. sendQ' = sendQ /\ bOpen' = bOpen
        BY <3>4 DEF MainLoad, MainReload, MainSetStart
      <4>1. CASE st' = st /\ raced' = raced /\ mpc'[Client] # "sigStart"
        <5>1. mpc[Client] # "sigStart"
          BY <2>2, <3>4 DEF MainLoad, MainReload, MainSetStart
        <5> QED BY <1>0, <1>1, <2>0, <3>0, <4>0, <4>1, <5>1, AnnouncedKept DEF UpFlight, Defends
      <4>2. CASE /\ st[s] = "Stop" /\ st' = [st EXCEPT ![s] = "Ready"] /\ raced' = raced
                 /\ mpc'[Client] # "sigStart"
        <5>1. mpc[Client] # "sigStart"
          BY <2>2, <3>4 DEF MainLoad, MainReload, MainSetStart
        <5>2. Defends' <=> Defends
          BY <2>2, <4>2 DEF Defends, TypeOK, TypeState
        <5> QED BY <1>0, <1>1, <2>0, <3>0, <4>0, <4>2, <5>1, <5>2, AnnouncedKept DEF UpFlight
      <4>3. CASE /\ st' = [st EXCEPT ![s] = "Start"] /\ mpc'[Client] = "sigStart"
                 /\ raced' = (raced \/ tpc[s] = "sigStop")
        <5>1. Defends' BY <2>2, <4>3 DEF Defends, TypeOK, TypeState
        <5>2. ~raced' => tpc'[Client] # "sigStop" BY <1>0, <2>2, <4>3
        <5> QED BY <4>3, <5>1, <5>2 DEF Announced
      <4> QED BY <1>0, <2>2, <3>4, <4>1, <4>2, <4>3 DEF MainLoad, MainReload, MainSetStart
    <3> QED BY <3>1, <3>2, <3>3, <3>4 DEF MainStep
  <2> QED BY <2>1, <2>2, TwoSides
<1> QED BY <1>2, <1>3 DEF AnnouncedInv

\* The steps of the ticker: it announces that it has turned the defence off.
LEMMA TickerAnnounces ==
  ASSUME TypeOK, AnnouncedInv, NEW s \in Side, TickerStep(s)
  PROVE  AnnouncedInv'
<1> USE DEF cntVars, mainVars, sendVars, readVars, sockVars
<1>0. /\ mpc' = mpc /\ UNCHANGED <<rbuf, wire, hold, running, link, bOpen>>
      /\ tpc \in [Side -> TickerPC]
      /\ \A t \in Side : t # s => tpc'[t] = tpc[t] /\ st'[t] = st[t] /\ sendQ'[t] = sendQ[t]
  BY DEF TickerStep, TickerTick, TickerSetStop, TickerSigStop, TickerResetSent, TickerResetRcv,
     TickerExit, Enqueue, TypeOK, TypeTicker, TypeState, TypeChan
<1>1. Connected' <=> Connected BY <1>0 DEF Connected
<1>2. OnlyClientMoves'
  <2>1. CASE s = Client BY <1>0, <2>1, TwoSides DEF AnnouncedInv, OnlyClientMoves
  <2>2. CASE s = Server
    <3>1. tpc'[Server] \notin {"setStop", "sigStop"}
      BY <1>0, <2>2, TwoSides DEF AnnouncedInv, OnlyClientMoves, TickerStep, TickerTick,
         TickerSetStop, TickerSigStop, TickerResetSent, TickerResetRcv, TickerExit
    <3> QED BY <1>0, <3>1 DEF AnnouncedInv, OnlyClientMoves
  <2> QED BY <2>1, <2>2, TwoSides
<1>3. ~raced' => Announced'
  <2>0. ~raced => Announced BY DEF AnnouncedInv
  <2>1. CASE s = Server
    <3>1. st' = st /\ raced' = raced
      BY <2>1 DEF AnnouncedInv, OnlyClientMoves, TickerStep, TickerTick, TickerSetStop,
         TickerSigStop, TickerResetSent, TickerResetRcv, TickerExit
    <3>2. UpFlight' = UpFlight /\ tpc'[Client] = tpc[Client]
      BY <1>0, <2>1, TwoSides DEF UpFlight
    <3> QED BY <1>0, <1>1, <2>0, <3>1, <3>2, AnnouncedKept DEF Defends
  <2>2. CASE s = Client
    <3>0. st'[Server] = st[Server] BY <1>0, <2>2, TwoSides
    <3>1. CASE TickerTick(s) \/ TickerResetSent(s) \/ TickerResetRcv(s) \/ TickerExit(s)
      <4>1. UNCHANGED <<st, sendQ, raced>>
        BY <3>1 DEF TickerTick, TickerResetSent, TickerResetRcv, TickerExit
      <4>2. tpc[Client] # "sigStop" /\ tpc'[Client] # "sigStop"
        BY <1>0, <2>2, <3>1 DEF TickerTick, TickerResetSent, TickerResetRcv, TickerExit
      <4> QED BY <1>0, <1>1, <2>0, <3>0, <4>1, <4>2, AnnouncedKept DEF UpFlight, Defends
    <3>2. CASE TickerSetStop(s)
      <4>1. /\ st' = [st EXCEPT ![s] = "Stop"] /\ tpc'[Client] = "sigStop"
            /\ raced' = (raced \/ mpc[s] = "sigStart")
        BY <1>0, <2>2, <3>2 DEF TickerSetStop
      <4>2. ~Defends' BY <2>2, <4>1 DEF Defends, TypeOK, TypeState
      <4>3. ~raced' => mpc'[Client] # "sigStart" BY <1>0, <2>2, <4>1
      <4> QED BY <4>1, <4>2, <4>3 DEF Announced
    <3>3. CASE TickerSigStop(s)
      <4>1. /\ UNCHANGED <<st, raced>> /\ tpc[Client] = "sigStop" /\ tpc'[Client] = "resetSent"
            /\ sendQ' = [sendQ EXCEPT ![Client] = Append(@, SigStop)]
        BY <1>0, <2>2, <3>3 DEF TickerSigStop, Enqueue
      <4>2. ASSUME ~raced PROVE Announced'
        <5>1. ~Defends BY <2>0, <4>1, <4>2 DEF Announced
        <5>2. Announces(UpFlight', SigStart, SigStop, (st[Server] = "Start")', Defends')
          BY <1>0, <4>1, <5>1, SignalQueued, SignalsApart
        <5>3. mpc'[Client] = "sigStart" => Defends'
          BY <1>0, <2>0, <4>1, <4>2 DEF Announced, Defends
        <5> QED BY <4>1, <5>2, <5>3 DEF Announced
      <4> QED BY <4>1, <4>2
    <3> QED BY <3>1, <3>2, <3>3 DEF TickerStep
  <2> QED BY <2>1, <2>2, TwoSides
<1> QED BY <1>2, <1>3 DEF AnnouncedInv

\* The steps of send: the packets in flight stay in order while the connection works.
LEMMA SendAnnounces ==
  ASSUME TypeOK, AnnouncedInv, NEW s \in Side, SendStep(s)
  PROVE  AnnouncedInv'
<1> USE DEF cntVars, mainVars, sendVars, readVars, sockVars
<1>0. /\ UNCHANGED <<mpc, tpc, st, raced, rbuf, link, bOpen>>
      /\ \A t \in Side : t # s => /\ running'[t] = running[t] /\ hold'[t] = hold[t]
                                  /\ wire'[t] = wire[t] /\ sendQ'[t] = sendQ[t]
      /\ running'[s] => running[s]
  BY DEF SendStep, SendTake, SendWrite, SendFail, SendExit, TypeOK, TypeSend, TypeNet, TypeChan
<1>1. OnlyClientMoves' BY <1>0 DEF AnnouncedInv, OnlyClientMoves
<1>2. Connected' => Connected
  BY <1>0, TwoSides DEF Connected
<1>3. Connected' => UpFlight' = UpFlight
  <2>1. CASE s = Server BY <1>0, <2>1, TwoSides DEF UpFlight
  <2>2. CASE s = Client
    <3> DEFINE rb == rbuf[Server]
               w == wire[Client]
               h == hold[Client]
               q == sendQ[Client]
    <3>1. /\ UpFlight = Flight(rb, w, h, q)
          /\ UpFlight' = Flight(rb', w', h', q') /\ rb' = rb
      BY <1>0 DEF UpFlight, Flight
    <3>2. rb \in Seq(Packet) /\ w \in Seq(Packet) /\ h \in Seq(Packet) /\ q \in Seq(Packet)
      BY UpFlightIs
    <3>3. CASE SendTake(s)
      <4>1. h = <<>> /\ q # <<>> /\ h' = <<Head(q)>> /\ q' = Tail(q) /\ w' = w
        BY <2>2, <3>3, TwoSides DEF SendTake, TypeOK, TypeSend, TypeChan
      <4> HIDE DEF rb, w, h, q
      <4> QED BY <3>1, <3>2, <4>1, FlightTake
    <3>4. CASE SendWrite(s)
      <4>1. CASE ~bOpen[Server]
        BY <1>0, <4>1 DEF Connected
      <4>2. CASE bOpen[Server]
        <5>1. h' = <<>> /\ q' = q /\ w' = w \o h
          BY <2>2, <3>4, <4>2, TwoSides DEF SendWrite, TypeOK, TypeSend, TypeNet
        <5> HIDE DEF rb, w, h, q
        <5> QED BY <3>1, <3>2, <5>1, FlightWrite
      <4> QED BY <4>1, <4>2
    <3>5. CASE SendFail(s) \/ SendExit(s)
      <4>1. ~running'[Client]
        BY <2>2, <3>5, TwoSides DEF SendFail, SendExit, TypeOK, TypeSend
      <4> QED BY <4>1 DEF Connected
    <3> QED BY <3>3, <3>4, <3>5 DEF SendStep
  <2> QED BY <2>1, <2>2, TwoSides
<1>4. ~raced' => Announced'
  BY <1>0, <1>2, <1>3, AnnouncedKept DEF AnnouncedInv, Defends
<1> QED BY <1>1, <1>4 DEF AnnouncedInv

\* The bridge has taken the first packet in flight, and followed it if it is a signal.
LEMMA FirstFollowed ==
  ASSUME TypeOK, ~raced => Announced, rbuf[Server] # <<>>,
         rbuf'[Server] = Tail(rbuf[Server]),
         UNCHANGED <<mpc, tpc, raced, wire, hold, sendQ, running, bOpen, link>>,
         st'[Client] = st[Client],
         Head(rbuf[Server]) \in {SigStart, SigStop} =>
            (st'[Server] = "Start" <=> Head(rbuf[Server]) = SigStart),
         Head(rbuf[Server]) \notin {SigStart, SigStop} => st'[Server] = st[Server]
  PROVE  ~raced' => Announced'
<1> SUFFICES ASSUME ~raced PROVE Announced'
  OBVIOUS
<1> DEFINE f == UpFlight
           d == Defends
           w == st[Server] = "Start"
           n == st'[Server] = "Start"
<1>1. f \in Seq(Packet) /\ f # <<>> /\ Head(f) = Head(rbuf[Server]) /\ UpFlight' = Tail(f)
  <2> DEFINE rb == rbuf[Server]
             wr == wire[Client]
             h == hold[Client]
             q == sendQ[Client]
             g == Flight(rb, wr, h, q)
  <2>1. UpFlight' = Flight(Tail(rb), wr, h, q) /\ f = g /\ rb # <<>>
    BY DEF UpFlight, Flight
  <2>2. /\ rb \in Seq(Packet) /\ wr \in Seq(Packet) /\ h \in Seq(Packet)
        /\ q \in Seq(Packet) /\ f \in Seq(Packet)
    BY UpFlightIs
  <2> HIDE DEF rb, wr, h, q, f
  <2>3. TakesFirst(rb, wr, h, q)
    BY <2>1, <2>2, FlightFirst
  <2> HIDE DEF g
  <2>4. f # <<>> /\ Head(f) = Head(rb) /\ UpFlight' = Tail(f)
    BY <2>1, <2>3 DEF g, TakesFirst
  <2> QED BY <2>2, <2>4 DEF rb
<1>2. d \in BOOLEAN /\ w \in BOOLEAN /\ n \in BOOLEAN /\ (d' <=> d) /\ (Connected' <=> Connected)
  BY DEF Defends, Connected
<1>3. /\ Head(f) \in {SigStart, SigStop} => (n <=> Head(f) = SigStart)
      /\ Head(f) \notin {SigStart, SigStop} => (n <=> w)
  BY <1>1
<1>4. (st[Server] = "Start")' <=> n
  OBVIOUS
<1> HIDE DEF f, d, w, n
<1>5. Announces(f, SigStart, SigStop, w, d)
        => Announces(Tail(f), SigStart, SigStop, n, d)
  BY <1>1, <1>2, <1>3, AnnouncesTaken
<1>6. Announces(f, SigStart, SigStop, w, d)
        => Announces(UpFlight', SigStart, SigStop, n, d')
  BY <1>1, <1>2, <1>5 DEF Announces
<1>7. Announces(UpFlight', SigStart, SigStop, n, d')
        <=> Announces(UpFlight', SigStart, SigStop, (st[Server] = "Start")', d')
  BY <1>4 DEF Announces
<1> QED BY <1>2, <1>6, <1>7 DEF Announced, d, f, w

\* The steps of the reader: the bridge follows the signals in the order they were queued.
LEMMA ReaderAnnounces ==
  ASSUME TypeOK, AnnouncedInv, NEW s \in Side, ReaderStep(s)
  PROVE  AnnouncedInv'
<1> USE DEF cntVars, mainVars, sendVars, readVars, sockVars
<1>0. /\ UNCHANGED <<mpc, tpc, raced, running, hold, sendQ, link>>
      /\ st'[Client] = st[Client]
  BY TwoSides DEF ReaderStep, ReaderRead, ReaderFail, ReaderPayload, ReaderSignal,
     ReaderDeliver, ReaderClose, TypeOK, TypeState
<1>1. OnlyClientMoves' BY <1>0 DEF AnnouncedInv, OnlyClientMoves
<1>2. ~raced => Announced BY DEF AnnouncedInv
<1>3. ~raced' => Announced'
  <2>1. CASE ReaderRead(s)
    <3>1. UNCHANGED <<st, bOpen>> BY <2>1 DEF ReaderRead
    <3>2. UpFlight' = UpFlight
      <4>1. CASE s = Client
        <5>1. rbuf'[Server] = rbuf[Server] /\ wire'[Client] = wire[Client]
          BY <2>1, <4>1, TwoSides DEF ReaderRead, TypeOK, TypeRead, TypeNet
        <5> QED BY <1>0, <5>1 DEF UpFlight
      <4>2. CASE s = Server
        <5> DEFINE rb == rbuf[Server]
                   w == wire[Client]
                   h == hold[Client]
                   q == sendQ[Client]
        <5>1. rb' = Append(rb, Head(w)) /\ w' = Tail(w) /\ w # <<>>
          BY <2>1, <4>2, TwoSides DEF ReaderRead, TypeOK, TypeRead, TypeNet
        <5>2. rb \in Seq(Packet) /\ w \in Seq(Packet)
          BY UpFlightIs
        <5>3. UpFlight = Flight(rb, w, h, q) /\ UpFlight' = Flight(rb', w', h, q)
          BY <1>0 DEF UpFlight, Flight
        <5> HIDE DEF rb, w, h, q
        <5> QED BY <5>1, <5>2, <5>3, FlightRead
      <4> QED BY <4>1, <4>2, TwoSides
    <3> QED BY <1>0, <1>2, <3>1, <3>2, AnnouncedKept DEF Connected, Defends
  <2>2. CASE ReaderPayload(s)
    <3>1. UNCHANGED <<st, wire, bOpen>> BY <2>2 DEF ReaderPayload
    <3>2. CASE s = Client
      <4>1. rbuf'[Server] = rbuf[Server]
        BY <2>2, <3>2, TwoSides DEF ReaderPayload, TypeOK, TypeRead
      <4> QED BY <1>0, <1>2, <3>1, <4>1, AnnouncedKept DEF Connected, Defends, UpFlight
    <3>3. CASE s = Server
      <4>1. /\ rbuf'[Server] = Tail(rbuf[Server]) /\ rbuf[Server] # <<>>
            /\ Head(rbuf[Server]).type = "Payload"
        BY <2>2, <3>3, TwoSides DEF ReaderPayload, TypeOK, TypeRead
      <4>2. Head(rbuf[Server]) \in Packet
        BY <4>1, UpFlightIs, HeadTailTypes
      <4>3. Head(rbuf[Server]) \notin {SigStart, SigStop}
        BY <4>1, <4>2, SignalsApart
      <4> QED BY <1>0, <1>2, <3>1, <4>1, <4>3, FirstFollowed
    <3> QED BY <3>2, <3>3, TwoSides
  <2>3. CASE ReaderSignal(s)
    <3>1. UNCHANGED <<wire, bOpen>> BY <2>3 DEF ReaderSignal
    <3>2. CASE s = Client
      <4>1. rbuf'[Server] = rbuf[Server] /\ st' = st
        BY <2>3, <3>2, TwoSides DEF ReaderSignal, TypeOK, TypeRead
      <4> QED BY <1>0, <1>2, <3>1, <4>1, AnnouncedKept DEF Connected, Defends, UpFlight
    <3>3. CASE s = Server
      <4>1. /\ rbuf'[Server] = Tail(rbuf[Server]) /\ rbuf[Server] # <<>>
            /\ Head(rbuf[Server]) \in {SigStart, SigStop}
            /\ st'[Server] = IF Head(rbuf[Server]) = SigStart THEN "Start" ELSE "Stop"
        BY <2>3, <3>3, TwoSides, SignalsApart DEF ReaderSignal, TypeOK, TypeRead, TypeState
      <4> QED BY <1>0, <1>2, <3>1, <4>1, FirstFollowed
    <3> QED BY <3>2, <3>3, TwoSides
  <2>4. CASE ReaderFail(s) \/ ReaderDeliver(s)
    <3>1. UNCHANGED <<st, rbuf, wire, bOpen>> BY <2>4 DEF ReaderFail, ReaderDeliver
    <3> QED BY <1>0, <1>2, <3>1, AnnouncedKept DEF Connected, Defends, UpFlight
  <2>5. CASE ReaderClose(s)
    <3>1. UNCHANGED <<st, rbuf, wire>> BY <2>5 DEF ReaderClose
    <3>2. ~bOpen'[s] BY <2>5 DEF ReaderClose, TypeOK, TypeNet
    <3>3. ~Connected' BY <3>2, TwoSides DEF Connected
    <3> QED BY <1>0, <1>2, <3>1, <3>3, AnnouncedKept DEF Defends
  <2> QED BY <2>1, <2>2, <2>3, <2>4, <2>5 DEF ReaderStep
<1> QED BY <1>1, <1>3 DEF AnnouncedInv

\* Nothing is queued at first, and no end defends.
LEMMA AnnouncedInit == Init => AnnouncedInv
<1> SUFFICES ASSUME Init PROVE AnnouncedInv
  OBVIOUS
<1>1. OnlyClientMoves BY TwoSides DEF Init, OnlyClientMoves
<1>2. UpFlight = <<>>
  <2>1. /\ rbuf[Server] = <<>> /\ wire[Client] = <<>> /\ hold[Client] = <<>>
        /\ sendQ[Client] = <<>>
    BY TwoSides DEF Init
  <2> QED BY <2>1 DEF UpFlight
<1>3. st[Client] = "Stop" /\ st[Server] = "Stop" /\ mpc[Client] = "poll" /\ tpc[Client] = "wait"
  BY TwoSides DEF Init
<1> QED BY <1>1, <1>2, <1>3 DEF AnnouncedInv, Announced, Announces, Defends

\* Every step keeps the announcements right.
LEMMA AnnouncedStep == TypeOK /\ AnnouncedInv /\ [Next]_vars => AnnouncedInv'
<1> SUFFICES ASSUME TypeOK, AnnouncedInv, [Next]_vars PROVE AnnouncedInv'
  OBVIOUS
<1>1. ASSUME NEW s \in Side, MainStep(s) \/ MainRead(s) \/ MainReadEOF(s) PROVE AnnouncedInv'
  BY <1>1, MainAnnounces
<1>2. ASSUME NEW s \in Side, TickerStep(s) PROVE AnnouncedInv' BY <1>2, TickerAnnounces
<1>3. ASSUME NEW s \in Side, SendStep(s) PROVE AnnouncedInv' BY <1>3, SendAnnounces
<1>4. ASSUME NEW s \in Side, ReaderStep(s) PROVE AnnouncedInv' BY <1>4, ReaderAnnounces
<1>5. CASE NetFail
  <2>1. UNCHANGED <<mpc, tpc, raced, st>> /\ ~Connected'
    BY <1>5 DEF NetFail, Connected, mainVars
  <2>2. ~raced' => Announced' BY <2>1, AnnouncedKept DEF AnnouncedInv, Defends
  <2> QED BY <2>1, <2>2 DEF AnnouncedInv, OnlyClientMoves
<1>6. CASE UNCHANGED vars
  <2>1. UNCHANGED <<mpc, tpc, raced, st, UpFlight, Connected>>
    BY <1>6 DEF vars, UpFlight, Connected
  <2>2. ~raced' => Announced' BY <2>1, AnnouncedKept DEF AnnouncedInv, Defends
  <2> QED BY <2>1, <2>2 DEF AnnouncedInv, OnlyClientMoves
<1> QED BY <1>1, <1>2, <1>3, <1>4, <1>5, <1>6 DEF Next

\* For every capacity and every environment: once the signals have arrived, the bridge
\* defends exactly when the client does, unless the client's main and ticker overlapped
\* between a SetState and its signal (ReadFrom queues a signal after SetState, without
\* holding the state's mutex).
THEOREM BridgeAgrees == Spec => []AgreementUnlessRaced
<1>1. TypeOK /\ AnnouncedInv => AgreementUnlessRaced
  <2> SUFFICES ASSUME TypeOK, AnnouncedInv, ~raced, Connected, SignalsSettled
               PROVE  st[Server] = "Start" <=> st[Client] = "Start"
    BY DEF AgreementUnlessRaced, Agreement
  <2>1. NoSignal(UpFlight, SigStart, SigStop)
    BY SignalsApart DEF SignalsSettled, NoSignal
  <2>2. Announces(UpFlight, SigStart, SigStop, st[Server] = "Start", Defends)
    BY DEF AnnouncedInv, Announced, SignalsSettled
  <2> QED BY <2>1, <2>2 DEF Announces, Defends
<1> QED BY <1>1, AnnouncedInit, AnnouncedStep, TypeCorrect, PTL DEF Spec
=============================================================================
