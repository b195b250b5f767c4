---------------------------- MODULE FrontProofs ----------------------------
(***************************************************************************)
(* Theorems about the FRONT defence: a stop and a schedule bound the       *)
(* dummies that follow, and schedule and bridge follow the client's state  *)
(* unless the client's main and ticker overlap.                            *)
(***************************************************************************)
EXTENDS Front, QueueProofs

State == {"Start", "Stop", "Ready"}
Packet == {"Payload", "Dummy", "SignalStart", "SignalStop"}
MainPC == {"poll", "read", "load", "reload", "setStart", "sigStart", "tell", "chop",
           "return", "close", "done"}
TickerPC == {"wait", "setStop", "sigStop", "tell"}
FactoryPC == {"select", "redraw", "empty", "fill", "exit"}
PadderPC == {"check", "length", "dequeue", "send", "exit"}
ReaderPC == {"recv", "tellStart", "tellStop", "setStart", "setStop", "close", "done", "panic"}

TypePad ==
  /\ fpc \in [Side -> FactoryPC] /\ ppc \in [Side -> PadderPC] /\ tsQueue \in [Side -> Nat]
  /\ told \in [Side -> BOOLEAN] /\ owed \in [Side -> Int] /\ credit \in [Side -> Int]
TypeNet ==
  /\ chan \in [Side -> Seq(Packet)] /\ sending \in [Side -> BOOLEAN]
  /\ open \in [Side -> BOOLEAN]
TypeState ==
  /\ st \in [Side -> State] /\ mpc \in [Side -> MainPC] /\ tpc \in TickerPC
  /\ rpc \in [Side -> ReaderPC] /\ raced \in BOOLEAN
TypeOK == TypeState /\ TypePad /\ TypeNet

\* What the last stop and the last schedule still allow covers the dummy the padder has
\* looked for and the times in the queue; the factory fills an empty queue.
Covered(s) ==
  /\ owed[s] >= 0
  /\ st[s] = "Stop" /\ ppc[s] \in {"length", "dequeue", "send"} => owed[s] >= 1
  /\ credit[s] >= tsQueue[s] + (IF ppc[s] = "send" THEN 1 ELSE 0)
  /\ fpc[s] = "fill" => tsQueue[s] = 0

\* A factory that was told to stop has emptied its queue, or is about to.
Obeyed(s) ==
  ~told[s] => /\ fpc[s] \notin {"redraw", "fill"}
              /\ fpc[s] # "empty" => tsQueue[s] = 0

\* What the client's factory was told is the client's state, unless main or the ticker
\* is about to tell it.
ClientTold ==
  /\ MainBusy => st[Client] = "Start"
  /\ TickerBusy => st[Client] # "Start"
  /\ ~MainBusy /\ ~TickerBusy => (told[Client] <=> st[Client] = "Start")

\* What the bridge's factory was told is the bridge's state, or the one its reader is
\* about to set.
BridgeTold ==
  /\ rpc[Client] \notin {"tellStart", "tellStop", "setStart", "setStop"}
  /\ rpc[Server] \in {"recv", "tellStart", "tellStop"} => (told[Server] <=> st[Server] = "Start")
  /\ rpc[Server] = "setStart" => told[Server]
  /\ rpc[Server] = "setStop" => ~told[Server]

\* Will the bridge defend once its reader has acted on the packets it took?
Following ==
  \/ rpc[Server] \in {"tellStart", "setStart"}
  \/ rpc[Server] \notin {"tellStop", "setStop"} /\ st[Server] = "Start"

\* The packets on their way bring the bridge to the client's state.
Announced ==
  sending[Client] /\ ~Broken /\ mpc[Client] # "sigStart" /\ tpc # "sigStop" =>
    Announces(chan[Client], "SignalStart", "SignalStop", Following, st[Client] = "Start")

IInv ==
  /\ TypeOK
  /\ \A s \in Side : Covered(s) /\ Obeyed(s)
  /\ BridgeTold
  /\ ~raced => ClientTold /\ Announced

\* The ends are the client and the bridge.
LEMMA TwoSides == /\ Client \in Side /\ Server \in Side /\ Client # Server
                  /\ \A s \in Side : s = Client \/ s = Server
                  /\ Peer(Client) = Server /\ Peer(Server) = Client
                  /\ \A s \in Side : Peer(s) \in Side
  BY DEF Side, Peer, Client, Server

\* A schedule has a number of times.
LEMMA DrawnIsNat == \A s \in Side : \A n \in Drawn(MaxPaddingN[s]) : n \in Nat
  BY FrontAssumption DEF Drawn

-----------------------------------------------------------------------------
(* Types.                                                                  *)

\* A queue with one packet more, or without its first, is a queue.
LEMMA ChanTypes ==
  ASSUME TypeNet, NEW s \in Side
  PROVE  /\ \A p \in Packet : [chan EXCEPT ![s] = Append(@, p)] \in [Side -> Seq(Packet)]
         /\ chan[s] # <<>> => /\ [chan EXCEPT ![s] = Tail(@)] \in [Side -> Seq(Packet)]
                              /\ Head(chan[s]) \in Packet
<1>1. chan[s] \in Seq(Packet) BY DEF TypeNet
<1>2. ASSUME NEW p \in Packet PROVE [chan EXCEPT ![s] = Append(@, p)] \in [Side -> Seq(Packet)]
  <2>1. Append(chan[s], p) \in Seq(Packet) BY <1>1, <1>2
  <2> QED BY <2>1 DEF TypeNet
<1>3. ASSUME chan[s] # <<>>
      PROVE  [chan EXCEPT ![s] = Tail(@)] \in [Side -> Seq(Packet)] /\ Head(chan[s]) \in Packet
  <2>1. Tail(chan[s]) \in Seq(Packet) /\ Head(chan[s]) \in Packet BY <1>1, <1>3, HeadTailTypes
  <2> QED BY <2>1 DEF TypeNet
<1> QED BY <1>2, <1>3

\* The factory and the padder keep the types.
LEMMA PadTypes ==
  ASSUME TypeOK, NEW s \in Side, FactoryStep(s) \/ PadderStep(s)
  PROVE  TypeOK'
<1> USE DEF mainVars, netVars, readVars, endVars
<1>1. TypeState'
  BY DEF FactoryStep, FactoryEmpty, FactoryFill, FactoryExit, PadderStep, PadderExit,
     PadderCheck, PadderLength, PadderDequeue, PadderSend, TypeOK, TypeState
<1>2. TypeNet'
  <2>1. CASE PadderSend(s)
    <3>1. chan' \in [Side -> Seq(Packet)]
      BY <2>1, ChanTypes DEF PadderSend, Enqueue, TypeOK, Packet
    <3> QED BY <2>1, <3>1 DEF PadderSend, TypeOK, TypeNet
  <2>2. CASE ~PadderSend(s)
    BY <2>2 DEF FactoryStep, FactoryEmpty, FactoryFill, FactoryExit, PadderStep, PadderExit,
       PadderCheck, PadderLength, PadderDequeue, TypeOK, TypeNet
  <2> QED BY <2>1, <2>2
<1>3. TypePad'
  <2>1. told' = told /\ told \in [Side -> BOOLEAN]
    BY DEF FactoryStep, FactoryEmpty, FactoryFill, FactoryExit, PadderStep, PadderExit,
       PadderCheck, PadderLength, PadderDequeue, PadderSend, TypeOK, TypePad
  <2>2. fpc' \in [Side -> FactoryPC] /\ ppc' \in [Side -> PadderPC]
    BY DEF FactoryStep, FactoryEmpty, FactoryFill, FactoryExit, PadderStep, PadderExit,
       PadderCheck, PadderLength, PadderDequeue, PadderSend, Looked, FactoryPC, PadderPC, TypeOK, TypePad
  <2>3. tsQueue' \in [Side -> Nat] /\ owed' \in [Side -> Int] /\ credit' \in [Side -> Int]
    <3>1. CASE FactoryFill(s)
      <4>1. PICK n \in Nat : /\ tsQueue' = [tsQueue EXCEPT ![s] = @ + n]
                             /\ credit' = [credit EXCEPT ![s] = IF ppc[s] = "send" THEN n + 1 ELSE n]
        BY <3>1, DrawnIsNat DEF FactoryFill
      <4> QED BY <3>1, <4>1 DEF FactoryFill, TypeOK, TypePad
    <3>2. CASE PadderSend(s)
      BY <3>2 DEF PadderSend, TypeOK, TypePad
    <3>3. CASE ~FactoryFill(s) /\ ~PadderSend(s)
      BY <3>3 DEF FactoryStep, FactoryEmpty, FactoryExit, PadderStep, PadderExit,
         PadderCheck, PadderLength, PadderDequeue, TypeOK, TypePad
    <3> QED BY <3>1, <3>2, <3>3
  <2> QED BY <2>1, <2>2, <2>3 DEF TypePad
<1> QED BY <1>1, <1>2, <1>3 DEF TypeOK

\* SetState keeps the types.
LEMMA SetTypes ==
  ASSUME TypeOK, NEW s \in Side, NEW new \in State, SetState(s, new)
  PROVE  st' \in [Side -> State] /\ owed' \in [Side -> Int]
  BY DEF SetState, TypeOK, TypeState, TypePad

\* Telling the factory keeps the types.
LEMMA TellTypes ==
  ASSUME TypeOK, NEW s \in Side, NEW start \in BOOLEAN, TellFactory(s, start), UNCHANGED owed
  PROVE  TypePad'
<1>1. told' \in [Side -> BOOLEAN] BY Zenon DEF TellFactory, TypeOK, TypePad
<1>2. fpc' \in [Side -> FactoryPC] BY DEF TellFactory, TypeOK, TypePad, FactoryPC
<1> QED BY <1>1, <1>2 DEF TellFactory, TypeOK, TypePad

\* main keeps the types.
LEMMA MainTypes ==
  ASSUME TypeOK, NEW s \in Side, MainStep(s) \/ MainRead(s) \/ MainEOF(s)
  PROVE  TypeOK'
<1> USE DEF mainVars, padVars, netVars, readVars, endVars
<1>1. CASE MainPoll(s) \/ MainReadFail(s) \/ MainReturn(s) \/ MainClose(s) \/ MainRead(s)
  <2>1. /\ UNCHANGED <<st, tpc, rpc, raced, padVars, owed, chan, sending>>
        /\ mpc' \in [Side -> MainPC]
    BY <1>1 DEF MainPoll, MainReadFail, MainReturn, MainClose, MainRead, MainPC, TypeOK, TypeState
  <2>2. open' \in [Side -> BOOLEAN]
    <3>1. CASE MainClose(s) BY <3>1, Zenon DEF MainClose, TypeOK, TypeNet
    <3>2. CASE ~MainClose(s)
      BY <1>1, <3>2 DEF MainPoll, MainReadFail, MainReturn, MainRead, TypeOK, TypeNet
    <3> QED BY <3>1, <3>2
  <2> QED BY <2>1, <2>2 DEF TypeOK, TypeState, TypePad, TypeNet
<1>2. CASE MainChop(s)
  <2>1. /\ UNCHANGED <<st, tpc, rpc, raced, padVars, owed, sending, open>>
        /\ mpc' \in [Side -> MainPC]
    BY <1>2 DEF MainChop, MainPC, TypeOK, TypeState
  <2>2. chan' \in [Side -> Seq(Packet)]
    <3>1. CASE UNCHANGED chan BY <3>1 DEF TypeOK, TypeNet
    <3>2. CASE Enqueue(s, "Payload")
      BY <3>2, ChanTypes DEF Enqueue, Packet, TypeOK
    <3> QED BY <1>2, <3>1, <3>2 DEF MainChop
  <2> QED BY <2>1, <2>2 DEF TypeOK, TypeState, TypePad, TypeNet
<1>3. CASE MainLoad \/ MainReload \/ MainSetStart
  <2>1. /\ UNCHANGED <<tpc, rpc, padVars, netVars, open>>
        /\ mpc' \in [Side -> MainPC]
    BY <1>3, TwoSides DEF MainLoad, MainReload, MainSetStart, MainPC, TypeOK, TypeState
  <2>2. raced' \in BOOLEAN
    <3>1. CASE raced' = (raced \/ TickerBusy) BY <3>1
    <3>2. CASE UNCHANGED raced BY <3>2 DEF TypeOK, TypeState
    <3> QED BY <1>3, <3>1, <3>2 DEF MainLoad, MainReload, MainSetStart
  <2>3. st' \in [Side -> State] /\ owed' \in [Side -> Int]
    <3>1. CASE UNCHANGED <<st, owed>> BY <3>1 DEF TypeOK, TypeState, TypePad
    <3>2. CASE \E new \in State : SetState(Client, new) BY <3>2, SetTypes, TwoSides
    <3> QED BY <1>3, <3>1, <3>2 DEF MainLoad, MainReload, MainSetStart, State
  <2> QED BY <2>1, <2>2, <2>3 DEF TypeOK, TypeState, TypePad, TypeNet
<1>4. CASE MainSigStart
  <2>1. /\ UNCHANGED <<st, tpc, rpc, raced, padVars, owed, sending, open>>
        /\ mpc' \in [Side -> MainPC]
    BY <1>4, TwoSides DEF MainSigStart, MainPC, TypeOK, TypeState
  <2>2. chan' \in [Side -> Seq(Packet)]
    BY <1>4, ChanTypes, TwoSides DEF MainSigStart, Enqueue, Packet, TypeOK
  <2> QED BY <2>1, <2>2 DEF TypeOK, TypeState, TypePad, TypeNet
<1>5. CASE MainTell
  <2>1. /\ UNCHANGED <<st, tpc, rpc, raced, netVars, owed, open>>
        /\ mpc' \in [Side -> MainPC]
    BY <1>5, TwoSides DEF MainTell, MainPC, TypeOK, TypeState
  <2>2. TypePad' BY <1>5, <2>1, TellTypes, TwoSides DEF MainTell
  <2> QED BY <2>1, <2>2 DEF TypeOK, TypeState, TypeNet
<1> QED BY <1>1, <1>2, <1>3, <1>4, <1>5 DEF MainStep, MainEOF

\* The ticker keeps the types.
LEMMA TickerTypes ==
  ASSUME TypeOK, TickerTick \/ TickerStep
  PROVE  TypeOK'
<1> USE DEF mainVars, padVars, netVars, readVars, endVars
<1>1. CASE TickerTick
  BY <1>1 DEF TickerTick, TickerPC, TypeOK, TypeState, TypePad, TypeNet
<1>2. CASE TickerSetStop
  <2>1. UNCHANGED <<mpc, rpc, padVars, netVars, open>> /\ tpc' \in TickerPC
    BY <1>2 DEF TickerSetStop, TickerPC
  <2>2. raced' \in BOOLEAN BY <1>2 DEF TickerSetStop
  <2>3. st' \in [Side -> State] /\ owed' \in [Side -> Int]
    BY <1>2, SetTypes, TwoSides DEF TickerSetStop, State
  <2> QED BY <2>1, <2>2, <2>3 DEF TypeOK, TypeState, TypePad, TypeNet
<1>3. CASE TickerSigStop
  <2>1. UNCHANGED <<st, mpc, rpc, raced, padVars, owed, sending, open>> /\ tpc' \in TickerPC
    BY <1>3 DEF TickerSigStop, TickerPC
  <2>2. chan' \in [Side -> Seq(Packet)]
    BY <1>3, ChanTypes, TwoSides DEF TickerSigStop, Enqueue, Packet, TypeOK
  <2> QED BY <2>1, <2>2 DEF TypeOK, TypeState, TypePad, TypeNet
<1>4. CASE TickerTell
  <2>1. UNCHANGED <<st, mpc, rpc, raced, netVars, owed, open>> /\ tpc' \in TickerPC
    BY <1>4 DEF TickerTell, TickerPC
  <2>2. TypePad' BY <1>4, <2>1, TellTypes, TwoSides DEF TickerTell
  <2> QED BY <2>1, <2>2 DEF TypeOK, TypeState, TypeNet
<1> QED BY <1>1, <1>2, <1>3, <1>4 DEF TickerStep

\* Send keeps the types.
LEMMA SendTypes ==
  ASSUME TypeOK, NEW s \in Side, SendStep(s)
  PROVE  TypeOK'
<1> USE DEF mainVars, padVars, netVars, readVars, endVars
<1>1. UNCHANGED <<st, mpc, tpc, rpc, raced, padVars, owed, open>>
  BY DEF SendStep, SendReturn, SendLost
<1>2. chan' \in [Side -> Seq(Packet)]
  BY ChanTypes DEF SendStep, SendReturn, SendLost, TypeOK, TypeNet
<1>3. sending' \in [Side -> BOOLEAN]
  <2>1. CASE SendReturn(s) BY <2>1, Zenon DEF SendReturn, TypeOK, TypeNet
  <2>2. CASE SendLost(s) BY <2>2 DEF SendLost, TypeOK, TypeNet
  <2> QED BY <2>1, <2>2 DEF SendStep
<1> QED BY <1>1, <1>2, <1>3 DEF TypeOK, TypeState, TypePad, TypeNet

\* The reader keeps the types.
LEMMA ReaderTypes ==
  ASSUME TypeOK, NEW s \in Side, ReaderStep(s)
  PROVE  TypeOK'
<1> USE DEF mainVars, padVars, netVars, readVars, endVars
<1>1. CASE ReaderPacket(s)
  <2>1. UNCHANGED <<st, mpc, tpc, raced, padVars, owed, sending, open>>
    BY <1>1 DEF ReaderPacket
  <2>2. chan' \in [Side -> Seq(Packet)]
    BY <1>1, ChanTypes, TwoSides DEF ReaderPacket, TypeOK
  <2>3. rpc' \in [Side -> ReaderPC]
    BY <1>1 DEF ReaderPacket, ReaderPC, TypeOK, TypeState
  <2> QED BY <2>1, <2>2, <2>3 DEF TypeOK, TypeState, TypePad, TypeNet
<1>2. CASE ReaderTell(s)
  <2>1. UNCHANGED <<st, mpc, tpc, raced, netVars, owed, open>> /\ rpc' \in [Side -> ReaderPC]
    BY <1>2 DEF ReaderTell, ReaderPC, TypeOK, TypeState
  <2>2. TypePad' BY <1>2, <2>1, TellTypes DEF ReaderTell
  <2> QED BY <2>1, <2>2 DEF TypeOK, TypeState, TypeNet
<1>3. CASE ReaderSet(s)
  <2>1. UNCHANGED <<mpc, tpc, raced, padVars, netVars, open>> /\ rpc' \in [Side -> ReaderPC]
    BY <1>3 DEF ReaderSet, ReaderPC, TypeOK, TypeState
  <2>2. st' \in [Side -> State] /\ owed' \in [Side -> Int]
    BY <1>3, SetTypes DEF ReaderSet, State
  <2> QED BY <2>1, <2>2 DEF TypeOK, TypeState, TypePad, TypeNet
<1>4. CASE ReaderFail(s) \/ ReaderClose(s)
  <2>1. UNCHANGED <<st, mpc, tpc, raced, padVars, netVars, owed>> /\ rpc' \in [Side -> ReaderPC]
    BY <1>4 DEF ReaderFail, ReaderClose, ReaderPC, TypeOK, TypeState
  <2>2. open' \in [Side -> BOOLEAN]
    <3>1. CASE ReaderClose(s) BY <3>1, Zenon DEF ReaderClose, TypeOK, TypeNet
    <3>2. CASE ReaderFail(s) BY <3>2 DEF ReaderFail, TypeOK, TypeNet
    <3> QED BY <1>4, <3>1, <3>2
  <2> QED BY <2>1, <2>2 DEF TypeOK, TypeState, TypePad, TypeNet
<1> QED BY <1>1, <1>2, <1>3, <1>4 DEF ReaderStep

\* The variables have their types.
LEMMA TypeInit == Init => TypeOK
<1> SUFFICES ASSUME Init PROVE TypeOK
  OBVIOUS
<1>1. TypeState BY DEF Init, TypeState, State, MainPC, TickerPC, ReaderPC
<1>2. told \in [Side -> BOOLEAN] BY Zenon DEF Init
<1>3. TypePad BY <1>2 DEF Init, TypePad, FactoryPC, PadderPC
<1>4. sending \in [Side -> BOOLEAN] /\ open \in [Side -> BOOLEAN] BY Zenon DEF Init
<1>5. TypeNet BY <1>4 DEF Init, TypeNet
<1> QED BY <1>1, <1>3, <1>5 DEF TypeOK

\* Every step keeps the types.
LEMMA TypeStep == TypeOK /\ [Next]_vars => TypeOK'
<1> SUFFICES ASSUME TypeOK, [Next]_vars PROVE TypeOK'
  OBVIOUS
<1>1. CASE UNCHANGED vars BY <1>1 DEF vars, TypeOK, TypeState, TypePad, TypeNet
<1> QED BY <1>1, PadTypes, MainTypes, TickerTypes, SendTypes, ReaderTypes DEF Next

-----------------------------------------------------------------------------
(* Dummies.                                                                *)

\* SetState: a stop owes the dummy of a padder that has read the state.
LEMMA SetCovers ==
  ASSUME TypeOK, \A t \in Side : Covered(t), NEW s \in Side, NEW new \in State,
         SetState(s, new), UNCHANGED <<ppc, credit, tsQueue, fpc>>
  PROVE  \A t \in Side : Covered(t)'
<1> SUFFICES ASSUME NEW t \in Side PROVE Covered(t)'
  OBVIOUS
<1>1. /\ st' = [st EXCEPT ![s] = new] /\ st \in [Side -> State]
      /\ owed \in [Side -> Int] /\ Covered(t)
  BY DEF SetState, TypeOK, TypeState, TypePad
<1>2. CASE t # s BY <1>1, <1>2 DEF SetState, Covered
<1>3. CASE t = s BY <1>1, <1>3 DEF SetState, Covered
<1> QED BY <1>2, <1>3

\* A step that leaves the dummies, the schedule and the state alone keeps them covered.
LEMMA CoveredKept ==
  ASSUME \A t \in Side : Covered(t), UNCHANGED <<st, owed, ppc, credit, tsQueue, fpc>>
  PROVE  \A t \in Side : Covered(t)'
  BY DEF Covered

\* Neither does telling the factory change what is covered.
LEMMA TellCovers ==
  ASSUME TypeOK, \A t \in Side : Covered(t), NEW s \in Side, NEW start \in BOOLEAN,
         TellFactory(s, start), UNCHANGED <<st, owed>>
  PROVE  \A t \in Side : Covered(t)'
  BY DEF Covered, TellFactory, TypeOK, TypePad

\* The steps of the factory and the padder stay within what is covered.
LEMMA PadCovers ==
  ASSUME TypeOK, \A t \in Side : Covered(t), NEW s \in Side, FactoryStep(s) \/ PadderStep(s)
  PROVE  \A t \in Side : Covered(t)'
<1> SUFFICES ASSUME NEW t \in Side PROVE Covered(t)'
  OBVIOUS
<1> USE DEF mainVars, netVars, readVars, endVars
<1>0. /\ st' = st /\ fpc \in [Side -> FactoryPC] /\ ppc \in [Side -> PadderPC]
      /\ tsQueue \in [Side -> Nat] /\ owed \in [Side -> Int] /\ credit \in [Side -> Int]
  BY DEF FactoryStep, FactoryEmpty, FactoryFill, FactoryExit, PadderStep, PadderExit,
     PadderCheck, PadderLength, PadderDequeue, PadderSend, TypeOK, TypePad
<1>1. CASE t # s
  BY <1>0, <1>1 DEF FactoryStep, FactoryEmpty, FactoryFill, FactoryExit, PadderStep, PadderExit,
     PadderCheck, PadderLength, PadderDequeue, PadderSend, Covered
<1>2. CASE t = s
  <2>0. Covered(s) OBVIOUS
  <2>1. CASE FactoryEmpty(s) BY <1>0, <1>2, <2>0, <2>1 DEF FactoryEmpty, Covered
  <2>2. CASE FactoryFill(s)
    <3>1. PICK n \in Nat : /\ tsQueue' = [tsQueue EXCEPT ![s] = @ + n]
                           /\ credit' = [credit EXCEPT ![s] = IF ppc[s] = "send" THEN n + 1 ELSE n]
      BY <2>2, DrawnIsNat DEF FactoryFill
    <3> QED BY <1>0, <1>2, <2>0, <2>2, <3>1 DEF FactoryFill, Covered
  <2>3. CASE FactoryExit(s) BY <1>0, <1>2, <2>0, <2>3 DEF FactoryExit, Covered
  <2>4. CASE PadderExit(s) \/ PadderCheck(s) \/ PadderLength(s)
    BY <1>0, <1>2, <2>0, <2>4 DEF PadderExit, PadderCheck, PadderLength, Looked, Covered
  <2>5. CASE PadderDequeue(s) BY <1>0, <1>2, <2>0, <2>5 DEF PadderDequeue, Looked, Covered
  <2>6. CASE PadderSend(s) BY <1>0, <1>2, <2>0, <2>6 DEF PadderSend, Looked, Covered
  <2> QED BY <2>1, <2>2, <2>3, <2>4, <2>5, <2>6 DEF FactoryStep, PadderStep
<1> QED BY <1>1, <1>2

\* Every step keeps the dummies covered.
LEMMA CoveredStep ==
  ASSUME TypeOK, \A t \in Side : Covered(t), [Next]_vars
  PROVE  \A t \in Side : Covered(t)'
<1> USE DEF mainVars, padVars, netVars, readVars, endVars
<1>1. ASSUME NEW s \in Side, MainStep(s) \/ MainRead(s) \/ MainEOF(s)
      PROVE  \A t \in Side : Covered(t)'
  <2>1. CASE UNCHANGED <<st, owed, padVars>> BY <2>1, CoveredKept
  <2>2. CASE UNCHANGED padVars /\ \E new \in State : SetState(Client, new)
    BY <2>2, SetCovers, TwoSides
  <2>3. CASE MainTell BY <2>3, TellCovers, TwoSides DEF MainTell
  <2>4. CASE ~MainTell
    BY <1>1, <2>1, <2>2, <2>4 DEF MainStep, MainPoll, MainReadFail, MainChop, MainReturn,
       MainClose, MainLoad, MainReload, MainSetStart, MainSigStart, MainRead, MainEOF, State
  <2> QED BY <2>3, <2>4
<1>2. CASE TickerTick \/ TickerSigStop
  BY <1>2, CoveredKept DEF TickerTick, TickerSigStop
<1>3. CASE TickerSetStop
  BY <1>3, SetCovers, TwoSides DEF TickerSetStop, State
<1>4. CASE TickerTell
  BY <1>4, TellCovers, TwoSides DEF TickerTell
<1>5. ASSUME NEW s \in Side, SendStep(s) PROVE \A t \in Side : Covered(t)'
  BY <1>5, CoveredKept DEF SendStep, SendReturn, SendLost
<1>6. ASSUME NEW s \in Side, ReaderStep(s) PROVE \A t \in Side : Covered(t)'
  <2>1. CASE ReaderTell(s) BY <2>1, TellCovers DEF ReaderTell
  <2>2. CASE ReaderSet(s) BY <2>2, SetCovers DEF ReaderSet, State
  <2>3. CASE ~ReaderTell(s) /\ ~ReaderSet(s)
    BY <1>6, <2>3, CoveredKept DEF ReaderStep, ReaderPacket, ReaderFail, ReaderClose
  <2> QED BY <2>1, <2>2, <2>3
<1>7. CASE UNCHANGED vars BY <1>7, CoveredKept DEF vars
<1> QED BY <1>1, <1>2, <1>3, <1>4, <1>5, <1>6, <1>7, PadCovers DEF Next, TickerStep

\* For every schedule length and every interleaving: after a stop the padder queues at
\* most one dummy, and only if it had read the state before; and a schedule of n times
\* costs at most n dummies and the one held when it was drawn (front.go: ReadFrom's padding
\* goroutines).
THEOREM PaddingBounded == Spec => []DummiesBounded
<1>1. Init => \A t \in Side : Covered(t)
  BY DEF Init, Covered
<1>2. TypeOK /\ (\A t \in Side : Covered(t)) /\ [Next]_vars => \A t \in Side : Covered(t)'
  BY CoveredStep
<1>3. TypeOK /\ (\A t \in Side : Covered(t)) => DummiesBounded
  BY DEF TypeOK, TypePad, Covered, DummiesBounded
<1> DEFINE Inv == TypeOK /\ \A t \in Side : Covered(t)
<1>4. Init => Inv BY <1>1, TypeInit
<1>5. Inv /\ [Next]_vars => Inv' BY <1>2, TypeStep
<1>6. Inv => DummiesBounded BY <1>3
<1> HIDE DEF Inv
<1> QED BY <1>4, <1>5, <1>6, PTL DEF Spec

-----------------------------------------------------------------------------
(* The schedule follows what the factory is told.                          *)

\* A step that leaves the factory and its queue alone.
LEMMA ObeyedKept ==
  ASSUME \A t \in Side : Obeyed(t), UNCHANGED <<told, fpc, tsQueue>>
  PROVE  \A t \in Side : Obeyed(t)'
  BY DEF Obeyed

\* What the factory is told.
LEMMA TellSets ==
  ASSUME TypeOK, NEW s \in Side, NEW start \in BOOLEAN, TellFactory(s, start)
  PROVE  /\ told'[s] <=> start
         /\ \A t \in Side : t # s => (told'[t] <=> told[t])
<1>1. told' = [told EXCEPT ![s] = start] /\ told \in [Side -> BOOLEAN]
  BY DEF TellFactory, TypeOK, TypePad
<1> QED BY <1>1, Zenon

\* Telling the factory: it goes to work on the order.
LEMMA TellObeyed ==
  ASSUME TypeOK, \A t \in Side : Obeyed(t), NEW s \in Side, NEW start \in BOOLEAN,
         TellFactory(s, start)
  PROVE  \A t \in Side : Obeyed(t)'
<1> SUFFICES ASSUME NEW t \in Side PROVE Obeyed(t)'
  OBVIOUS
<1>1. /\ fpc' = [fpc EXCEPT ![s] = IF start THEN "redraw" ELSE "empty"] /\ tsQueue' = tsQueue
      /\ fpc \in [Side -> FactoryPC] /\ Obeyed(t)
  BY DEF TellFactory, TypeOK, TypePad
<1>2. CASE t # s
  <2>1. fpc'[t] = fpc[t] BY <1>1, <1>2
  <2>2. told'[t] <=> told[t] BY <1>2, TellSets
  <2> QED BY <1>1, <2>1, <2>2 DEF Obeyed
<1>3. CASE t = s
  <2>1. fpc'[t] = IF start THEN "redraw" ELSE "empty" BY <1>1, <1>3
  <2>2. told'[t] <=> start BY <1>3, TellSets
  <2> QED BY <2>1, <2>2 DEF Obeyed
<1> QED BY <1>2, <1>3

\* Every step of the factory carries out the last order.
LEMMA ObeyedStep ==
  ASSUME TypeOK, \A t \in Side : Obeyed(t), [Next]_vars
  PROVE  \A t \in Side : Obeyed(t)'
<1> USE DEF mainVars, netVars, readVars, endVars
<1>1. ASSUME NEW s \in Side, FactoryStep(s) \/ PadderStep(s), NEW t \in Side PROVE Obeyed(t)'
  <2>1. /\ told' = told /\ Obeyed(t) /\ tsQueue \in [Side -> Nat] /\ fpc \in [Side -> FactoryPC]
        /\ t # s => fpc'[t] = fpc[t] /\ tsQueue'[t] = tsQueue[t]
    BY <1>1 DEF FactoryStep, FactoryEmpty, FactoryFill, FactoryExit, PadderStep, PadderExit,
       PadderCheck, PadderLength, PadderDequeue, PadderSend, TypeOK, TypePad
  <2>2. CASE t # s BY <2>1, <2>2 DEF Obeyed
  <2>3. CASE t = s
    BY <1>1, <2>1, <2>3 DEF FactoryStep, FactoryEmpty, FactoryFill, FactoryExit, PadderStep,
       PadderExit, PadderCheck, PadderLength, PadderDequeue, PadderSend, Obeyed
  <2> QED BY <2>2, <2>3
<1> USE DEF padVars
<1>2. ASSUME NEW s \in Side, MainStep(s) \/ MainRead(s) \/ MainEOF(s)
      PROVE  \A t \in Side : Obeyed(t)'
  <2>1. CASE UNCHANGED padVars BY <2>1, ObeyedKept
  <2>2. CASE MainTell BY <2>2, TellObeyed, TwoSides DEF MainTell
  <2>3. CASE ~MainTell
    BY <1>2, <2>1, <2>3 DEF MainStep, MainPoll, MainReadFail, MainChop, MainReturn,
       MainClose, MainLoad, MainReload, MainSetStart, MainSigStart, MainRead, MainEOF
  <2> QED BY <2>2, <2>3
<1>3. CASE TickerTick \/ TickerSetStop \/ TickerSigStop
  BY <1>3, ObeyedKept DEF TickerTick, TickerSetStop, TickerSigStop
<1>4. CASE TickerTell
  BY <1>4, TellObeyed, TwoSides DEF TickerTell
<1>5. ASSUME NEW s \in Side, SendStep(s) PROVE \A t \in Side : Obeyed(t)'
  BY <1>5, ObeyedKept DEF SendStep, SendReturn, SendLost
<1>6. ASSUME NEW s \in Side, ReaderStep(s) PROVE \A t \in Side : Obeyed(t)'
  <2>1. CASE ReaderTell(s) BY <2>1, TellObeyed DEF ReaderTell
  <2>2. CASE ~ReaderTell(s)
    BY <1>6, <2>2, ObeyedKept DEF ReaderStep, ReaderPacket, ReaderSet, ReaderFail, ReaderClose
  <2> QED BY <2>1, <2>2
<1>7. CASE UNCHANGED vars BY <1>7, ObeyedKept DEF vars
<1> QED BY <1>1, <1>2, <1>3, <1>4, <1>5, <1>6, <1>7 DEF Next, TickerStep

\* A step that leaves the reader's course and the bridge's state and orders alone.
LEMMA BridgeKept ==
  ASSUME BridgeTold, rpc' = rpc, st'[Server] = st[Server], told'[Server] <=> told[Server]
  PROVE  BridgeTold'
  BY DEF BridgeTold

\* The steps of the reader: the bridge's factory is told before the state is set.
LEMMA ReaderBridge ==
  ASSUME TypeOK, BridgeTold, NEW s \in Side, ReaderStep(s)
  PROVE  BridgeTold'
<1> USE DEF mainVars, padVars, netVars, readVars, endVars
<1>0. rpc \in [Side -> ReaderPC] /\ st \in [Side -> State]
  BY DEF TypeOK, TypeState
<1>1. CASE ReaderPacket(s)
  <2>1. UNCHANGED <<st, told>> BY <1>1 DEF ReaderPacket
  <2>2. CASE s = Client
    <3>1. /\ rpc'[Client] \in {"recv", "panic"} /\ rpc'[Server] = rpc[Server]
      BY <1>0, <1>1, <2>2, TwoSides DEF ReaderPacket
    <3> QED BY <2>1, <3>1 DEF BridgeTold
  <2>3. CASE s = Server
    <3>1. /\ rpc[Server] = "recv" /\ rpc'[Server] \in {"recv", "tellStart", "tellStop"}
          /\ rpc'[Client] = rpc[Client]
      BY <1>0, <1>1, <2>3, TwoSides DEF ReaderPacket
    <3> QED BY <2>1, <3>1 DEF BridgeTold
  <2> QED BY <2>2, <2>3, TwoSides
<1>2. CASE ReaderTell(s)
  <2>1. s = Server
    BY <1>2, TwoSides DEF ReaderTell, BridgeTold
  <2>2. rpc'[Client] = rpc[Client] BY <1>0, <1>2, <2>1, TwoSides DEF ReaderTell
  <2>3. CASE rpc[Server] = "tellStart"
    <3>1. TellFactory(Server, TRUE) /\ rpc'[Server] = "setStart"
      BY <1>0, <1>2, <2>1, <2>3 DEF ReaderTell
    <3>2. told'[Server] BY <3>1, TellSets, TwoSides
    <3> QED BY <2>2, <3>1, <3>2 DEF BridgeTold
  <2>4. CASE rpc[Server] = "tellStop"
    <3>1. TellFactory(Server, FALSE) /\ rpc'[Server] = "setStop"
      BY <1>0, <1>2, <2>1, <2>4 DEF ReaderTell
    <3>2. ~told'[Server] BY <3>1, TellSets, TwoSides
    <3> QED BY <2>2, <3>1, <3>2 DEF BridgeTold
  <2> QED BY <1>2, <2>1, <2>3, <2>4 DEF ReaderTell
<1>3. CASE ReaderSet(s)
  <2>1. s = Server /\ told' = told
    BY <1>3, TwoSides DEF ReaderSet, BridgeTold
  <2>2. rpc'[Client] = rpc[Client] /\ rpc'[Server] = "recv"
    BY <1>0, <1>3, <2>1, TwoSides DEF ReaderSet
  <2>3. CASE rpc[Server] = "setStart"
    <3>1. st'[Server] = "Start" BY <1>0, <1>3, <2>1, <2>3 DEF ReaderSet, SetState
    <3> QED BY <2>1, <2>2, <2>3, <3>1 DEF BridgeTold
  <2>4. CASE rpc[Server] = "setStop"
    <3>1. st'[Server] = "Stop" BY <1>0, <1>3, <2>1, <2>4 DEF ReaderSet, SetState
    <3> QED BY <2>1, <2>2, <2>4, <3>1 DEF BridgeTold
  <2> QED BY <1>3, <2>1, <2>3, <2>4 DEF ReaderSet
<1>4. CASE ReaderFail(s) \/ ReaderClose(s)
  <2>1. /\ UNCHANGED <<st, told>> /\ rpc'[s] \in {"close", "done"}
        /\ \A t \in Side : t # s => rpc'[t] = rpc[t]
    BY <1>0, <1>4 DEF ReaderFail, ReaderClose
  <2> QED BY <2>1, TwoSides DEF BridgeTold
<1> QED BY <1>1, <1>2, <1>3, <1>4 DEF ReaderStep

\* At the bridge, the state and the orders to the factory stay in step.
LEMMA BridgeToldStep ==
  ASSUME TypeOK, BridgeTold, [Next]_vars
  PROVE  BridgeTold'
<1> USE DEF mainVars, padVars, netVars, readVars, endVars
<1>0. st \in [Side -> State] BY DEF TypeOK, TypeState
<1>1. ASSUME NEW s \in Side, \/ FactoryStep(s) \/ PadderStep(s) \/ SendStep(s)
      PROVE  BridgeTold'
  BY <1>1, BridgeKept DEF FactoryStep, FactoryEmpty, FactoryFill, FactoryExit, PadderStep,
     PadderExit, PadderCheck, PadderLength, PadderDequeue, PadderSend, SendStep, SendReturn, SendLost
<1>2. ASSUME NEW s \in Side, MainStep(s) \/ MainRead(s) \/ MainEOF(s) PROVE BridgeTold'
  <2>1. CASE MainTell
    BY <2>1, TellSets, TwoSides, BridgeKept DEF MainTell
  <2>2. CASE ~MainTell
    <3>1. rpc' = rpc /\ told' = told /\ st'[Server] = st[Server]
      BY <1>0, <1>2, <2>2, TwoSides DEF MainStep, MainPoll, MainReadFail, MainChop, MainReturn,
         MainClose, MainLoad, MainReload, MainSetStart, MainSigStart, MainRead, MainEOF, SetState
    <3> QED BY <3>1, BridgeKept
  <2> QED BY <2>1, <2>2
<1>3. CASE TickerTick \/ TickerSetStop \/ TickerSigStop
  <2>1. rpc' = rpc /\ told' = told /\ st'[Server] = st[Server]
    BY <1>0, <1>3, TwoSides DEF TickerTick, TickerSetStop, TickerSigStop, SetState
  <2> QED BY <2>1, BridgeKept
<1>4. CASE TickerTell
  BY <1>4, TellSets, TwoSides, BridgeKept DEF TickerTell
<1>5. CASE UNCHANGED vars BY <1>5, BridgeKept DEF vars
<1> QED BY <1>1, <1>2, <1>3, <1>4, <1>5, ReaderBridge DEF Next, TickerStep

-----------------------------------------------------------------------------
(* The client.                                                             *)

\* A step that leaves alone whether main or the ticker is about to tell the factory, what
\* it was told and whether the defence is on.
LEMMA ClientKept ==
  ASSUME ~raced => ClientTold, ~raced' => ~raced,
         MainBusy' <=> MainBusy, TickerBusy' <=> TickerBusy,
         told'[Client] <=> told[Client], st'[Client] = "Start" <=> st[Client] = "Start"
  PROVE  ~raced' => ClientTold'
  BY DEF ClientTold

\* The steps of the client's main: it tells the factory about every start.
LEMMA MainClient ==
  ASSUME TypeOK, ~raced => ClientTold, NEW s \in Side,
         MainStep(s) \/ MainRead(s) \/ MainEOF(s)
  PROVE  ~raced' => ClientTold'
<1> USE DEF mainVars, padVars, netVars, readVars, endVars
<1>0. /\ tpc' = tpc /\ mpc \in [Side -> MainPC] /\ st \in [Side -> State]
      /\ TickerBusy' <=> TickerBusy
  BY DEF MainStep, MainPoll, MainReadFail, MainChop, MainReturn, MainClose, MainLoad, MainReload,
     MainSetStart, MainSigStart, MainTell, MainRead, MainEOF, TypeOK, TypeState, TickerBusy
<1>1. CASE \/ MainPoll(s) \/ MainReadFail(s) \/ MainChop(s) \/ MainReturn(s) \/ MainClose(s)
           \/ MainRead(s)
  <2>1. /\ UNCHANGED <<st, told, raced>> /\ mpc[s] \notin {"sigStart", "tell"}
        /\ mpc'[s] \notin {"sigStart", "tell"} /\ \A t \in Side : t # s => mpc'[t] = mpc[t]
    BY <1>0, <1>1 DEF MainPoll, MainReadFail, MainChop, MainReturn, MainClose, MainRead
  <2>2. MainBusy' <=> MainBusy BY <2>1, TwoSides DEF MainBusy
  <2> QED BY <1>0, <2>1, <2>2, ClientKept
<1>2. CASE MainLoad \/ MainReload \/ MainSetStart
  <2>1. told' = told /\ ~MainBusy
    BY <1>2 DEF MainLoad, MainReload, MainSetStart, MainBusy
  <2>2. CASE /\ st'[Client] = "Start" /\ mpc'[Client] = "sigStart"
             /\ raced' = (raced \/ TickerBusy)
    BY <1>0, <2>2 DEF ClientTold, MainBusy
  <2>3. CASE /\ st'[Client] = "Start" <=> st[Client] = "Start"
             /\ mpc'[Client] \notin {"sigStart", "tell"} /\ raced' = raced
    <3>1. MainBusy' <=> MainBusy BY <2>1, <2>3 DEF MainBusy
    <3> QED BY <1>0, <2>1, <2>3, <3>1, ClientKept
  <2>4. CASE MainLoad
    BY <1>0, <2>2, <2>3, <2>4, TwoSides DEF MainLoad, SetState
  <2>5. CASE MainReload
    BY <1>0, <2>2, <2>3, <2>5, TwoSides DEF MainReload, SetState
  <2>6. CASE MainSetStart
    BY <1>0, <2>2, <2>3, <2>6, TwoSides DEF MainSetStart, SetState
  <2> QED BY <1>2, <2>4, <2>5, <2>6
<1>3. CASE MainSigStart
  <2>1. /\ UNCHANGED <<st, told, raced>> /\ mpc[Client] = "sigStart" /\ mpc'[Client] = "tell"
    BY <1>0, <1>3, TwoSides DEF MainSigStart
  <2>2. MainBusy' <=> MainBusy BY <2>1 DEF MainBusy
  <2> QED BY <1>0, <2>1, <2>2, ClientKept
<1>4. CASE MainTell
  <2>1. /\ UNCHANGED <<st, raced>> /\ mpc[Client] = "tell" /\ mpc'[Client] = "chop"
        /\ TellFactory(Client, TRUE)
    BY <1>0, <1>4, TwoSides DEF MainTell
  <2>2. told'[Client] BY <2>1, TellSets, TwoSides
  <2> QED BY <1>0, <2>1, <2>2 DEF ClientTold, MainBusy
<1> QED BY <1>1, <1>2, <1>3, <1>4 DEF MainStep, MainEOF

\* The steps of the ticker: it tells the factory about every stop.
LEMMA TickerClient ==
  ASSUME TypeOK, ~raced => ClientTold, TickerTick \/ TickerStep
  PROVE  ~raced' => ClientTold'
<1> USE DEF mainVars, padVars, netVars, readVars, endVars
<1>0. mpc' = mpc /\ st \in [Side -> State] /\ (MainBusy' <=> MainBusy)
  BY DEF TickerTick, TickerStep, TickerSetStop, TickerSigStop, TickerTell, TypeOK, TypeState,
     MainBusy
<1>1. CASE TickerTick
  <2>1. UNCHANGED <<st, told, raced>> /\ (TickerBusy' <=> TickerBusy)
    BY <1>1 DEF TickerTick, TickerBusy
  <2> QED BY <1>0, <2>1, ClientKept
<1>2. CASE TickerSetStop
  <2>1. st'[Client] = "Stop" /\ tpc' = "sigStop" /\ raced' = (raced \/ MainBusy)
    BY <1>0, <1>2, TwoSides DEF TickerSetStop, SetState
  <2> QED BY <1>0, <2>1 DEF ClientTold, TickerBusy
<1>3. CASE TickerSigStop
  <2>1. UNCHANGED <<st, told, raced>> /\ (TickerBusy' <=> TickerBusy)
    BY <1>3 DEF TickerSigStop, TickerBusy
  <2> QED BY <1>0, <2>1, ClientKept
<1>4. CASE TickerTell
  <2>1. UNCHANGED <<st, raced>> /\ tpc = "tell" /\ tpc' = "wait" /\ TellFactory(Client, FALSE)
    BY <1>4 DEF TickerTell
  <2>2. ~told'[Client] BY <2>1, TellSets, TwoSides
  <2> QED BY <1>0, <2>1, <2>2 DEF ClientTold, TickerBusy
<1> QED BY <1>1, <1>2, <1>3, <1>4 DEF TickerStep

\* The other steps do not concern the client's state and factory.
LEMMA ClientToldStep ==
  ASSUME TypeOK, BridgeTold, ~raced => ClientTold, [Next]_vars
  PROVE  ~raced' => ClientTold'
<1> USE DEF mainVars, padVars, netVars, readVars, endVars
<1>1. ASSUME NEW s \in Side, FactoryStep(s) \/ PadderStep(s) \/ SendStep(s)
      PROVE  ~raced' => ClientTold'
  <2>1. UNCHANGED <<mpc, tpc, st, told, raced>>
    BY <1>1 DEF FactoryStep, FactoryEmpty, FactoryFill, FactoryExit, PadderStep,
       PadderExit, PadderCheck, PadderLength, PadderDequeue, PadderSend, SendStep, SendReturn, SendLost
  <2> QED BY <2>1, ClientKept DEF MainBusy, TickerBusy
<1>2. ASSUME NEW s \in Side, ReaderStep(s) PROVE ~raced' => ClientTold'
  <2>1. UNCHANGED <<mpc, tpc, raced>>
    BY <1>2 DEF ReaderStep, ReaderPacket, ReaderTell, ReaderSet, ReaderFail, ReaderClose
  <2>2. (told'[Client] <=> told[Client]) /\ st'[Client] = st[Client]
    <3>1. CASE ReaderTell(s)
      <4>1. s = Server /\ st' = st BY <3>1, TwoSides DEF ReaderTell, BridgeTold
      <4>2. \E start \in BOOLEAN : TellFactory(Server, start) BY <3>1, <4>1 DEF ReaderTell
      <4> QED BY <4>1, <4>2, TellSets, TwoSides
    <3>2. CASE ReaderSet(s)
      <4>1. s = Server /\ told' = told BY <3>2, TwoSides DEF ReaderSet, BridgeTold
      <4> QED BY <3>2, <4>1, TwoSides DEF ReaderSet, SetState, TypeOK, TypeState
    <3>3. CASE ~ReaderTell(s) /\ ~ReaderSet(s)
      BY <1>2, <3>3 DEF ReaderStep, ReaderPacket, ReaderFail, ReaderClose
    <3> QED BY <3>1, <3>2, <3>3
  <2> QED BY <2>1, <2>2, ClientKept DEF MainBusy, TickerBusy
<1>3. CASE UNCHANGED vars
  <2>1. UNCHANGED <<mpc, tpc, st, told, raced>> BY <1>3 DEF vars
  <2> QED BY <2>1, ClientKept DEF MainBusy, TickerBusy
<1> QED BY <1>1, <1>2, <1>3, MainClient, TickerClient DEF Next, TickerStep

-----------------------------------------------------------------------------
(* The signals.                                                            *)

\* Do the client's packets still reach the bridge?
Up == sending[Client] /\ ~Broken

\* Is the client's defence on?
Defends == st[Client] = "Start"

\* A step that leaves alone what the announcement depends on.
LEMMA AnnouncedKept ==
  ASSUME ~raced => Announced, ~raced' => ~raced, Up' => Up,
         Up' => chan'[Client] = chan[Client], Following' <=> Following, Defends' <=> Defends,
         mpc'[Client] = "sigStart" <=> mpc[Client] = "sigStart",
         tpc' = "sigStop" <=> tpc = "sigStop"
  PROVE  ~raced' => Announced'
<1> SUFFICES ASSUME ~raced' PROVE Announced'
  OBVIOUS
<1> DEFINE c == chan[Client]
<1>1. Up' => (Announces(c, "SignalStart", "SignalStop", Following, Defends)
                <=> Announces(c', "SignalStart", "SignalStop", Following', Defends'))
  BY DEF Announces
<1> QED BY <1>1 DEF Announced, Up, Defends

\* The client queues a packet that is no signal.
LEMMA OtherQueued ==
  ASSUME TypeOK, ~raced => Announced, NEW e \in {"Payload", "Dummy"},
         chan' = [chan EXCEPT ![Client] = Append(@, e)],
         UNCHANGED <<st, tpc, rpc, sending, open, raced>>,
         mpc'[Client] = "sigStart" <=> mpc[Client] = "sigStart"
  PROVE  ~raced' => Announced'
<1> SUFFICES ASSUME ~raced PROVE Announced'
  OBVIOUS
<1> DEFINE c == chan[Client]
           d == Defends
           w == Following
<1>1. c \in Seq(Packet) /\ chan'[Client] = Append(c, e) /\ e \in Packet
  BY TwoSides DEF TypeOK, TypeNet, Packet
<1>2. e \notin {"SignalStart", "SignalStop"} OBVIOUS
<1>3. d \in BOOLEAN /\ w \in BOOLEAN /\ (d' <=> d) /\ (w' <=> w) /\ (Up' <=> Up)
  BY DEF Defends, Following, Up, Broken
<1> HIDE DEF c, d, w
<1>4. Announces(c, "SignalStart", "SignalStop", w, d)
        => Announces(Append(c, e), "SignalStart", "SignalStop", w, d)
  BY <1>1, <1>2, <1>3, AnnouncesOther
<1>5. Announces(c, "SignalStart", "SignalStop", w, d)
        => Announces(chan'[Client], "SignalStart", "SignalStop", w', d')
  BY <1>1, <1>3, <1>4 DEF Announces
<1> QED BY <1>3, <1>5 DEF Announced, Up, Defends, c, d, w

\* The client queues the signal of its state.
LEMMA SignalQueued ==
  ASSUME TypeOK, NEW e \in {"SignalStart", "SignalStop"}, Defends <=> e = "SignalStart",
         chan' = [chan EXCEPT ![Client] = Append(@, e)], UNCHANGED st, UNCHANGED rpc
  PROVE  Announced'
<1> DEFINE c == chan[Client]
           d == Defends
           w == Following
<1>1. c \in Seq(Packet) /\ chan'[Client] = Append(c, e) /\ e \in Packet
  BY TwoSides DEF TypeOK, TypeNet, Packet
<1>2. d \in BOOLEAN /\ w \in BOOLEAN /\ (d' <=> d) /\ (w' <=> w) /\ (d <=> e = "SignalStart")
  BY DEF Defends, Following
<1> HIDE DEF c, d, w
<1>3. Announces(Append(c, e), "SignalStart", "SignalStop", w, d)
  BY <1>1, <1>2, AnnouncesSignal
<1>4. Announces(chan'[Client], "SignalStart", "SignalStop", w', d')
  BY <1>1, <1>2, <1>3 DEF Announces
<1> QED BY <1>4 DEF Announced, Defends, d, w

\* The bridge's reader takes a packet: if it is a signal, the reader sets out to follow it.
LEMMA PacketFollowed ==
  ASSUME TypeOK, BridgeTold, ~raced => Announced, ReaderPacket(Server)
  PROVE  ~raced' => Announced'
<1> USE DEF mainVars, padVars, netVars, readVars, endVars
<1> SUFFICES ASSUME ~raced' PROVE Announced'
  OBVIOUS
<1> DEFINE c == chan[Client]
           d == Defends
           w == Following
           n == Following'
<1>1. UNCHANGED <<st, mpc, tpc, sending, open, raced>> BY DEF ReaderPacket
<1>2. c \in Seq(Packet) /\ c # <<>> /\ chan'[Client] = Tail(c) /\ Head(c) \in Packet
  BY TwoSides, HeadTailTypes DEF ReaderPacket, TypeOK, TypeNet
<1>3. d \in BOOLEAN /\ w \in BOOLEAN /\ n \in BOOLEAN /\ (d' <=> d) /\ (Up' <=> Up)
  BY <1>1 DEF Defends, Following, Up, Broken
<1>4. /\ Head(c) \in {"SignalStart", "SignalStop"} => (n <=> Head(c) = "SignalStart")
      /\ Head(c) \notin {"SignalStart", "SignalStop"} => (n <=> w)
  <2>1. rpc[Server] = "recv" /\ rpc \in [Side -> ReaderPC] /\ st \in [Side -> State]
    BY DEF ReaderPacket, TypeOK, TypeState
  <2>2. rpc'[Server] = CASE Head(c) \in Signal /\ Server = Client -> "panic"
          [] Head(c) = "SignalStart" /\ Server = Server /\ st[Server] # "Start" -> "tellStart"
          [] Head(c) = "SignalStop" /\ Server = Server /\ st[Server] # "Stop" -> "tellStop"
          [] OTHER -> "recv"
    BY <2>1, TwoSides DEF ReaderPacket
  <2> HIDE DEF c
  <2>3. CASE Head(c) = "SignalStart"
    BY <1>1, <2>1, <2>2, <2>3, TwoSides DEF Following
  <2>4. CASE Head(c) = "SignalStop"
    BY <1>1, <2>1, <2>2, <2>4, TwoSides DEF Following
  <2>5. CASE Head(c) \notin {"SignalStart", "SignalStop"}
    BY <1>1, <2>1, <2>2, <2>5, TwoSides DEF Following, Signal
  <2> QED BY <2>3, <2>4, <2>5
<1> HIDE DEF c, d, w, n
<1>5. Announces(c, "SignalStart", "SignalStop", w, d)
        => Announces(Tail(c), "SignalStart", "SignalStop", n, d)
  BY <1>2, <1>3, <1>4, AnnouncesTaken
<1>6. Announces(c, "SignalStart", "SignalStop", w, d)
        => Announces(chan'[Client], "SignalStart", "SignalStop", n, d')
  BY <1>2, <1>3, <1>5 DEF Announces
<1> QED BY <1>1, <1>3, <1>6 DEF Announced, Up, Defends, c, d, w, n

\* The steps of main: every start is announced by a signal queued after it.
LEMMA MainAnnounces ==
  ASSUME TypeOK, ~raced => ClientTold /\ Announced, NEW s \in Side,
         MainStep(s) \/ MainRead(s) \/ MainEOF(s)
  PROVE  ~raced' => Announced'
<1> USE DEF mainVars, padVars, netVars, readVars, endVars
<1>0. /\ UNCHANGED <<tpc, rpc, sending>> /\ mpc \in [Side -> MainPC] /\ st \in [Side -> State]
      /\ open' = open \/ open' = [open EXCEPT ![s] = FALSE]
      /\ st'[Server] = st[Server]
  BY TwoSides DEF MainStep, MainPoll, MainReadFail, MainChop, MainReturn, MainClose, MainLoad,
     MainReload, MainSetStart, MainSigStart, MainTell, MainRead, MainEOF, TypeOK, TypeState,
     SetState
<1>1. Up' => Up
  <2>1. CASE open' = open BY <1>0, <2>1 DEF Up, Broken
  <2>2. CASE open' = [open EXCEPT ![s] = FALSE]
    <3>1. ~open'[s] BY <2>2 DEF TypeOK, TypeNet
    <3> QED BY <3>1 DEF Up, Broken
  <2> QED BY <1>0, <2>1, <2>2
<1>2. Following' <=> Following BY <1>0 DEF Following
<1>3. CASE \/ MainPoll(s) \/ MainReadFail(s) \/ MainReturn(s) \/ MainClose(s) \/ MainRead(s)
  <2>1. /\ UNCHANGED <<st, chan, raced>> /\ mpc[s] # "sigStart" /\ mpc'[s] # "sigStart"
        /\ \A t \in Side : t # s => mpc'[t] = mpc[t]
    BY <1>0, <1>3 DEF MainPoll, MainReadFail, MainReturn, MainClose, MainRead
  <2>2. mpc'[Client] = "sigStart" <=> mpc[Client] = "sigStart" BY <2>1, TwoSides
  <2> QED BY <1>0, <1>1, <1>2, <2>1, <2>2, AnnouncedKept DEF Defends
<1>4. CASE MainChop(s)
  <2>1. /\ UNCHANGED <<st, raced, open>> /\ mpc[s] # "sigStart" /\ mpc'[s] # "sigStart"
        /\ \A t \in Side : t # s => mpc'[t] = mpc[t]
    BY <1>0, <1>4 DEF MainChop
  <2>2. mpc'[Client] = "sigStart" <=> mpc[Client] = "sigStart" BY <2>1, TwoSides
  <2>3. CASE chan'[Client] = chan[Client]
    BY <1>0, <1>1, <1>2, <2>1, <2>2, <2>3, AnnouncedKept DEF Defends
  <2>4. CASE s = Client /\ chan' = [chan EXCEPT ![s] = Append(@, "Payload")]
    BY <1>0, <2>1, <2>2, <2>4, OtherQueued
  <2> QED BY <1>4, <2>3, <2>4, TwoSides DEF MainChop, Enqueue, TypeOK, TypeNet
<1>5. CASE MainLoad \/ MainReload \/ MainSetStart
  <2>1. chan' = chan /\ mpc[Client] # "sigStart"
    BY <1>5 DEF MainLoad, MainReload, MainSetStart
  <2>2. CASE mpc'[Client] = "sigStart" BY <2>2 DEF Announced
  <2>3. CASE /\ st'[Client] = "Start" <=> st[Client] = "Start"
             /\ mpc'[Client] # "sigStart" /\ raced' = raced
    BY <1>0, <1>1, <1>2, <2>1, <2>3, AnnouncedKept DEF Defends
  <2>4. CASE MainLoad
    BY <1>0, <2>2, <2>3, <2>4, TwoSides DEF MainLoad, SetState
  <2>5. CASE MainReload
    BY <1>0, <2>2, <2>3, <2>5, TwoSides DEF MainReload, SetState
  <2>6. CASE MainSetStart
    BY <1>0, <2>2, <2>3, <2>6, TwoSides DEF MainSetStart, SetState
  <2> QED BY <1>5, <2>4, <2>5, <2>6
<1>6. CASE MainSigStart
  <2>1. /\ UNCHANGED <<st, raced>> /\ mpc[Client] = "sigStart"
        /\ chan' = [chan EXCEPT ![Client] = Append(@, "SignalStart")]
    BY <1>6 DEF MainSigStart, Enqueue
  <2>2. ~raced => Defends BY <2>1 DEF ClientTold, MainBusy, Defends
  <2> QED BY <1>0, <2>1, <2>2, SignalQueued
<1>7. CASE MainTell
  <2>1. /\ UNCHANGED <<st, chan, raced>> /\ mpc[Client] # "sigStart" /\ mpc'[Client] # "sigStart"
    BY <1>0, <1>7, TwoSides DEF MainTell
  <2> QED BY <1>0, <1>1, <1>2, <2>1, AnnouncedKept DEF Defends
<1> QED BY <1>3, <1>4, <1>5, <1>6, <1>7 DEF MainStep, MainEOF

\* The steps of the ticker: every stop is announced by a signal queued after it.
LEMMA TickerAnnounces ==
  ASSUME TypeOK, ~raced => ClientTold /\ Announced, TickerTick \/ TickerStep
  PROVE  ~raced' => Announced'
<1> USE DEF mainVars, padVars, netVars, readVars, endVars
<1>0. /\ UNCHANGED <<mpc, rpc, sending, open>> /\ st \in [Side -> State]
      /\ st'[Server] = st[Server]
  BY TwoSides DEF TickerTick, TickerStep, TickerSetStop, TickerSigStop, TickerTell, SetState,
     TypeOK, TypeState
<1>1. (Following' <=> Following) /\ (Up' <=> Up) BY <1>0 DEF Following, Up, Broken
<1>2. CASE TickerTick \/ TickerTell
  <2>1. UNCHANGED <<st, chan, raced>> /\ tpc # "sigStop" /\ tpc' # "sigStop"
    BY <1>2 DEF TickerTick, TickerTell
  <2> QED BY <1>0, <1>1, <2>1, AnnouncedKept DEF Defends
<1>3. CASE TickerSetStop
  BY <1>3 DEF TickerSetStop, Announced
<1>4. CASE TickerSigStop
  <2>1. /\ UNCHANGED <<st, raced>> /\ tpc = "sigStop"
        /\ chan' = [chan EXCEPT ![Client] = Append(@, "SignalStop")]
    BY <1>4 DEF TickerSigStop, Enqueue
  <2>2. ~raced => ~Defends BY <2>1 DEF ClientTold, TickerBusy, Defends
  <2> QED BY <1>0, <2>1, <2>2, SignalQueued
<1> QED BY <1>2, <1>3, <1>4 DEF TickerStep

\* The steps of the reader: the bridge follows the signals in their order.
LEMMA ReaderAnnounces ==
  ASSUME TypeOK, BridgeTold, ~raced => Announced, NEW s \in Side, ReaderStep(s)
  PROVE  ~raced' => Announced'
<1> USE DEF mainVars, padVars, netVars, readVars, endVars
<1>0. /\ UNCHANGED <<mpc, tpc, raced, sending>> /\ rpc \in [Side -> ReaderPC]
      /\ st \in [Side -> State]
  BY DEF ReaderStep, ReaderPacket, ReaderTell, ReaderSet, ReaderFail, ReaderClose, TypeOK,
     TypeState
<1>1. CASE ReaderPacket(s)
  <2>1. CASE s = Server BY <1>1, <2>1, PacketFollowed
  <2>2. CASE s = Client
    <3>1. /\ UNCHANGED <<st, open>> /\ rpc'[Server] = rpc[Server]
          /\ chan'[Client] = chan[Client]
      BY <1>0, <1>1, <2>2, TwoSides DEF ReaderPacket, TypeOK, TypeNet
    <3> QED BY <1>0, <3>1, AnnouncedKept DEF Following, Up, Broken, Defends
  <2> QED BY <2>1, <2>2, TwoSides
<1>2. CASE ReaderTell(s)
  <2>1. s = Server /\ UNCHANGED <<st, chan, open>>
    BY <1>2, TwoSides DEF ReaderTell, BridgeTold
  <2>2. \/ rpc[Server] = "tellStart" /\ rpc'[Server] = "setStart"
        \/ rpc[Server] = "tellStop" /\ rpc'[Server] = "setStop"
    BY <1>0, <1>2, <2>1 DEF ReaderTell
  <2>3. Following' <=> Following BY <2>1, <2>2 DEF Following
  <2> QED BY <1>0, <2>1, <2>3, AnnouncedKept DEF Up, Broken, Defends
<1>3. CASE ReaderSet(s)
  <2>1. s = Server /\ UNCHANGED <<chan, open>>
    BY <1>3, TwoSides DEF ReaderSet, BridgeTold
  <2>2. /\ st'[Client] = st[Client] /\ rpc'[Server] = "recv"
        /\ \/ rpc[Server] = "setStart" /\ st'[Server] = "Start"
           \/ rpc[Server] = "setStop" /\ st'[Server] = "Stop"
    BY <1>0, <1>3, <2>1, TwoSides DEF ReaderSet, SetState
  <2>3. Following' <=> Following BY <2>1, <2>2 DEF Following
  <2> QED BY <1>0, <2>1, <2>2, <2>3, AnnouncedKept DEF Up, Broken, Defends
<1>4. CASE ReaderFail(s) \/ ReaderClose(s)
  <2>1. /\ UNCHANGED <<st, chan>> /\ rpc'[s] \in {"close", "done"}
        /\ rpc[s] \in {"recv", "close"} /\ \A t \in Side : t # s => rpc'[t] = rpc[t]
    BY <1>0, <1>4 DEF ReaderFail, ReaderClose
  <2>2. Following' <=> Following BY <2>1, TwoSides DEF Following
  <2>3. Up' => Up
    <3>1. CASE ReaderFail(s)
      <4>1. open' = open BY <3>1 DEF ReaderFail
      <4> QED BY <1>0, <4>1 DEF Up, Broken
    <3>2. CASE ReaderClose(s)
      <4>1. ~open'[s] BY <3>2 DEF ReaderClose, TypeOK, TypeNet
      <4> QED BY <4>1 DEF Up, Broken
    <3> QED BY <1>4, <3>1, <3>2
  <2> QED BY <1>0, <2>1, <2>2, <2>3, AnnouncedKept DEF Defends
<1> QED BY <1>1, <1>2, <1>3, <1>4 DEF ReaderStep

\* Every step keeps the announcements right.
LEMMA AnnouncedStep ==
  ASSUME TypeOK, BridgeTold, ~raced => ClientTold /\ Announced, [Next]_vars
  PROVE  ~raced' => Announced'
<1> USE DEF mainVars, padVars, netVars, readVars, endVars
<1>1. ASSUME NEW s \in Side, FactoryStep(s) \/ PadderStep(s) PROVE ~raced' => Announced'
  <2>1. CASE UNCHANGED <<st, mpc, tpc, rpc, raced, chan, sending, open>>
    BY <2>1, AnnouncedKept DEF Following, Up, Broken, Defends
  <2>2. CASE PadderSend(s)
    <3>1. UNCHANGED <<st, mpc, tpc, rpc, raced, sending, open>> BY <2>2 DEF PadderSend
    <3>2. CASE s = Server
      <4>1. chan'[Client] = chan[Client]
        BY <2>2, <3>2, TwoSides DEF PadderSend, Enqueue, TypeOK, TypeNet
      <4> QED BY <3>1, <4>1, AnnouncedKept DEF Following, Up, Broken, Defends
    <3>3. CASE s = Client BY <2>2, <3>1, <3>3, OtherQueued DEF PadderSend, Enqueue
    <3> QED BY <3>2, <3>3, TwoSides
  <2>3. CASE ~PadderSend(s)
    BY <1>1, <2>1, <2>3 DEF FactoryStep, FactoryEmpty, FactoryFill, FactoryExit, PadderStep,
       PadderExit, PadderCheck, PadderLength, PadderDequeue
  <2> QED BY <2>2, <2>3
<1>2. ASSUME NEW s \in Side, SendStep(s) PROVE ~raced' => Announced'
  <2>1. UNCHANGED <<st, mpc, tpc, rpc, raced, open>>
    BY <1>2 DEF SendStep, SendReturn, SendLost
  <2>2. (Up' => Up) /\ (Up' => chan'[Client] = chan[Client])
    <3>1. CASE SendReturn(s)
      <4>1. chan' = chan /\ sending' = [sending EXCEPT ![s] = FALSE] BY <3>1 DEF SendReturn
      <4>2. sending'[Client] => sending[Client]
        <5>1. CASE s = Client BY <4>1, <5>1, TwoSides DEF TypeOK, TypeNet
        <5>2. CASE s # Client BY <4>1, <5>2, TwoSides DEF TypeOK, TypeNet
        <5> QED BY <5>1, <5>2
      <4> QED BY <2>1, <4>1, <4>2 DEF Up, Broken
    <3>2. CASE SendLost(s)
      <4>1. ~open[Peer(s)] BY <3>2 DEF SendLost
      <4> QED BY <2>1, <4>1, TwoSides DEF Up, Broken
    <3> QED BY <1>2, <3>1, <3>2 DEF SendStep
  <2> QED BY <2>1, <2>2, AnnouncedKept DEF Following, Defends
<1>3. CASE UNCHANGED vars
  <2>1. UNCHANGED <<st, mpc, tpc, rpc, raced, chan, sending, open>> BY <1>3 DEF vars
  <2> QED BY <2>1, AnnouncedKept DEF Following, Up, Broken, Defends
<1> QED BY <1>1, <1>2, <1>3, MainAnnounces, TickerAnnounces, ReaderAnnounces DEF Next, TickerStep

-----------------------------------------------------------------------------
\* At first nothing is queued and no end defends.
LEMMA IInvInit == Init => IInv
<1> SUFFICES ASSUME Init PROVE IInv
  OBVIOUS
<1>1. /\ chan[Client] = <<>> /\ st[Client] = "Stop" /\ st[Server] = "Stop"
      /\ rpc[Server] = "recv" /\ rpc[Client] = "recv" /\ mpc[Client] = "poll" /\ tpc = "wait"
  BY TwoSides DEF Init
<1>2. \A s \in Side : ~told[s] BY Zenon DEF Init
<1>3. Announced BY <1>1 DEF Announced, Announces, Following
<1>4. \A s \in Side : Covered(s) /\ Obeyed(s) BY DEF Init, Covered, Obeyed
<1>5. BridgeTold BY <1>1, <1>2, TwoSides DEF BridgeTold
<1>6. ClientTold BY <1>1, <1>2, TwoSides DEF ClientTold, MainBusy, TickerBusy
<1> QED BY <1>3, <1>4, <1>5, <1>6, TypeInit DEF IInv

\* Every step keeps the inductive invariant.
LEMMA IInvStep == IInv /\ [Next]_vars => IInv'
<1> SUFFICES ASSUME IInv, [Next]_vars PROVE IInv'
  OBVIOUS
<1>1. /\ TypeOK /\ BridgeTold /\ (~raced => ClientTold /\ Announced)
      /\ (\A s \in Side : Covered(s)) /\ (\A s \in Side : Obeyed(s))
  BY DEF IInv
<1>2. TypeOK' BY <1>1, TypeStep
<1>3. BridgeTold' BY <1>1, BridgeToldStep
<1>4. ~raced' => ClientTold' BY <1>1, ClientToldStep
<1>5. ~raced' => Announced' BY <1>1, AnnouncedStep
<1>6. (\A s \in Side : Covered(s)') /\ (\A s \in Side : Obeyed(s)')
  BY <1>1, CoveredStep, ObeyedStep
<1> QED BY <1>2, <1>3, <1>4, <1>5, <1>6 DEF IInv

\* For every schedule length, every capacity and every environment: schedule and bridge
\* follow the client's state, unless the client's main and ticker overlap between a
\* SetState and the announcement of it to bridge and factory (ReadFrom, readPackets).
THEOREM ScheduleAndBridgeFollow == Spec => []FollowsUnlessRaced
<1>1. IInv => FollowsUnlessRaced
  <2> SUFFICES ASSUME IInv, ~raced PROVE ScheduleFollows /\ Agreement
    BY DEF FollowsUnlessRaced
  <2>1. ASSUME NEW s \in Side, Settled(s)
        PROVE  (st[s] = "Start" => told[s]) /\ (st[s] # "Start" => tsQueue[s] = 0)
    <3>1. told[s] <=> st[s] = "Start"
      BY <2>1, TwoSides DEF Settled, IInv, ClientTold, BridgeTold
    <3> QED BY <2>1, <3>1 DEF Settled, IInv, Obeyed
  <2>2. ASSUME SignalsSettled, sending[Client], ~Broken
        PROVE  st[Server] = "Start" <=> st[Client] = "Start"
    <3>1. mpc[Client] # "sigStart" /\ tpc # "sigStop" /\ rpc[Server] = "recv"
      BY <2>2 DEF SignalsSettled, Settled, MainBusy, TickerBusy
    <3>2. NoSignal(chan[Client], "SignalStart", "SignalStop")
      BY <2>2 DEF SignalsSettled, Signal, NoSignal
    <3>3. Announces(chan[Client], "SignalStart", "SignalStop", Following, st[Client] = "Start")
      BY <2>2, <3>1 DEF IInv, Announced
    <3> QED BY <3>1, <3>2, <3>3 DEF Announces, Following
  <2> QED BY <2>1, <2>2 DEF ScheduleFollows, Agreement
<1> QED BY <1>1, IInvInit, IInvStep, PTL DEF Spec
=============================================================================
