--------------------------- MODULE TamarawProofs ---------------------------
(***************************************************************************)
(* Proofs about Tamaraw, for every nSeg, every capacity and every amount   *)
(* of data: between two stops the client sends whole trains, the bridge    *)
(* pads when the client does, unless the ticker overwrote a state it had   *)
(* not seen, and each direction is a relay.                                *)
(***************************************************************************)
EXTENDS Tamaraw, QueueProofs

State == {"Start", "Stop", "Ready", "Padding"}
SchedulePC == {"wait", "load", "move", "setStart", "sigStart", "sigStop", "put", "lastPut"}
TickerPC == {"wait", "set", "reset"}
Cell == [type : {"Payload"}, seg : Nat] \cup {Dummy}
Packet == Cell \cup Signal

\* Every variable has its type.
TypeOK ==
  /\ segs \in [Side -> Nat] /\ acc \in [Side -> Nat] /\ buf \in [Side -> Nat]
  /\ \A s \in Side : buf[s] <= acc[s]
  /\ st \in [Side -> State] /\ spc \in [Side -> SchedulePC] /\ cell \in [Side -> Cell]
  /\ tpc \in TickerPC /\ seen \in State
  /\ chan \in [Side -> Seq(Packet)] /\ out \in [Side -> Seq(Nat)]
  /\ cur \in 0..(NSeg - 1) /\ sent \in 0..(NSeg - 1)
  /\ late \in [Side -> 0..2] /\ raced \in BOOLEAN

\* The bridge's scheduler never moves the state and sends no signals.
BridgeFollows ==
  /\ spc[Server] \in {"wait", "load", "put"}
  /\ st[Server] \in {"Start", "Stop"}
  /\ NoSignal(chan[Server], SigStart, SigStop)

\* The client counts a cell when it decides on it, and the history counts it when it is
\* queued: in between the counter is ahead by one.  A train ends at 0.
TrainsCounted ==
  /\ spc[Client] \in {"wait", "load"} => cur = sent
  /\ spc[Client] \in {"move", "setStart", "sigStart", "sigStop", "put"} => cur = (sent + 1) % NSeg
  /\ spc[Client] \in {"sigStop", "lastPut"} => cur = 0

\* Has the scheduler of s decided on sending a dummy?
Decided(s) == spc[s] \notin {"wait", "load"} /\ cell[s] = Dummy

\* In Stop the scheduler decides on no dummy; the one decided on before is all there is.
LastDummy ==
  \A s \in Side : /\ late[s] <= 1
                  /\ st[s] = "Stop" /\ late[s] = 1 => ~Decided(s)

\* The segments of s: so many are with the program at the other end, the next ones in
\* the queue, then the one schedule holds; what follows is still in receiveBuf.
Held(s) == IF spc[s] # "wait" /\ cell[s] # Dummy THEN 1 ELSE 0
Conveyed(s) ==
  /\ out[Peer(s)] = [i \in 1..Len(out[Peer(s)]) |-> i]
  /\ acc[s] - buf[s] - Held(s) >= 0
  /\ Held(s) = 1 => cell[s].seg = acc[s] - buf[s]
  /\ Carries(chan[s], Len(out[Peer(s)]), acc[s] - buf[s] - Held(s))
AllConveyed == \A s \in Side : Conveyed(s)

\* Does the client pad?
ClientPads == st[Client] \in {"Start", "Padding"}

\* Unless the ticker overwrote a state it had not seen, the signals under way bring the
\* bridge to where the client is; a signal not queued yet is that of the client's state.
Announced ==
  /\ spc[Client] = "sigStart" => ClientPads
  /\ spc[Client] = "sigStop" => ~ClientPads
  /\ spc[Client] \notin {"sigStart", "sigStop"} =>
       Announces(chan[Client], SigStart, SigStop, st[Server] = "Start", ClientPads)
AnnouncedUnlessRaced == ~raced => Announced

IInv == /\ TypeOK /\ BridgeFollows /\ TrainsCounted /\ LastDummy /\ AllConveyed
        /\ AnnouncedUnlessRaced

-----------------------------------------------------------------------------
(* Constants and packets.                                                  *)

\* The two ends are each other's peers.
LEMMA PeerType == \A s \in Side : Peer(s) \in Side /\ Peer(s) # s /\ Peer(Peer(s)) = s
  BY DEF Side, Peer, Client, Server

\* The ends are the client and the bridge.
LEMMA TwoSides == /\ Client \in Side /\ Server \in Side /\ Client # Server
                  /\ \A s \in Side : s = Client \/ s = Server
                  /\ Peer(Client) = Server /\ Peer(Server) = Client
  BY DEF Side, Peer, Client, Server

\* The packets of a connection differ in their types.
LEMMA PacketTypes ==
  /\ Numbered(Packet) /\ Cell \subseteq Packet
  /\ Dummy \in Cell /\ Dummy.type # "Payload"
  /\ \A n \in Nat : Payload(n) \in Cell /\ Payload(n) # Dummy /\ Payload(n).seg = n
  /\ SigStart \in Packet /\ SigStart.type # "Payload"
  /\ SigStop \in Packet /\ SigStop.type # "Payload"
  /\ SigStart # SigStop /\ Signal = {SigStart, SigStop}
  /\ \A c \in Cell : /\ c \notin {SigStart, SigStop} /\ c.seg \in Nat
                     /\ c # Dummy <=> c.type = "Payload"
  BY DEF Numbered, Packet, Cell, Signal, Dummy, SigStart, SigStop, Payload

\* A count modulo nSeg is below nSeg.
LEMMA ModNSeg == \A n \in Nat : n % NSeg \in 0..(NSeg - 1)
  BY TamarawAssumption

\* The invariant holds at the start.
LEMMA InitHolds == Init => IInv
<1> SUFFICES ASSUME Init PROVE IInv
  OBVIOUS
<1>1. TypeOK
  <2>1. raced \in BOOLEAN BY Zenon DEF Init
  <2>2. /\ segs \in [Side -> Nat] /\ acc \in [Side -> Nat] /\ buf \in [Side -> Nat]
        /\ \A s \in Side : buf[s] <= acc[s]
        /\ st \in [Side -> State] /\ spc \in [Side -> SchedulePC]
        /\ tpc \in TickerPC /\ seen \in State /\ late \in [Side -> 0..2]
    BY TamarawAssumption DEF Init, State, SchedulePC, TickerPC
  <2>3. cell \in [Side -> Cell] /\ chan \in [Side -> Seq(Packet)] /\ out \in [Side -> Seq(Nat)]
    BY PacketTypes DEF Init
  <2>4. cur \in 0..(NSeg - 1) /\ sent \in 0..(NSeg - 1)
    BY TamarawAssumption DEF Init
  <2> QED BY <2>1, <2>2, <2>3, <2>4 DEF TypeOK
<1>2. BridgeFollows
  BY TwoSides DEF Init, BridgeFollows, NoSignal
<1>3. TrainsCounted /\ LastDummy
  BY TwoSides DEF Init, TrainsCounted, LastDummy, Decided
<1>4. AllConveyed
  <2> SUFFICES ASSUME NEW s \in Side PROVE Conveyed(s)
    BY DEF AllConveyed
  <2>1. chan[s] = <<>> /\ out[Peer(s)] = <<>> /\ acc[s] = 0 /\ buf[s] = 0 /\ spc[s] = "wait"
    BY PeerType DEF Init
  <2>2. Carries(<<>>, 0, 0) BY CarriesEmpty
  <2>3. Held(s) = 0 BY <2>1 DEF Held
  <2> QED BY <2>1, <2>2, <2>3 DEF Conveyed
<1>5. AnnouncedUnlessRaced
  <2>1. chan[Client] = <<>> /\ st[Server] = "Stop" /\ st[Client] = "Stop" /\ spc[Client] = "wait"
    BY TwoSides DEF Init
  <2>2. Announces(<<>>, SigStart, SigStop, st[Server] = "Start", ClientPads)
    BY <2>1 DEF Announces, ClientPads
  <2> QED BY <2>1, <2>2 DEF AnnouncedUnlessRaced, Announced
<1> QED BY <1>1, <1>2, <1>3, <1>4, <1>5 DEF IInv

-----------------------------------------------------------------------------
(* What a step does not touch stays as it is.                              *)

\* A direction whose packets and counts a step leaves alone.
LEMMA ConveyedKept ==
  ASSUME NEW s \in Side, Conveyed(s),
         out'[Peer(s)] = out[Peer(s)], chan'[s] = chan[s],
         acc'[s] - buf'[s] = acc[s] - buf[s],
         spc'[s] # "wait" <=> spc[s] # "wait", cell'[s] = cell[s]
  PROVE  Conveyed(s)'
<1>1. Held(s)' = Held(s) BY DEF Held
<1> QED BY <1>1 DEF Conveyed

\* The announcements under way, when neither queue nor states change sides.
LEMMA AnnouncedKept ==
  ASSUME IInv, chan'[Client] = chan[Client], st'[Server] = st[Server],
         ClientPads' <=> ClientPads, ~raced' => ~raced,
         spc'[Client] = spc[Client] \/ {spc[Client], spc'[Client]} \cap {"sigStart", "sigStop"} = {}
  PROVE  AnnouncedUnlessRaced'
<1> SUFFICES ASSUME ~raced' PROVE Announced'
  BY DEF AnnouncedUnlessRaced
<1>1. Announced BY DEF IInv, AnnouncedUnlessRaced
<1> DEFINE p == ClientPads
           w == st[Server] = "Start"
<1>2. Announces(chan[Client], SigStart, SigStop, w, p)
        <=> Announces(chan[Client], SigStart, SigStop, w', p')
  BY DEF Announces
<1> QED BY <1>1, <1>2 DEF Announced

-----------------------------------------------------------------------------
(* Every step keeps the invariant.                                         *)

\* main moves data from the program to receiveBuf.
LEMMA MainReadHolds ==
  ASSUME IInv, NEW s \in Side, MainRead(s)
  PROVE  IInv'
<1> USE DEF cntVars, mainVars, tickVars
<1>1. PICK k \in 1..2 : acc' = [acc EXCEPT ![s] = @ + k] /\ buf' = [buf EXCEPT ![s] = @ + k]
  BY DEF MainRead
<1>2. UNCHANGED <<segs, st, spc, cell, cur, tpc, seen, chan, out, late, sent, raced>>
  BY DEF MainRead
<1>3. TypeOK' BY <1>1, <1>2 DEF IInv, TypeOK
<1>4. BridgeFollows' /\ TrainsCounted' /\ LastDummy'
  BY <1>2 DEF IInv, BridgeFollows, TrainsCounted, LastDummy, Decided
<1>5. AllConveyed'
  <2> SUFFICES ASSUME NEW t \in Side PROVE Conveyed(t)'
    BY DEF AllConveyed
  <2>1. acc'[t] - buf'[t] = acc[t] - buf[t]
    BY <1>1 DEF IInv, TypeOK
  <2> QED BY <1>2, <2>1, ConveyedKept DEF IInv, AllConveyed
<1>6. AnnouncedUnlessRaced'
  BY <1>2, AnnouncedKept DEF ClientPads
<1> QED BY <1>3, <1>4, <1>5, <1>6 DEF IInv

\* A tick of rho: the next segment of receiveBuf is held, or a dummy.
LEMMA ScheduleTickHolds ==
  ASSUME IInv, NEW s \in Side, ScheduleTick(s)
  PROVE  IInv'
<1> USE DEF cntVars, mainVars, tickVars
<1>1. /\ UNCHANGED <<segs, st, acc, cur, tpc, seen, chan, out, late, sent, raced>>
      /\ spc[s] = "wait" /\ spc' = [spc EXCEPT ![s] = "load"]
  BY DEF ScheduleTick
<1>2. \/ /\ buf[s] > 0 /\ cell' = [cell EXCEPT ![s] = Payload(acc[s] - buf[s] + 1)]
         /\ buf' = [buf EXCEPT ![s] = @ - 1]
      \/ cell' = [cell EXCEPT ![s] = Dummy] /\ buf' = buf
  BY DEF ScheduleTick, IInv, TypeOK
<1>3. acc[s] - buf[s] + 1 \in Nat
  BY DEF IInv, TypeOK
<1>4. TypeOK'
  <2>1. cell' \in [Side -> Cell] BY <1>2, <1>3, PacketTypes DEF IInv, TypeOK
  <2>2. buf' \in [Side -> Nat] /\ \A t \in Side : buf'[t] <= acc[t]
    <3>1. /\ buf \in [Side -> Nat] /\ acc \in [Side -> Nat]
          /\ \A t \in Side : buf[t] \in Nat /\ acc[t] \in Nat /\ buf[t] <= acc[t]
      BY DEF IInv, TypeOK
    <3>2. CASE buf[s] > 0 /\ buf' = [buf EXCEPT ![s] = @ - 1]
      <4>1. buf[s] - 1 \in Nat /\ buf[s] - 1 <= acc[s] BY <3>1, <3>2
      <4> QED BY <3>1, <3>2, <4>1
    <3>3. CASE buf' = buf BY <3>1, <3>3
    <3> QED BY <1>2, <3>2, <3>3
  <2>3. spc' \in [Side -> SchedulePC] BY <1>1 DEF IInv, TypeOK, SchedulePC
  <2> QED BY <1>1, <2>1, <2>2, <2>3 DEF IInv, TypeOK
<1>5. BridgeFollows' /\ TrainsCounted' /\ LastDummy'
  <2>1. \A t \in Side : t # s => spc'[t] = spc[t] /\ cell'[t] = cell[t]
    BY <1>1, <1>2 DEF IInv, TypeOK
  <2>2. spc'[s] = "load"
    BY <1>1 DEF IInv, TypeOK
  <2> QED BY <1>1, <2>1, <2>2, TwoSides DEF IInv, BridgeFollows, TrainsCounted, LastDummy, Decided
<1>6. AllConveyed'
  <2>1. ASSUME NEW t \in Side, t # s PROVE Conveyed(t)'
    <3>1. spc'[t] = spc[t] /\ cell'[t] = cell[t] /\ acc'[t] - buf'[t] = acc[t] - buf[t]
      BY <1>1, <1>2, <2>1 DEF IInv, TypeOK
    <3> QED BY <1>1, <3>1, ConveyedKept DEF IInv, AllConveyed
  <2>2. Conveyed(s)'
    <3>1. Held(s) = 0 /\ spc'[s] = "load"
      BY <1>1 DEF Held, IInv, TypeOK
    <3>2. acc[s] \in Nat /\ buf[s] \in Nat /\ Conveyed(s)
      BY DEF IInv, TypeOK, AllConveyed
    <3>3. CASE cell' = [cell EXCEPT ![s] = Dummy] /\ buf' = buf
      <4>1. Held(s)' = 0
        BY <3>3 DEF Held, IInv, TypeOK
      <4> QED BY <1>1, <3>1, <3>2, <3>3, <4>1 DEF Conveyed
    <3>4. CASE /\ buf[s] > 0 /\ cell' = [cell EXCEPT ![s] = Payload(acc[s] - buf[s] + 1)]
               /\ buf' = [buf EXCEPT ![s] = @ - 1]
      <4>1. cell'[s] = Payload(acc[s] - buf[s] + 1) /\ buf'[s] = buf[s] - 1
        BY <3>4 DEF IInv, TypeOK
      <4>2. Held(s)' = 1 /\ cell'[s].seg = acc[s] - buf[s] + 1
        BY <1>3, <3>1, <4>1, PacketTypes DEF Held
      <4>3. acc[s] - buf'[s] - 1 = acc[s] - buf[s]
        BY <3>2, <4>1
      <4> QED BY <1>1, <3>1, <3>2, <4>1, <4>2, <4>3 DEF Conveyed
    <3> QED BY <1>2, <3>3, <3>4
  <2> QED BY <2>1, <2>2 DEF AllConveyed
<1>7. AnnouncedUnlessRaced'
  <2>1. spc'[Client] = spc[Client] \/ (spc[Client] = "wait" /\ spc'[Client] = "load")
    BY <1>1 DEF IInv, TypeOK
  <2> QED BY <1>1, <2>1, AnnouncedKept DEF ClientPads
<1> QED BY <1>4, <1>5, <1>6, <1>7 DEF IInv

\* The first look at the state: a dummy is dropped or decided on, data always goes on.
LEMMA ScheduleLoadHolds ==
  ASSUME IInv, NEW s \in Side, ScheduleLoad(s)
  PROVE  IInv'
<1> USE DEF cntVars, mainVars, tickVars
<1>1. /\ UNCHANGED <<segs, st, acc, buf, cell, tpc, seen, chan, out, late, sent, raced>>
      /\ spc[s] = "load"
  BY DEF ScheduleLoad
<1> DEFINE dropped == st[s] \in {"Stop", "Ready"} /\ cell[s] = Dummy
<1>2. /\ dropped => spc' = [spc EXCEPT ![s] = "wait"] /\ cur' = cur
      /\ ~dropped => /\ spc' = [spc EXCEPT ![s] = IF s = Client THEN "move" ELSE "put"]
                     /\ cur' = IF s = Client THEN (cur + 1) % NSeg ELSE cur
  BY DEF ScheduleLoad, CountCell
<1> HIDE DEF dropped
<1>3. /\ \A t \in Side : t # s => spc'[t] = spc[t]
      /\ dropped => spc'[s] = "wait"
      /\ ~dropped => spc'[s] = IF s = Client THEN "move" ELSE "put"
  BY <1>2 DEF IInv, TypeOK
<1>4. TypeOK'
  <2>1. spc' \in [Side -> SchedulePC] BY <1>2 DEF IInv, TypeOK, SchedulePC
  <2>2. cur' \in 0..(NSeg - 1)
    <3>1. cur + 1 \in Nat BY TamarawAssumption DEF IInv, TypeOK
    <3> QED BY <1>2, <3>1, ModNSeg DEF IInv, TypeOK
  <2> QED BY <1>1, <2>1, <2>2 DEF IInv, TypeOK
<1>5. BridgeFollows'
  BY <1>1, <1>3, TwoSides DEF IInv, BridgeFollows
<1>6. TrainsCounted'
  BY <1>1, <1>2, <1>3, TwoSides DEF IInv, TrainsCounted
<1>7. LastDummy'
  BY <1>1, <1>3 DEF IInv, LastDummy, Decided, dropped
<1>8. AllConveyed'
  <2>1. ASSUME NEW t \in Side, t # s \/ ~dropped PROVE Conveyed(t)'
    BY <1>1, <1>3, <2>1, ConveyedKept DEF IInv, AllConveyed
  <2>2. ASSUME dropped PROVE Conveyed(s)'
    <3>1. Held(s)' = 0 /\ Held(s) = 0
      BY <1>1, <1>3, <2>2 DEF Held, dropped
    <3> QED BY <1>1, <3>1 DEF IInv, AllConveyed, Conveyed
  <2> QED BY <2>1, <2>2 DEF AllConveyed
<1>9. AnnouncedUnlessRaced'
  <2>1. spc'[Client] = spc[Client] \/ (spc[Client] = "load" /\ spc'[Client] \in {"wait", "move"})
    BY <1>1, <1>3, TwoSides
  <2> QED BY <1>1, <2>1, AnnouncedKept DEF ClientPads
<1> QED BY <1>4, <1>5, <1>6, <1>7, <1>8, <1>9 DEF IInv

\* SetState as the invariant sees it.
LEMMA SetStateHolds ==
  ASSUME IInv, NEW s \in Side, NEW new \in State, SetState(s, new)
  PROVE  /\ st' \in [Side -> State] /\ st'[s] = new
         /\ \A t \in Side : t # s => st'[t] = st[t] /\ late'[t] = late[t]
         /\ late' \in [Side -> 0..2] /\ late'[s] <= 1 /\ (new = "Stop" => late'[s] = 0)
  BY DEF SetState, IInv, TypeOK, LastDummy

\* The client's second look at its state.
LEMMA ScheduleMoveHolds ==
  ASSUME IInv, NEW s \in Side, ScheduleMove(s)
  PROVE  IInv'
<1> USE DEF cntVars, mainVars, tickVars
<1>1. /\ UNCHANGED <<segs, acc, buf, cell, cur, tpc, seen, chan, out, sent, raced>>
      /\ spc[s] = "move"
  BY DEF ScheduleMove
<1>2. s = Client
  BY <1>1, TwoSides DEF IInv, BridgeFollows
<1>3. \/ st[s] = "Stop" /\ SetState(s, "Ready") /\ spc' = [spc EXCEPT ![s] = "put"]
      \/ UNCHANGED <<st, late>> /\ spc' = [spc EXCEPT ![s] = "setStart"]
      \/ /\ st[s] = "Padding" /\ cur = 0 /\ SetState(s, "Stop")
         /\ spc' = [spc EXCEPT ![s] = "sigStop"]
      \/ UNCHANGED <<st, late>> /\ spc' = [spc EXCEPT ![s] = "put"]
  BY DEF ScheduleMove
<1>4. /\ st' \in [Side -> State] /\ late' \in [Side -> 0..2]
      /\ \A t \in Side : t # s => st'[t] = st[t] /\ late'[t] = late[t]
      /\ late'[s] <= 1 /\ (st'[s] = "Stop" /\ late'[s] = 1 => st[s] = "Stop" /\ late[s] = 1)
  <2>1. "Ready" \in State /\ "Stop" \in State BY DEF State
  <2>2. CASE SetState(s, "Ready") BY <2>1, <2>2, SetStateHolds
  <2>3. CASE SetState(s, "Stop") BY <2>1, <2>3, SetStateHolds
  <2>4. CASE UNCHANGED <<st, late>> BY <2>4 DEF IInv, TypeOK, LastDummy
  <2> QED BY <1>3, <2>2, <2>3, <2>4
<1>5. /\ spc' \in [Side -> SchedulePC] /\ \A t \in Side : t # s => spc'[t] = spc[t]
      /\ spc'[s] \in {"put", "setStart", "sigStop"}
      /\ spc'[s] = "sigStop" => cur = 0
  BY <1>3 DEF IInv, TypeOK, SchedulePC
<1>6. TypeOK'
  BY <1>1, <1>4, <1>5 DEF IInv, TypeOK
<1>7. BridgeFollows'
  BY <1>1, <1>2, <1>4, <1>5, TwoSides DEF IInv, BridgeFollows
<1>8. TrainsCounted'
  BY <1>1, <1>2, <1>5 DEF IInv, TrainsCounted
<1>9. LastDummy'
  BY <1>1, <1>4, <1>5 DEF IInv, LastDummy, Decided
<1>10. AllConveyed'
  <2> SUFFICES ASSUME NEW t \in Side PROVE Conveyed(t)'
    BY DEF AllConveyed
  <2> QED BY <1>1, <1>5, ConveyedKept DEF IInv, AllConveyed
<1>11. AnnouncedUnlessRaced'
  <2>0. st'[Server] = st[Server] BY <1>2, <1>4, TwoSides
  <2>1. CASE spc'[Client] # "sigStop"
    <3>1. ClientPads' <=> ClientPads
      BY <1>2, <1>3, <2>1 DEF IInv, TypeOK, ClientPads, SetState
    <3>2. {spc[Client], spc'[Client]} \cap {"sigStart", "sigStop"} = {}
      BY <1>1, <1>2, <1>5, <2>1
    <3> QED BY <1>1, <2>0, <3>1, <3>2, AnnouncedKept
  <2>2. CASE spc'[Client] = "sigStop"
    <3>1. st'[Client] = "Stop"
      BY <1>2, <1>3, <2>2 DEF IInv, TypeOK, SetState
    <3> QED BY <2>2, <3>1 DEF AnnouncedUnlessRaced, Announced, ClientPads
  <2> QED BY <2>1, <2>2
<1> QED BY <1>6, <1>7, <1>8, <1>9, <1>10, <1>11 DEF IInv

\* Ready becomes Start.
LEMMA ScheduleSetStartHolds ==
  ASSUME IInv, NEW s \in Side, ScheduleSetStart(s)
  PROVE  IInv'
<1> USE DEF cntVars, mainVars, tickVars
<1>1. /\ UNCHANGED <<segs, acc, buf, cell, cur, tpc, seen, chan, out, sent, raced>>
      /\ spc[s] = "setStart" /\ spc' = [spc EXCEPT ![s] = "sigStart"] /\ SetState(s, "Start")
  BY DEF ScheduleSetStart
<1>2. s = Client
  BY <1>1, TwoSides DEF IInv, BridgeFollows
<1>3. /\ st' \in [Side -> State] /\ st'[s] = "Start" /\ late' \in [Side -> 0..2] /\ late'[s] <= 1
      /\ \A t \in Side : t # s => st'[t] = st[t] /\ late'[t] = late[t]
  <2>1. "Start" \in State BY DEF State
  <2> QED BY <1>1, <2>1, SetStateHolds
<1>4. /\ spc' \in [Side -> SchedulePC] /\ \A t \in Side : t # s => spc'[t] = spc[t]
      /\ spc'[s] = "sigStart"
  BY <1>1 DEF IInv, TypeOK, SchedulePC
<1>5. TypeOK'
  BY <1>1, <1>3, <1>4 DEF IInv, TypeOK
<1>6. BridgeFollows'
  BY <1>1, <1>2, <1>3, <1>4, TwoSides DEF IInv, BridgeFollows
<1>7. TrainsCounted'
  BY <1>1, <1>2, <1>4 DEF IInv, TrainsCounted
<1>8. LastDummy'
  BY <1>1, <1>3, <1>4 DEF IInv, LastDummy, Decided
<1>9. AllConveyed'
  <2> SUFFICES ASSUME NEW t \in Side PROVE Conveyed(t)'
    BY DEF AllConveyed
  <2> QED BY <1>1, <1>4, ConveyedKept DEF IInv, AllConveyed
<1>10. AnnouncedUnlessRaced'
  BY <1>2, <1>3, <1>4 DEF AnnouncedUnlessRaced, Announced, ClientPads
<1> QED BY <1>5, <1>6, <1>7, <1>8, <1>9, <1>10 DEF IInv

\* What a packet without payload does to the segments under way: nothing.
LEMMA QueueOther ==
  ASSUME IInv, NEW s \in Side, NEW e \in Packet, e.type # "Payload",
         chan' = [chan EXCEPT ![s] = Append(@, e)], UNCHANGED <<acc, buf, out>>,
         \A t \in Side : Held(t)' = Held(t) /\ cell'[t] = cell[t]
  PROVE  chan' \in [Side -> Seq(Packet)] /\ AllConveyed'
<1>1. chan' \in [Side -> Seq(Packet)] BY AppendProperties DEF IInv, TypeOK
<1>2. ASSUME NEW t \in Side PROVE Conveyed(t)'
  <2> DEFINE lo == Len(out[Peer(t)])
             hi == acc[t] - buf[t] - Held(t)
  <2>1. /\ chan[t] \in Seq(Packet) /\ lo \in Nat /\ Conveyed(t)
        /\ acc[t] \in Nat /\ buf[t] \in Nat /\ Held(t) \in {0, 1}
    BY PeerType, LenProperties DEF IInv, TypeOK, AllConveyed, Held
  <2>2. hi \in Nat /\ Carries(chan[t], lo, hi)
    BY <2>1 DEF Conveyed
  <2>3. Carries(chan'[t], lo, hi)
    <3>1. CASE t = s
      <4>1. chan'[s] = Append(chan[s], e) BY DEF IInv, TypeOK
      <4> QED BY <2>1, <2>2, <3>1, <4>1, CarriesSignal
    <3>2. CASE t # s
      <4>1. chan'[t] = chan[t] BY <3>2 DEF IInv, TypeOK
      <4> QED BY <2>2, <4>1
    <3> QED BY <3>1, <3>2
  <2> QED BY <2>1, <2>3 DEF Conveyed
<1> QED BY <1>1, <1>2 DEF AllConveyed

\* The client queues a signal.
LEMMA SignalHolds ==
  ASSUME IInv, NEW s \in Side, ScheduleSigStart(s) \/ ScheduleSigStop(s)
  PROVE  IInv'
<1> USE DEF cntVars, mainVars, tickVars
<1> DEFINE e == IF spc[s] = "sigStart" THEN SigStart ELSE SigStop
<1>1. /\ UNCHANGED <<segs, st, acc, buf, cell, tpc, seen, out, late, sent, raced>>
      /\ Enqueue(s, e)
      /\ \/ spc[s] = "sigStart" /\ spc' = [spc EXCEPT ![s] = "put"] /\ cur' = cur
         \/ spc[s] = "sigStop" /\ spc' = [spc EXCEPT ![s] = "lastPut"] /\ cur' = 0
  BY DEF ScheduleSigStart, ScheduleSigStop
<1>2. s = Client
  BY <1>1, TwoSides DEF IInv, BridgeFollows
<1>3. e \in Packet /\ e.type # "Payload" /\ e \in {SigStart, SigStop}
  BY PacketTypes
<1>4. /\ spc' \in [Side -> SchedulePC] /\ \A t \in Side : t # s => spc'[t] = spc[t]
      /\ spc[s] = "sigStart" => spc'[s] = "put"
      /\ spc[s] = "sigStop" => spc'[s] = "lastPut"
  BY <1>1 DEF IInv, TypeOK, SchedulePC
<1>5. chan' = [chan EXCEPT ![s] = Append(@, e)]
  BY <1>1 DEF Enqueue
<1>6. chan' \in [Side -> Seq(Packet)] /\ AllConveyed'
  <2>1. \A t \in Side : Held(t)' = Held(t)
    BY <1>1, <1>4 DEF Held
  <2> QED BY <1>1, <1>3, <1>5, <2>1, QueueOther
<1>7. chan'[Client] = Append(chan[Client], e) /\ chan'[Server] = chan[Server]
  BY <1>2, <1>5, TwoSides DEF IInv, TypeOK
<1>8. TypeOK'
  BY <1>1, <1>4, <1>6, TamarawAssumption DEF IInv, TypeOK
<1>9. BridgeFollows'
  BY <1>1, <1>2, <1>4, <1>7, TwoSides DEF IInv, BridgeFollows
<1>10. TrainsCounted'
  BY <1>1, <1>2, <1>4 DEF IInv, TrainsCounted
<1>11. LastDummy'
  BY <1>1, <1>4 DEF IInv, LastDummy, Decided
<1>12. AnnouncedUnlessRaced'
  <2> SUFFICES ASSUME ~raced PROVE Announced'
    BY <1>1 DEF AnnouncedUnlessRaced
  <2> DEFINE p == ClientPads
             w == st[Server] = "Start"
  <2>1. p <=> e = SigStart
    BY <1>1, <1>2, PacketTypes DEF IInv, AnnouncedUnlessRaced, Announced
  <2>2. p \in BOOLEAN /\ w \in BOOLEAN /\ chan[Client] \in Seq(Packet)
    BY TwoSides DEF ClientPads, IInv, TypeOK
  <2> HIDE DEF p, w, e
  <2>3. Announces(Append(chan[Client], e), SigStart, SigStop, w, p)
    BY <1>3, <2>1, <2>2, AnnouncesSignal
  <2>4. (p' <=> p) /\ (w' <=> w)
    BY <1>1 DEF p, w, ClientPads
  <2>5. Announces(chan'[Client], SigStart, SigStop, w', p')
    BY <1>7, <2>3, <2>4 DEF Announces
  <2>6. spc'[Client] \notin {"sigStart", "sigStop"}
    BY <1>1, <1>2, <1>4
  <2> QED BY <2>5, <2>6 DEF Announced, p, w
<1> QED BY <1>6, <1>8, <1>9, <1>10, <1>11, <1>12 DEF IInv

\* The cell is queued.
LEMMA SchedulePutHolds ==
  ASSUME IInv, NEW s \in Side, SchedulePut(s)
  PROVE  IInv'
<1> USE DEF cntVars, mainVars, tickVars
<1> DEFINE e == cell[s]
<1>1. /\ UNCHANGED <<segs, st, acc, buf, cell, cur, tpc, seen, out, raced>>
      /\ spc[s] \in {"put", "lastPut"} /\ spc' = [spc EXCEPT ![s] = "wait"]
      /\ chan' = [chan EXCEPT ![s] = Append(@, e)]
      /\ late' = IF e = Dummy /\ st[s] = "Stop" /\ late[s] < 2
                 THEN [late EXCEPT ![s] = @ + 1] ELSE late
  BY DEF SchedulePut, Enqueue
<1>2. /\ s = Server => sent' = sent
      /\ s = Client /\ spc[s] = "lastPut" => sent' = 0
      /\ s = Client /\ spc[s] # "lastPut" => sent' = (sent + 1) % NSeg
  BY TwoSides DEF SchedulePut
<1>3. e \in Cell /\ e \in Packet /\ e \notin {SigStart, SigStop}
  BY PacketTypes DEF IInv, TypeOK
<1>4. /\ spc' \in [Side -> SchedulePC] /\ \A t \in Side : t # s => spc'[t] = spc[t]
      /\ spc'[s] = "wait"
  BY <1>1 DEF IInv, TypeOK, SchedulePC
<1>5. /\ \A t \in Side : t # s => chan'[t] = chan[t]
      /\ chan'[s] = Append(chan[s], e) /\ chan[s] \in Seq(Packet)
  BY <1>1 DEF IInv, TypeOK
<1> HIDE DEF e
<1>6. chan' \in [Side -> Seq(Packet)]
  BY <1>1, <1>3, AppendProperties DEF IInv, TypeOK
<1>7. late' \in [Side -> 0..2] /\ LastDummy'
  <2>1. e = Dummy /\ st[s] = "Stop" => late[s] = 0
    <3>1. late[s] \in 0..2 /\ late[s] <= 1 BY DEF IInv, TypeOK, LastDummy
    <3>2. e = Dummy /\ st[s] = "Stop" => late[s] # 1
      BY <1>1 DEF IInv, LastDummy, Decided, e
    <3> QED BY <3>1, <3>2
  <2>2. late \in [Side -> 0..2] /\ \A t \in Side : late[t] <= 1 /\ late[t] \in 0..2
    BY DEF IInv, TypeOK, LastDummy
  <2>3. /\ late' \in [Side -> 0..2] /\ late'[s] <= 1
        /\ \A t \in Side : t # s => late'[t] = late[t]
    BY <1>1, <2>1, <2>2
  <2>4. ASSUME NEW t \in Side, t # s
        PROVE  st'[t] = "Stop" /\ late'[t] = 1 => ~Decided(t)'
    BY <1>1, <1>4, <2>3, <2>4 DEF IInv, LastDummy, Decided
  <2>5. ~Decided(s)'
    BY <1>4 DEF Decided
  <2> QED BY <2>2, <2>3, <2>4, <2>5 DEF LastDummy
<1>8. sent' \in 0..(NSeg - 1)
  <2>1. sent + 1 \in Nat /\ 0 \in 0..(NSeg - 1) BY TamarawAssumption DEF IInv, TypeOK
  <2> QED BY <1>2, <2>1, ModNSeg, TwoSides DEF IInv, TypeOK
<1>9. TypeOK'
  BY <1>1, <1>4, <1>6, <1>7, <1>8 DEF IInv, TypeOK
<1>10. BridgeFollows'
  <2>1. NoSignal(chan'[Server], SigStart, SigStop)
    <3>1. CASE s = Server
      <4>1. NoSignal(chan[s], SigStart, SigStop)
        BY <3>1 DEF IInv, BridgeFollows
      <4>2. NoSignal(Append(chan[s], e), SigStart, SigStop)
        BY <1>3, <1>5, <4>1, NoSignalAppend
      <4> QED BY <1>5, <3>1, <4>2
    <3>2. CASE s # Server
      BY <1>5, <3>2, TwoSides DEF IInv, BridgeFollows
    <3> QED BY <3>1, <3>2
  <2> QED BY <1>1, <1>4, <2>1, TwoSides DEF IInv, BridgeFollows
<1>11. TrainsCounted'
  BY <1>1, <1>2, <1>4, TwoSides DEF IInv, TrainsCounted
<1>12. AllConveyed'
  <2>1. CASE e = Dummy
    <3>1. \A t \in Side : Held(t)' = Held(t)
      BY <1>1, <1>4, <2>1 DEF Held, e
    <3> QED BY <1>1, <1>3, <2>1, <3>1, PacketTypes, QueueOther
  <2>2. CASE e # Dummy
    <3>1. ASSUME NEW t \in Side, t # s PROVE Conveyed(t)'
      BY <1>1, <1>4, <1>5, <3>1, ConveyedKept DEF IInv, AllConveyed
    <3>2. Conveyed(s)'
      <4> DEFINE lo == Len(out[Peer(s)])
                 hi == acc[s] - buf[s] - 1
      <4>1. Held(s) = 1 /\ Held(s)' = 0
        BY <1>1, <1>4, <2>2 DEF Held, e
      <4>2. lo \in Nat /\ acc[s] \in Nat /\ buf[s] \in Nat
        BY PeerType, LenProperties DEF IInv, TypeOK
      <4>3. /\ hi \in Nat /\ Carries(chan[s], lo, hi) /\ e.seg = acc[s] - buf[s]
            /\ out[Peer(s)] = [i \in 1..lo |-> i]
        BY <4>1, <4>2 DEF IInv, AllConveyed, Conveyed, e
      <4>4. e.seg = hi + 1 /\ e.type = "Payload"
        BY <1>3, <2>2, <4>2, <4>3, PacketTypes
      <4>5. Carries(Append(chan[s], e), lo, hi + 1)
        BY <1>3, <1>5, <4>2, <4>3, <4>4, PacketTypes, CarriesNext
      <4>6. hi + 1 = acc[s] - buf[s] - 0 BY <4>2
      <4> QED BY <1>1, <1>5, <4>1, <4>2, <4>3, <4>5, <4>6 DEF Conveyed
    <3> QED BY <3>1, <3>2 DEF AllConveyed
  <2> QED BY <2>1, <2>2
<1>13. AnnouncedUnlessRaced'
  <2>1. CASE s # Client
    <3>1. chan'[Client] = chan[Client] /\ spc'[Client] = spc[Client]
      BY <1>4, <1>5, <2>1, TwoSides
    <3> QED BY <1>1, <3>1, AnnouncedKept DEF ClientPads
  <2>2. CASE s = Client
    <3> SUFFICES ASSUME ~raced PROVE Announced'
      BY <1>1 DEF AnnouncedUnlessRaced
    <3> DEFINE p == ClientPads
               w == st[Server] = "Start"
    <3>1. Announces(chan[Client], SigStart, SigStop, w, p)
      BY <1>1, <2>2 DEF IInv, AnnouncedUnlessRaced, Announced
    <3>2. p \in BOOLEAN /\ w \in BOOLEAN
      BY DEF ClientPads
    <3> HIDE DEF p, w
    <3>3. Announces(Append(chan[Client], e), SigStart, SigStop, w, p)
      BY <1>3, <1>5, <2>2, <3>1, <3>2, AnnouncesOther
    <3>4. (p' <=> p) /\ (w' <=> w)
      BY <1>1 DEF p, w, ClientPads
    <3>5. Announces(chan'[Client], SigStart, SigStop, w', p')
      BY <1>5, <2>2, <3>3, <3>4 DEF Announces
    <3> QED BY <1>4, <2>2, <3>5 DEF Announced, p, w
  <2> QED BY <2>1, <2>2
<1> QED BY <1>7, <1>9, <1>10, <1>11, <1>12, <1>13 DEF IInv

\* The client's ticker: a move by a state it saw keeps the bridge right, a move by a
\* state that has changed since is a race.
LEMMA TickerHolds ==
  ASSUME IInv, TickerStep
  PROVE  IInv'
<1> USE DEF cntVars, mainVars, tickVars
<1>1. UNCHANGED <<segs, acc, buf, spc, cell, cur, chan, out, sent>>
  BY DEF TickerStep, TickerTick, TickerSet, TickerReset
<1>2. \/ UNCHANGED <<st, late, raced>>
      \/ /\ raced' = (raced \/ st[Client] # seen)
         /\ seen = "Ready" /\ SetState(Client, "Stop")
      \/ /\ raced' = (raced \/ st[Client] # seen)
         /\ seen = "Start" /\ SetState(Client, "Padding")
  <2>1. CASE TickerTick \/ TickerReset BY <2>1 DEF TickerTick, TickerReset
  <2>2. CASE TickerSet
    <3>1. CASE seen = "Padding"
      <4>1. raced \in BOOLEAN BY DEF IInv, TypeOK
      <4>2. raced' = raced BY <2>2, <3>1, <4>1 DEF TickerSet
      <4> QED BY <2>2, <3>1, <4>2 DEF TickerSet
    <3>2. CASE seen # "Padding"
      BY <2>2, <3>2 DEF TickerSet
    <3> QED BY <3>1, <3>2
  <2> QED BY <2>1, <2>2 DEF TickerStep
<1>3. tpc' \in TickerPC /\ seen' \in State
  BY TwoSides DEF TickerStep, TickerTick, TickerSet, TickerReset, IInv, TypeOK, TickerPC
<1>4. /\ st' \in [Side -> State] /\ late' \in [Side -> 0..2]
      /\ st'[Server] = st[Server] /\ late'[Server] = late[Server]
      /\ late'[Client] <= 1
      /\ st'[Client] = "Stop" /\ late'[Client] = 1 => st[Client] = "Stop" /\ late[Client] = 1
  <2>1. "Padding" \in State /\ "Stop" \in State BY DEF State
  <2>2. CASE SetState(Client, "Padding") BY <2>1, <2>2, SetStateHolds, TwoSides
  <2>3. CASE SetState(Client, "Stop") BY <2>1, <2>3, SetStateHolds, TwoSides
  <2>4. CASE UNCHANGED <<st, late>> BY <2>4, TwoSides DEF IInv, TypeOK, LastDummy
  <2> QED BY <1>2, <2>2, <2>3, <2>4
<1>5. raced' \in BOOLEAN
  BY <1>2, Zenon DEF IInv, TypeOK
<1>6. TypeOK'
  BY <1>1, <1>3, <1>4, <1>5 DEF IInv, TypeOK
<1>7. BridgeFollows' /\ TrainsCounted'
  BY <1>1, <1>4 DEF IInv, BridgeFollows, TrainsCounted
<1>8. LastDummy'
  BY <1>1, <1>4, TwoSides DEF IInv, LastDummy, Decided
<1>9. AllConveyed'
  <2> SUFFICES ASSUME NEW t \in Side PROVE Conveyed(t)'
    BY DEF AllConveyed
  <2> QED BY <1>1, ConveyedKept DEF IInv, AllConveyed
<1>10. AnnouncedUnlessRaced'
  <2> SUFFICES ASSUME ~raced' PROVE AnnouncedUnlessRaced'
    BY DEF AnnouncedUnlessRaced
  <2>1. ~raced /\ (ClientPads' <=> ClientPads)
    BY <1>2, TwoSides DEF IInv, TypeOK, ClientPads, SetState
  <2> QED BY <1>1, <1>4, <2>1, AnnouncedKept
<1> QED BY <1>6, <1>7, <1>8, <1>9, <1>10 DEF IInv

\* The next packet of the peer is taken: payload goes to the program, the bridge follows
\* a signal.
LEMMA ReceiveHolds ==
  ASSUME IInv, NEW s \in Side, Receive(s)
  PROVE  IInv'
<1> USE DEF cntVars, mainVars, tickVars
<1> DEFINE q == chan[Peer(s)]
           p == Head(q)
<1>1. /\ UNCHANGED <<segs, acc, buf, spc, cell, cur, tpc, seen, sent, raced>>
      /\ q # <<>> /\ chan' = [chan EXCEPT ![Peer(s)] = Tail(@)]
      /\ out' = IF p.type = "Payload" THEN [out EXCEPT ![s] = Append(@, p.seg)] ELSE out
  BY DEF Receive
<1>2. /\ p = SigStart /\ st[s] # "Start" => SetState(s, "Start")
      /\ p = SigStop /\ st[s] # "Stop" => SetState(s, "Stop")
      /\ p = SigStart /\ st[s] = "Start" => UNCHANGED <<st, late>>
      /\ p = SigStop /\ st[s] = "Stop" => UNCHANGED <<st, late>>
      /\ p \notin {SigStart, SigStop} => UNCHANGED <<st, late>>
  BY PacketTypes DEF Receive
<1>3. Peer(s) \in Side /\ Peer(s) # s /\ Peer(Peer(s)) = s
  BY PeerType
<1>4. /\ q \in Seq(Packet) /\ p \in Packet /\ Tail(q) \in Seq(Packet) /\ p.seg \in Nat
      /\ chan' \in [Side -> Seq(Packet)] /\ chan'[Peer(s)] = Tail(q) /\ chan'[s] = chan[s]
  <2>1. q \in Seq(Packet) BY <1>3 DEF IInv, TypeOK
  <2>2. p \in Packet /\ Tail(q) \in Seq(Packet) BY <1>1, <2>1, HeadTailTypes
  <2> QED BY <1>1, <1>3, <2>1, <2>2, PacketTypes DEF IInv, TypeOK, Numbered
<1>5. /\ out' \in [Side -> Seq(Nat)] /\ out'[Peer(s)] = out[Peer(s)]
      /\ p.type = "Payload" => out'[s] = Append(out[s], p.seg)
      /\ p.type # "Payload" => out'[s] = out[s]
  BY <1>1, <1>3, <1>4, AppendProperties DEF IInv, TypeOK
<1> HIDE DEF p, q
<1>6. s = Client => p \notin {SigStart, SigStop} /\ NoSignal(Tail(q), SigStart, SigStop)
  BY <1>1, <1>4, NoSignalTaken, TwoSides DEF IInv, BridgeFollows, p, q
<1>7. /\ st' \in [Side -> State] /\ late' \in [Side -> 0..2] /\ late'[s] <= 1
      /\ st'[Peer(s)] = st[Peer(s)] /\ late'[Peer(s)] = late[Peer(s)]
      /\ st'[s] = "Stop" /\ late'[s] = 1 => st[s] = "Stop" /\ late[s] = 1
      /\ p = SigStart => st'[s] = "Start"
      /\ p = SigStop => st'[s] = "Stop"
      /\ p \notin {SigStart, SigStop} => st'[s] = st[s]
  <2>1. "Start" \in State /\ "Stop" \in State BY DEF State
  <2>2. CASE SetState(s, "Start") /\ p = SigStart
    BY <1>3, <2>1, <2>2, SetStateHolds, PacketTypes
  <2>3. CASE SetState(s, "Stop") /\ p = SigStop
    BY <1>3, <2>1, <2>3, SetStateHolds, PacketTypes
  <2>4. CASE UNCHANGED <<st, late>>
    BY <1>2, <1>3, <2>4, PacketTypes DEF IInv, TypeOK, LastDummy, SetState
  <2> QED BY <1>2, <2>2, <2>3, <2>4
<1>8. TypeOK'
  BY <1>1, <1>4, <1>5, <1>7 DEF IInv, TypeOK
<1>9. BridgeFollows'
  <2>1. CASE s = Client
    BY <1>1, <1>4, <1>6, <1>7, <2>1, TwoSides DEF IInv, BridgeFollows
  <2>2. CASE s = Server
    BY <1>1, <1>4, <1>7, <2>2, PacketTypes DEF IInv, BridgeFollows
  <2> QED BY <2>1, <2>2, TwoSides
<1>10. TrainsCounted'
  BY <1>1 DEF IInv, TrainsCounted
<1>11. LastDummy'
  BY <1>1, <1>3, <1>7, TwoSides DEF IInv, LastDummy, Decided
<1>12. AllConveyed'
  <2> DEFINE t == Peer(s)
  <2>1. Conveyed(s)'
    BY <1>1, <1>3, <1>4, <1>5, ConveyedKept DEF IInv, AllConveyed
  <2>2. Conveyed(t)'
    <3> DEFINE o == out[s]
               hi == acc[t] - buf[t] - Held(t)
    <3>1. /\ Conveyed(t) /\ o \in Seq(Nat) /\ Len(o) \in Nat /\ hi \in Nat
          /\ o = [i \in 1..Len(o) |-> i] /\ Carries(q, Len(o), hi)
      <4>1. Conveyed(t) /\ o \in Seq(Nat) /\ acc[t] \in Nat /\ buf[t] \in Nat /\ Held(t) \in {0, 1}
        BY <1>3 DEF IInv, TypeOK, AllConveyed, Held
      <4> QED BY <1>3, <4>1, LenProperties DEF Conveyed, q
    <3>2. Held(t)' = Held(t) /\ cell'[t] = cell[t] BY <1>1 DEF Held
    <3> HIDE DEF t, o, hi
    <3>3. CASE p.type # "Payload"
      <4>1. Carries(Tail(q), Len(o), hi)
        BY <1>1, <1>4, <3>1, <3>3, CarriesSkip DEF p
      <4> QED BY <1>1, <1>3, <1>4, <1>5, <3>1, <3>2, <3>3, <4>1 DEF Conveyed, t, o, hi
    <3>4. CASE p.type = "Payload"
      <4>1. p.seg = Len(o) + 1 /\ Carries(Tail(q), Len(o) + 1, hi)
        BY <1>1, <1>4, <3>1, <3>4, CarriesHead, PacketTypes DEF p
      <4>2. /\ Append(o, p.seg) \in Seq(Nat) /\ Len(Append(o, p.seg)) = Len(o) + 1
            /\ Append(o, p.seg) = [i \in 1..(Len(o) + 1) |-> i]
        BY <1>4, <3>1, <4>1, AppendProperties
      <4> QED BY <1>1, <1>3, <1>4, <1>5, <3>1, <3>2, <3>4, <4>1, <4>2 DEF Conveyed, t, o, hi
    <3> QED BY <3>3, <3>4
  <2> QED BY <1>3, <2>1, <2>2, TwoSides DEF AllConveyed
<1>13. AnnouncedUnlessRaced'
  <2>1. CASE s = Client
    <3>1. ClientPads' <=> ClientPads BY <1>6, <1>7, <2>1 DEF ClientPads
    <3> QED BY <1>1, <1>4, <1>7, <2>1, <3>1, AnnouncedKept, TwoSides
  <2>2. CASE s = Server
    <3> SUFFICES ASSUME ~raced, spc[Client] \notin {"sigStart", "sigStop"} PROVE Announced'
      <4>1. ClientPads' <=> ClientPads BY <1>7, <2>2, TwoSides DEF ClientPads
      <4> QED BY <1>1, <4>1 DEF IInv, AnnouncedUnlessRaced, Announced
    <3> DEFINE pads == ClientPads
               w == st[Server] = "Start"
               next == st'[Server] = "Start"
    <3>1. Announces(q, SigStart, SigStop, w, pads)
      BY <2>2, TwoSides DEF IInv, AnnouncedUnlessRaced, Announced, q
    <3>2. /\ pads \in BOOLEAN /\ w \in BOOLEAN /\ next \in BOOLEAN
          /\ p \in {SigStart, SigStop} => (next <=> p = SigStart)
          /\ p \notin {SigStart, SigStop} => (next <=> w)
      BY <1>7, <2>2, PacketTypes DEF ClientPads
    <3>3. pads' <=> pads
      BY <1>7, <2>2, TwoSides DEF ClientPads
    <3> HIDE DEF pads, w, next
    <3>4. Announces(Tail(q), SigStart, SigStop, next, pads)
      BY <1>1, <1>4, <3>1, <3>2, AnnouncesTaken DEF p
    <3>5. Announces(chan'[Client], SigStart, SigStop, next, pads')
      BY <1>4, <2>2, <3>3, <3>4, TwoSides DEF Announces
    <3> QED BY <1>1, <3>5 DEF Announced, pads, next
  <2> QED BY <2>1, <2>2, TwoSides
<1> QED BY <1>8, <1>9, <1>10, <1>11, <1>12, <1>13 DEF IInv

\* Every step keeps the invariant.
LEMMA NextHolds == IInv /\ [Next]_vars => IInv'
<1> SUFFICES ASSUME IInv, [Next]_vars PROVE IInv'
  OBVIOUS
<1>1. ASSUME NEW s \in Side, MainRead(s) \/ ScheduleStep(s) \/ Receive(s) PROVE IInv'
  BY <1>1, MainReadHolds, ScheduleTickHolds, ScheduleLoadHolds, ScheduleMoveHolds,
     ScheduleSetStartHolds, SignalHolds, SchedulePutHolds, ReceiveHolds DEF ScheduleStep
<1>2. CASE TickerStep BY <1>2, TickerHolds
<1>3. CASE UNCHANGED vars
  <2> USE <1>3 DEF vars
  <2>1. TypeOK' BY DEF IInv, TypeOK
  <2>2. BridgeFollows' /\ TrainsCounted' /\ LastDummy'
    BY DEF IInv, BridgeFollows, TrainsCounted, LastDummy, Decided
  <2>3. AllConveyed' BY ConveyedKept DEF IInv, AllConveyed
  <2>4. AnnouncedUnlessRaced' BY AnnouncedKept DEF ClientPads
  <2> QED BY <2>1, <2>2, <2>3, <2>4 DEF IInv
<1> QED BY <1>1, <1>2, <1>3 DEF Next

\* The invariant holds in every reachable state.
LEMMA IInvAlways == Spec => []IInv
  BY InitHolds, NextHolds, PTL DEF Spec

-----------------------------------------------------------------------------
(* The theorems.                                                           *)

\* For every nSeg and however the ticker and the signals interleave with it, the client's
\* schedule ends a train only when it has sent a whole number of nSeg cells, and at either
\* end at most one dummy follows a stop (tamaraw.go, ReadFrom).
THEOREM TrainsWhole == Spec => []WholeTrains
<1>1. IInv => WholeTrains
  BY DEF IInv, TrainsCounted, LastDummy, WholeTrains
<1> QED BY <1>1, IInvAlways, PTL

\* Unless the ticker overwrites a state it has not seen, the bridge pads exactly when the
\* client does once the signals have arrived (tamaraw.go, ReadFrom and packet.go).
THEOREM BridgeAgrees == Spec => []AgreementUnlessRaced
<1>1. IInv => AgreementUnlessRaced
  <2> SUFFICES ASSUME IInv, ~raced, SignalsSettled
               PROVE  st[Server] = "Start" <=> st[Client] \in {"Start", "Padding"}
    BY DEF AgreementUnlessRaced, Agreement
  <2>1. NoSignal(chan[Client], SigStart, SigStop)
    BY PacketTypes DEF SignalsSettled, NoSignal
  <2>2. Announces(chan[Client], SigStart, SigStop, st[Server] = "Start", ClientPads)
    BY DEF IInv, AnnouncedUnlessRaced, Announced, SignalsSettled
  <2> QED BY <2>1, <2>2 DEF Announces, ClientPads
<1> QED BY <1>1, IInvAlways, PTL

\* A read from the local program is an Accept of the relay.
LEMMA ReadAccepts ==
  ASSUME IInv, NEW s \in Side, MainRead(s)
  PROVE  Abstract!Next
<1>1. PICK k \in 1..2 : acc' = [acc EXCEPT ![s] = @ + k]
  BY DEF MainRead
<1>2. acc \in [Side -> Nat] BY DEF IInv, TypeOK
<1>3. acc'[s] = acc[s] + k BY <1>1, <1>2
<1>4. out' = out BY DEF MainRead
<1>5. Abstract!Accept(s)
  BY <1>1, <1>2, <1>3, <1>4 DEF Abstract!Accept
<1> QED BY <1>5 DEF Abstract!Next

\* A payload packet received is a Deliver of the relay.
LEMMA ReceiveDelivers ==
  ASSUME IInv, NEW s \in Side, Receive(s), Head(chan[Peer(s)]).type = "Payload"
  PROVE  Abstract!Next
<1> DEFINE t == Peer(s)
           q == chan[t]
           o == out[s]
           hi == acc[t] - buf[t] - Held(t)
<1>0. t \in Side /\ Peer(t) = s BY PeerType
<1>1. /\ q # <<>> /\ acc' = acc
      /\ out' = [out EXCEPT ![s] = Append(@, Head(q).seg)]
  BY DEF Receive, mainVars
<1>2. /\ Conveyed(t) /\ q \in Seq(Packet) /\ o \in Seq(Nat)
      /\ acc[t] \in Nat /\ buf[t] \in Nat /\ Held(t) \in {0, 1}
  BY <1>0 DEF IInv, TypeOK, AllConveyed, Held
<1>3. /\ Len(o) \in Nat /\ hi \in Nat /\ Carries(q, Len(o), hi)
  BY <1>0, <1>2, LenProperties DEF Conveyed
<1>4. hi <= acc[t] BY <1>2
<1> HIDE DEF hi
<1>5. Head(q).seg = Len(o) + 1 /\ Len(o) + 1 <= hi
  BY <1>1, <1>2, <1>3, CarriesHead, PacketTypes
<1>6. Append(o, Len(o) + 1) = o \o Abstract!Following(o, 1)
  <2>1. Abstract!Following(o, 1) = <<Len(o) + 1>>
    BY DEF Abstract!Following
  <2>2. Len(o) + 1 \in Nat BY <1>3
  <2>3. Append(o, Len(o) + 1) = o \o <<Len(o) + 1>>
    BY <1>2, <2>2, AppendIsConcat
  <2> QED BY <2>1, <2>3
<1>7. out' = [out EXCEPT ![s] = @ \o Abstract!Following(@, 1)]
  BY <1>1, <1>5, <1>6
<1>8. 1 \in 1..(acc[t] - Len(o))
  BY <1>2, <1>3, <1>4, <1>5
<1>9. Abstract!Deliver(s)
  BY <1>1, <1>7, <1>8 DEF Abstract!Deliver
<1> QED BY <1>9 DEF Abstract!Next

\* For every nSeg, capacity and amount of data, a connection padded by Tamaraw is a relay:
\* the scheduler, which mixes data with dummies and moves the state in between, reorders,
\* repeats and loses nothing (tamaraw.go, ReadFrom; packet.go).
THEOREM RefinesRelay == Spec => ImplementsRelay
<1>1. Init => Abstract!Init
  BY DEF Init, Abstract!Init
<1>2. IInv /\ [Next]_vars => [Abstract!Next]_(Abstract!relayVars)
  <2> SUFFICES ASSUME IInv, [Next]_vars PROVE Abstract!Next \/ UNCHANGED <<acc, out>>
    BY DEF Abstract!relayVars
  <2>1. ASSUME NEW s \in Side, MainRead(s) PROVE Abstract!Next
    BY <2>1, ReadAccepts
  <2>2. ASSUME NEW s \in Side, ScheduleStep(s) PROVE UNCHANGED <<acc, out>>
    BY <2>2 DEF ScheduleStep, ScheduleTick, ScheduleLoad, ScheduleMove, ScheduleSetStart,
       ScheduleSigStart, ScheduleSigStop, SchedulePut, mainVars
  <2>3. ASSUME NEW s \in Side, Receive(s) PROVE Abstract!Next \/ UNCHANGED <<acc, out>>
    <3>1. CASE Head(chan[Peer(s)]).type = "Payload" BY <2>3, <3>1, ReceiveDelivers
    <3>2. CASE Head(chan[Peer(s)]).type # "Payload" BY <2>3, <3>2 DEF Receive, mainVars
    <3> QED BY <3>1, <3>2
  <2>4. CASE TickerStep \/ UNCHANGED vars
    BY <2>4 DEF TickerStep, TickerTick, TickerSet, TickerReset, mainVars, vars
  <2> QED BY <2>1, <2>2, <2>3, <2>4 DEF Next
<1> QED BY <1>1, <1>2, IInvAlways, PTL DEF Spec, ImplementsRelay, Abstract!Spec
=============================================================================
