------------------------------ MODULE Tamaraw ------------------------------
(***************************************************************************)
(* The Tamaraw defence (transports/tamaraw): both ends of a connection     *)
(* that stays up.  At each end ReadFrom is                                 *)
(*                                                                         *)
(*   main      which moves data from the local program to receiveBuf;      *)
(*   schedule  which every rho sends one cell, a payload cell if there is  *)
(*             data and a dummy cell if there is none, and at the client   *)
(*             runs the state machine Stop -> Ready -> Start and           *)
(*             Padding -> Stop with their signals;                         *)
(*   ticker    which every TWindow moves a client that saw little traffic  *)
(*             Ready -> Stop or Start -> Padding.                          *)
(*                                                                         *)
(* SendChan, Send, the network and the peer's ReceiveBuffer are one queue  *)
(* per direction: that they neither lose nor reorder packets while the     *)
(* connection is up is DefConn's NoLossInside, and reading and sending are *)
(* the code of DefConn.  How a connection ends is modelled there.          *)
(*                                                                         *)
(* curNSeg is kept modulo nSeg, as it is only ever compared modulo nSeg.   *)
(* The bridge's curNSeg and throughput counters are never read and left    *)
(* out, and so is its ticker, which only resets the latter.                *)
(***************************************************************************)
EXTENDS Integers, Sequences

CONSTANTS NSeg,     \* nSeg
          ChanCap,  \* packets that fit between the two ends
          Workload  \* bounds: how many segments the two programs send

Client == "client"
Server == "server"
Side == {Client, Server}
Peer(s) == IF s = Client THEN Server ELSE Client

ASSUME TamarawAssumption ==
  NSeg \in Nat \ {0} /\ ChanCap \in Nat \ {0} /\ Workload \subseteq [Side -> Nat]

VARIABLES
  segs,    \* segs[s] segments are read from the program at s, fixed from the start
  st,      \* ConnState.curState
  nsent,   \* the client's nRealSegSent, up to LowMark
  nrcv,    \* the client's nRealSegRcv, up to LowMark
  acc,     \* segments main has read from the local program
  buf,     \* segments in receiveBuf
  spc,     \* where schedule stands
  cell,    \* the cell schedule is about to queue
  cur,     \* the client's curNSeg modulo nSeg
  tpc,     \* where the client's ticker stands
  seen,    \* the state the ticker loaded
  chan,    \* chan[s]: packets s queued that its peer has not processed
  out,     \* log of the segments handed to the local program
  late,    \* history: dummy cells queued in Stop since the state became Stop, up to 2
  sent,    \* history: cells the client queued since its last stop, modulo nSeg
  raced    \* history: did the ticker overwrite a state it had not seen?

vars == <<segs, st, nsent, nrcv, acc, buf, spc, cell, cur, tpc, seen, chan, out, late, sent,
          raced>>
cntVars == <<nsent, nrcv>>
mainVars == <<segs, acc, buf>>
tickVars == <<tpc, seen>>

\* States are "Start", "Stop", "Ready" and "Padding".

LowMark == 2
Count(n) == IF n < LowMark THEN n + 1 ELSE n

Payload(n) == [type |-> "Payload", seg |-> n]
Dummy == [type |-> "Dummy", seg |-> 0]
SigStart == [type |-> "SignalStart", seg |-> 0]
SigStop == [type |-> "SignalStop", seg |-> 0]
Signal == {SigStart, SigStop}

Init ==
  /\ segs \in Workload
  /\ st = [s \in Side |-> "Stop"]
  /\ nsent = 0 /\ nrcv = 0
  /\ acc = [s \in Side |-> 0] /\ buf = [s \in Side |-> 0]
  /\ spc = [s \in Side |-> "wait"] /\ cell = [s \in Side |-> Dummy]
  /\ cur = 0
  /\ tpc = "wait" /\ seen = "Stop"
  /\ chan = [s \in Side |-> <<>>] /\ out = [s \in Side |-> <<>>]
  /\ late = [s \in Side |-> 0] /\ sent = 0 /\ raced = FALSE

\* SetState.
SetState(s, new) ==
  /\ st' = [st EXCEPT ![s] = new]
  /\ late' = IF new = "Stop" THEN [late EXCEPT ![s] = 0] ELSE late

\* A send on SendChan.
Enqueue(s, p) == Len(chan[s]) < ChanCap /\ chan' = [chan EXCEPT ![s] = Append(@, p)]

-----------------------------------------------------------------------------
(* main.                                                                   *)

MainRead(s) ==
  /\ \E k \in 1..2 :
       /\ acc[s] + k <= segs[s]
       /\ acc' = [acc EXCEPT ![s] = @ + k]
       /\ buf' = [buf EXCEPT ![s] = @ + k]
  /\ UNCHANGED <<segs, st, cntVars, spc, cell, cur, tickVars, chan, out, late, sent, raced>>

-----------------------------------------------------------------------------
(* schedule.                                                               *)

\* A bug: the data is sent but stays in receiveBuf.
ScheduleTickKeeps(s) ==
  /\ spc[s] = "wait"
  /\ IF buf[s] > 0
     THEN cell' = [cell EXCEPT ![s] = Payload(acc[s] - buf[s] + 1)]
     ELSE cell' = [cell EXCEPT ![s] = Dummy]
  /\ spc' = [spc EXCEPT ![s] = "load"]
  /\ UNCHANGED <<st, cntVars, mainVars, cur, tickVars, chan, out, late, sent, raced>>

\* A tick of rho: take the next segment of receiveBuf, or make a dummy.
ScheduleTick(s) ==
  /\ spc[s] = "wait"
  /\ IF buf[s] > 0
     THEN /\ cell' = [cell EXCEPT ![s] = Payload(acc[s] - buf[s] + 1)]
          /\ buf' = [buf EXCEPT ![s] = @ - 1]
          /\ nsent' = IF s = Client THEN Count(nsent) ELSE nsent
     ELSE /\ cell' = [cell EXCEPT ![s] = Dummy]
          /\ UNCHANGED <<buf, nsent>>
  /\ spc' = [spc EXCEPT ![s] = "load"]
  /\ UNCHANGED <<segs, st, nrcv, acc, cur, tickVars, chan, out, late, sent, raced>>

\* Count one more cell.
CountCell(s) == cur' = IF s = Client THEN (cur + 1) % NSeg ELSE cur

\* A bug: the cell is counted before it is known to be sent.
ScheduleLoadCounts(s) ==
  /\ spc[s] = "load"
  /\ CountCell(s)
  /\ IF st[s] \in {"Stop", "Ready"} /\ cell[s] = Dummy
     THEN spc' = [spc EXCEPT ![s] = "wait"]
     ELSE spc' = [spc EXCEPT ![s] = IF s = Client THEN "move" ELSE "put"]
  /\ UNCHANGED <<st, cntVars, mainVars, cell, tickVars, chan, out, late, sent, raced>>

\* A bug: only payload cells are counted.
ScheduleLoadReal(s) ==
  /\ spc[s] = "load"
  /\ IF st[s] \in {"Stop", "Ready"} /\ cell[s] = Dummy
     THEN spc' = [spc EXCEPT ![s] = "wait"] /\ UNCHANGED cur
     ELSE /\ spc' = [spc EXCEPT ![s] = IF s = Client THEN "move" ELSE "put"]
          /\ IF cell[s] = Dummy THEN UNCHANGED cur ELSE CountCell(s)
  /\ UNCHANGED <<st, cntVars, mainVars, cell, tickVars, chan, out, late, sent, raced>>

\* A bug: outside Start and Padding data is dropped like a dummy.
ScheduleLoadSkips(s) ==
  /\ spc[s] = "load"
  /\ IF st[s] \in {"Stop", "Ready"}
     THEN spc' = [spc EXCEPT ![s] = "wait"] /\ UNCHANGED cur
     ELSE spc' = [spc EXCEPT ![s] = IF s = Client THEN "move" ELSE "put"] /\ CountCell(s)
  /\ UNCHANGED <<st, cntVars, mainVars, cell, tickVars, chan, out, late, sent, raced>>

\* The first look at the state: outside Start and Padding no dummy is sent.
ScheduleLoad(s) ==
  /\ spc[s] = "load"
  /\ IF st[s] \in {"Stop", "Ready"} /\ cell[s] = Dummy
     THEN spc' = [spc EXCEPT ![s] = "wait"] /\ UNCHANGED cur
     ELSE spc' = [spc EXCEPT ![s] = IF s = Client THEN "move" ELSE "put"] /\ CountCell(s)
  /\ UNCHANGED <<st, cntVars, mainVars, cell, tickVars, chan, out, late, sent, raced>>

\* A bug: the end of padding is not announced.
ScheduleMoveSilent(s) ==
  /\ spc[s] = "move"
  /\ \/ /\ st[s] = "Stop" /\ cell[s] # Dummy
        /\ SetState(s, "Ready")
        /\ spc' = [spc EXCEPT ![s] = "put"]
     \/ /\ st[s] = "Ready" /\ cell[s] # Dummy
        /\ spc' = [spc EXCEPT ![s] = "setStart"]
        /\ UNCHANGED <<st, late>>
     \/ /\ st[s] = "Padding" /\ cur = 0
        /\ SetState(s, "Stop")
        /\ spc' = [spc EXCEPT ![s] = "put"]
     \/ /\ \/ st[s] \in {"Stop", "Ready"} /\ cell[s] = Dummy
           \/ st[s] = "Padding" /\ cur # 0
           \/ st[s] = "Start"
        /\ spc' = [spc EXCEPT ![s] = "put"]
        /\ UNCHANGED <<st, late>>
  /\ UNCHANGED <<cntVars, mainVars, cell, cur, tickVars, chan, out, sent, raced>>

\* The client's second look at its state, and the moves it leads to.  Load and SetState
\* are one step where the ticker cannot come in between: in Stop and in Padding it
\* changes nothing.
ScheduleMove(s) ==
  /\ spc[s] = "move"
  /\ \/ /\ st[s] = "Stop" /\ cell[s] # Dummy
        /\ SetState(s, "Ready")
        /\ spc' = [spc EXCEPT ![s] = "put"]
     \/ /\ st[s] = "Ready" /\ cell[s] # Dummy
        /\ spc' = [spc EXCEPT ![s] = "setStart"]
        /\ UNCHANGED <<st, late>>
     \/ /\ st[s] = "Padding" /\ cur = 0
        /\ SetState(s, "Stop")
        /\ spc' = [spc EXCEPT ![s] = "sigStop"]
     \/ /\ \/ st[s] \in {"Stop", "Ready"} /\ cell[s] = Dummy
           \/ st[s] = "Padding" /\ cur # 0
           \/ st[s] = "Start"
        /\ spc' = [spc EXCEPT ![s] = "put"]
        /\ UNCHANGED <<st, late>>
  /\ UNCHANGED <<cntVars, mainVars, cell, cur, tickVars, chan, out, sent, raced>>

ScheduleSetStart(s) ==
  /\ spc[s] = "setStart"
  /\ SetState(s, "Start")
  /\ spc' = [spc EXCEPT ![s] = "sigStart"]
  /\ UNCHANGED <<cntVars, mainVars, cell, cur, tickVars, chan, out, sent, raced>>

ScheduleSigStart(s) ==
  /\ spc[s] = "sigStart"
  /\ Enqueue(s, SigStart)
  /\ spc' = [spc EXCEPT ![s] = "put"]
  /\ UNCHANGED <<st, cntVars, mainVars, cell, cur, tickVars, out, late, sent, raced>>

\* The stop signal, and the reset of curNSeg, which nobody else looks at.
ScheduleSigStop(s) ==
  /\ spc[s] = "sigStop"
  /\ Enqueue(s, SigStop)
  /\ cur' = 0
  /\ spc' = [spc EXCEPT ![s] = "lastPut"]
  /\ UNCHANGED <<st, cntVars, mainVars, cell, tickVars, out, late, sent, raced>>

\* The cell itself is queued; the one that follows a stop signal ends its train.
SchedulePut(s) ==
  /\ spc[s] \in {"put", "lastPut"}
  /\ Enqueue(s, cell[s])
  /\ late' = IF cell[s] = Dummy /\ st[s] = "Stop" /\ late[s] < 2
             THEN [late EXCEPT ![s] = @ + 1] ELSE late
  /\ sent' = CASE s = Server -> sent
               [] s = Client /\ spc[s] = "lastPut" -> 0
               [] OTHER -> (sent + 1) % NSeg
  /\ spc' = [spc EXCEPT ![s] = "wait"]
  /\ UNCHANGED <<st, cntVars, mainVars, cell, cur, tickVars, out, raced>>

ScheduleStep(s) ==
  \/ ScheduleTick(s) \/ ScheduleLoad(s) \/ ScheduleMove(s) \/ ScheduleSetStart(s)
  \/ ScheduleSigStart(s) \/ ScheduleSigStop(s) \/ SchedulePut(s)

-----------------------------------------------------------------------------
(* The client's ticker.                                                    *)

\* A tick: the state is loaded once.  The counters, loaded after it, only grow until the
\* ticker resets them, so that one step has every outcome.
TickerTick ==
  /\ tpc = "wait"
  /\ seen' = st[Client]
  /\ tpc' = IF st[Client] # "Stop" /\ (nsent < LowMark \/ nrcv < LowMark)
            THEN "set" ELSE "reset"
  /\ UNCHANGED <<st, cntVars, mainVars, spc, cell, cur, chan, out, late, sent, raced>>

\* The move follows from the state loaded then, whatever the state is by now.
TickerSet ==
  /\ tpc = "set"
  /\ \/ seen = "Ready" /\ SetState(Client, "Stop")
     \/ seen = "Start" /\ SetState(Client, "Padding")
     \/ seen = "Padding" /\ UNCHANGED <<st, late>>
  /\ raced' = (raced \/ (seen # "Padding" /\ st[Client] # seen))
  /\ tpc' = "reset"
  /\ UNCHANGED <<cntVars, mainVars, spc, cell, cur, seen, chan, out, sent>>

\* NRealSegReset: the two stores are one step, as each counter stands alone.
TickerReset ==
  /\ tpc = "reset"
  /\ nsent' = 0 /\ nrcv' = 0
  /\ tpc' = "wait"
  /\ UNCHANGED <<st, mainVars, spc, cell, cur, seen, chan, out, late, sent, raced>>

TickerStep == TickerTick \/ TickerSet \/ TickerReset

-----------------------------------------------------------------------------
\* ReadPackets and Read: the next packet of the peer.
Receive(s) ==
  LET p == Head(chan[Peer(s)]) IN
  /\ chan[Peer(s)] # <<>>
  /\ chan' = [chan EXCEPT ![Peer(s)] = Tail(@)]
  /\ out' = IF p.type = "Payload" THEN [out EXCEPT ![s] = Append(@, p.seg)] ELSE out
  /\ nrcv' = IF p.type = "Payload" /\ s = Client THEN Count(nrcv) ELSE nrcv
  /\ CASE p = SigStart /\ st[s] # "Start" -> SetState(s, "Start")
       [] p = SigStop /\ st[s] # "Stop" -> SetState(s, "Stop")
       [] OTHER -> UNCHANGED <<st, late>>
  /\ UNCHANGED <<nsent, mainVars, spc, cell, cur, tickVars, sent, raced>>

Next ==
  \/ \E s \in Side : MainRead(s) \/ ScheduleStep(s) \/ Receive(s)
  \/ TickerStep

Spec == Init /\ [][Next]_vars

\* The timers fire and the goroutines run; the programs need not send.
Fairness ==
  /\ WF_vars(TickerStep)
  /\ \A s \in Side : WF_vars(ScheduleStep(s)) /\ WF_vars(Receive(s))

FairSpec == Spec /\ Fairness

-----------------------------------------------------------------------------
(* Properties.                                                             *)

\* Between two stops the client sends a whole number of trains of nSeg cells, payload
\* and dummies together, which is what hides the length of the page; and dummies stop
\* when the defence does: after that, schedule queues at most the one it had decided on.
WholeTrains == /\ spc[Client] = "sigStop" => (sent + 1) % NSeg = 0
               /\ \A s \in Side : late[s] <= 1

\* No change of the client's state is being announced, and no signal is on its way.
SignalsSettled ==
  /\ spc[Client] \notin {"sigStart", "sigStop"}
  /\ \A i \in 1..Len(chan[Client]) : chan[Client][i] \notin Signal

\* README: the client turns the bridge's defence on and off with its signals.  So once
\* the signals have arrived, the bridge pads exactly when the client does.
Agreement ==
  SignalsSettled => (st[Server] = "Start" <=> st[Client] \in {"Start", "Padding"})

\* Only a ticker that overwrites a state it has not seen breaks that.
AgreementUnlessRaced == ~raced => Agreement

\* Each direction is a relay: the scheduler reorders, repeats and loses nothing.
Abstract == INSTANCE Relay WITH accepted <- acc, output <- out
ImplementsRelay == Abstract!Spec

\* Padding ends: the train is filled up and the client stops.
PaddingEnds == st[Client] = "Padding" ~> st[Client] = "Stop"

\* Whatever a program sends reaches the other program, at whatever pace and in whatever
\* state of the defence: schedule never leaves data in receiveBuf.
Delivery == \A s \in Side : []<>(Len(out[Peer(s)]) = acc[s])
=============================================================================
