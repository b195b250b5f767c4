------------------------------ MODULE DefConn ------------------------------
(***************************************************************************)
(* The shared connection of the defended transports                        *)
(* (transports/defconn): the two ends of one established connection, each  *)
(* with the four goroutines that work on it:                               *)
(*                                                                         *)
(*   main    io.Copy(pt, app), which is DefConn.ReadFrom: takes data from  *)
(*           the local program, moves the client's state machine           *)
(*           Stop -> Ready -> Start, chops the data into cells and queues  *)
(*           signals and cells on SendChan;                                *)
(*   ticker  started by ReadFrom: every TWindow it moves a client that     *)
(*           saw little traffic back to Stop and queues the stop signal;   *)
(*   send    DefConn.Send: takes packets off SendChan and writes them;     *)
(*   reader  io.Copy(app, pt), which is DefConn.Read: takes packets off    *)
(*           the wire, follows the signals (bridge only), hands payload to *)
(*           the local program.                                            *)
(*                                                                         *)
(* A step is one operation another goroutine can observe: a channel        *)
(* operation, a mutex-protected state access, an atomic counter access, a  *)
(* read, write or close of a socket.  Loads are merged into one step only  *)
(* where that loses no outcome; the comment at the action says why.        *)
(*                                                                         *)
(* Data abstraction: what the local program writes is counted in segments  *)
(* of at most MaxPacketPayloadLength bytes, so rdLen >                     *)
(* MaxPacketPayloadLength is "more than one segment"; a payload packet     *)
(* carries the number of its segment.  Encryption, padding and framing are *)
(* left out: a packet on the wire is the packet that was queued.           *)
(***************************************************************************)
EXTENDS Integers, Sequences, Queues

CONSTANTS SendCap,      \* capacity of SendChan (10000 in the code)
          WireCap,      \* packets the network holds before a write blocks
          Env           \* the environments the connection may meet, records with fields
                        \*   segs     bound: segs[s] segments are read from the program at s
                        \*   ticking  the ends whose ticker fires while it is watched
                        \*   ends     may a local program end its stream?
                        \*   breaks   may the network connection break?

Client == "client"
Server == "server"
Side == {Client, Server}
Peer(s) == IF s = Client THEN Server ELSE Client

ASSUME CapAssumption == SendCap \in Nat \ {0} /\ WireCap \in Nat \ {0}
ASSUME EnvAssumption ==
  \A e \in Env : /\ \A s \in Side : e.segs[s] \in Nat
                /\ e.ticking \subseteq Side /\ e.ends \in BOOLEAN /\ e.breaks \in BOOLEAN

VARIABLES
  env,     \* the environment of this connection, fixed from the start
  st,      \* ConnState.curState
  nsent,   \* nRealSegSent, up to LowMark
  nrcv,    \* nRealSegRcv, up to LowMark
  mpc,     \* where main stands
  rem,     \* segments in main's receiveBuf
  acc,     \* segments main has read from the local program so far
  tpc,     \* where the ticker stands
  running, \* has the send goroutine not returned?
  hold,    \* the packet the send goroutine is writing, if any
  sendQ,   \* SendChan
  errQ,    \* number of errors in ErrChan
  closed,  \* has CloseChan been closed?
  rpc,     \* where the reader stands
  rbuf,    \* packets read from the network, not decoded yet (ReceiveBuffer)
  dec,     \* segments decoded, not handed over yet (ReceiveDecodedBuffer)
  out,     \* log of the segments handed to the local program
  wire,    \* wire[s]: packets s wrote that its peer has not read
  aOpen,   \* is the socket to the local program open?
  bOpen,   \* is the network socket open at this end?
  link,    \* is the network connection intact?
  raced    \* history: did one of the client's main and ticker set the state between
           \* the other's SetState and the signal that announces it?

mainVars == <<mpc, rem, acc>>
cntVars  == <<nsent, nrcv>>
sendVars == <<running, hold>>
readVars == <<rpc, rbuf, dec, out>>
sockVars == <<env, aOpen, bOpen, link>>
vars == <<env, st, nsent, nrcv, mpc, rem, acc, tpc, running, hold, sendQ, errQ, closed,
          rpc, rbuf, dec, out, wire, aOpen, bOpen, link, raced>>

State == {"Start", "Stop", "Ready"}

\* The throughput below which the ticker turns the defence off.  The counters are
\* only ever compared with it and reset, so counting stops there.
LowMark == 2
Count(n) == IF n < LowMark THEN n + 1 ELSE n

Payload(n) == [type |-> "Payload", seg |-> n]
SigStart == [type |-> "SignalStart", seg |-> 0]
SigStop  == [type |-> "SignalStop", seg |-> 0]
Signal == {SigStart, SigStop}
Packet == [type : {"Payload", "SignalStart", "SignalStop"}, seg : Nat]

Init ==
  /\ env \in Env
  /\ st = [s \in Side |-> "Stop"]
  /\ nsent = [s \in Side |-> 0]
  /\ nrcv = [s \in Side |-> 0]
  /\ mpc = [s \in Side |-> "poll"]
  /\ rem = [s \in Side |-> 0]
  /\ acc = [s \in Side |-> 0]
  /\ tpc = [s \in Side |-> "wait"]
  /\ running = [s \in Side |-> TRUE]
  /\ hold = [s \in Side |-> <<>>]
  /\ sendQ = [s \in Side |-> <<>>]
  /\ errQ = [s \in Side |-> 0]
  /\ closed = [s \in Side |-> FALSE]
  /\ rpc = [s \in Side |-> "read"]
  /\ rbuf = [s \in Side |-> <<>>]
  /\ dec = [s \in Side |-> <<>>]
  /\ out = [s \in Side |-> <<>>]
  /\ wire = [s \in Side |-> <<>>]
  /\ aOpen = [s \in Side |-> TRUE]
  /\ bOpen = [s \in Side |-> TRUE]
  /\ link = TRUE
  /\ raced = FALSE

-----------------------------------------------------------------------------
(* Channel operations.                                                     *)

\* A send on SendChan: blocks while the channel is full.
Enqueue(s, p) ==
  /\ Len(sendQ[s]) < SendCap
  /\ sendQ' = [sendQ EXCEPT ![s] = Append(@, p)]

-----------------------------------------------------------------------------
(* main: DefConn.ReadFrom and the io.Copy goroutine that called it.        *)

\* The select at the head of the loop: an error left by the send goroutine ends the
\* loop, otherwise go on to read from the program.
MainPoll(s) ==
  /\ mpc[s] = "poll"
  /\ \/ /\ errQ[s] > 0
        /\ errQ' = [errQ EXCEPT ![s] = @ - 1]
        /\ mpc' = [mpc EXCEPT ![s] = "return"]
     \/ /\ errQ[s] = 0
        /\ mpc' = [mpc EXCEPT ![s] = "read"]
        /\ UNCHANGED errQ
  /\ UNCHANGED <<st, cntVars, rem, acc, tpc, sendVars, sendQ, closed, readVars, wire,
                 sockVars, raced>>

\* r.Read returns data: one segment, or more than one.
MainRead(s) ==
  /\ mpc[s] = "read"
  /\ aOpen[s]
  /\ \E k \in 1..2 :
       /\ acc[s] + k <= env.segs[s]
       /\ acc' = [acc EXCEPT ![s] = @ + k]
       /\ rem' = [rem EXCEPT ![s] = k]
  /\ mpc' = [mpc EXCEPT ![s] = IF s = Client THEN "load" ELSE "chop"]
  /\ UNCHANGED <<st, cntVars, tpc, sendVars, sendQ, errQ, closed, readVars, wire,
                 sockVars, raced>>

\* r.Read fails because the socket was closed under it.
MainReadClosed(s) ==
  /\ mpc[s] = "read"
  /\ ~aOpen[s]
  /\ mpc' = [mpc EXCEPT ![s] = "return"]
  /\ UNCHANGED <<st, cntVars, rem, acc, tpc, sendVars, sendQ, errQ, closed, readVars,
                 wire, sockVars, raced>>

\* r.Read fails, or reads 0 bytes, because the program ended its stream.
MainReadEOF(s) ==
  /\ env.ends
  /\ mpc[s] = "read"
  /\ aOpen[s]
  /\ mpc' = [mpc EXCEPT ![s] = "return"]
  /\ UNCHANGED <<st, cntVars, rem, acc, tpc, sendVars, sendQ, errQ, closed, readVars,
                 wire, sockVars, raced>>

\* The client's first look at its state.  In Stop, more than one segment starts the
\* defence, one only makes it ready.  Load and SetState are one step here: in Stop
\* nobody but main changes the state.
MainLoad(s) ==
  /\ mpc[s] = "load"
  /\ \/ /\ st[s] = "Stop" /\ rem[s] > 1
        /\ st' = [st EXCEPT ![s] = "Start"]
        /\ raced' = (raced \/ tpc[s] = "sigStop")
        /\ mpc' = [mpc EXCEPT ![s] = "sigStart"]
     \/ /\ st[s] = "Stop" /\ rem[s] <= 1
        /\ st' = [st EXCEPT ![s] = "Ready"]
        /\ mpc' = [mpc EXCEPT ![s] = "chop"]
        /\ UNCHANGED raced
     \/ /\ st[s] # "Stop"
        /\ mpc' = [mpc EXCEPT ![s] = "reload"]
        /\ UNCHANGED <<st, raced>>
  /\ UNCHANGED <<cntVars, rem, acc, tpc, sendVars, sendQ, errQ, closed, readVars, wire,
                 sockVars>>

\* The second and third look, after a first one that did not see Stop: the ticker may
\* have moved the state to Stop meanwhile, and then the size of the read no longer
\* counts.  (The third load seeing a Stop the second missed is this step taken later.)
MainReload(s) ==
  /\ mpc[s] = "reload"
  /\ \/ /\ st[s] = "Ready"
        /\ mpc' = [mpc EXCEPT ![s] = "setStart"]
        /\ UNCHANGED st
     \/ /\ st[s] = "Start"
        /\ mpc' = [mpc EXCEPT ![s] = "chop"]
        /\ UNCHANGED st
     \/ /\ st[s] = "Stop"
        /\ st' = [st EXCEPT ![s] = "Ready"]
        /\ mpc' = [mpc EXCEPT ![s] = "chop"]
  /\ UNCHANGED <<cntVars, rem, acc, tpc, sendVars, sendQ, errQ, closed, readVars, wire,
                 sockVars, raced>>

\* A bug: Ready goes to Start without telling the bridge.
MainSetStartSilent(s) ==
  /\ mpc[s] = "setStart"
  /\ st' = [st EXCEPT ![s] = "Start"]
  /\ mpc' = [mpc EXCEPT ![s] = "chop"]
  /\ UNCHANGED <<cntVars, rem, acc, tpc, sendVars, sendQ, errQ, closed, readVars, wire,
                 sockVars, raced>>

MainSetStart(s) ==
  /\ mpc[s] = "setStart"
  /\ st' = [st EXCEPT ![s] = "Start"]
  /\ raced' = (raced \/ tpc[s] = "sigStop")
  /\ mpc' = [mpc EXCEPT ![s] = "sigStart"]
  /\ UNCHANGED <<cntVars, rem, acc, tpc, sendVars, sendQ, errQ, closed, readVars, wire,
                 sockVars>>

MainSigStart(s) ==
  /\ mpc[s] = "sigStart"
  /\ Enqueue(s, SigStart)
  /\ mpc' = [mpc EXCEPT ![s] = "chop"]
  /\ UNCHANGED <<st, cntVars, rem, acc, tpc, sendVars, errQ, closed, readVars, wire,
                 sockVars, raced>>

\* A bug: IF for FOR, only one segment of receiveBuf is queued per read.
MainChopOnce(s) ==
  /\ mpc[s] = "chop"
  /\ \/ /\ rem[s] > 0
        /\ Enqueue(s, Payload(acc[s] - rem[s] + 1))
        /\ rem' = [rem EXCEPT ![s] = 0]
        /\ mpc' = [mpc EXCEPT ![s] = "count"]
     \/ /\ rem[s] = 0
        /\ mpc' = [mpc EXCEPT ![s] = "poll"]
        /\ UNCHANGED <<sendQ, rem>>
  /\ UNCHANGED <<st, cntVars, acc, tpc, sendVars, errQ, closed, readVars, wire, sockVars,
                 raced>>

\* The inner loop: queue the next segment of receiveBuf, or go back to the select.
MainChop(s) ==
  /\ mpc[s] = "chop"
  /\ \/ /\ rem[s] > 0
        /\ Enqueue(s, Payload(acc[s] - rem[s] + 1))
        /\ rem' = [rem EXCEPT ![s] = @ - 1]
        /\ mpc' = [mpc EXCEPT ![s] = "count"]
     \/ /\ rem[s] = 0
        /\ mpc' = [mpc EXCEPT ![s] = "poll"]
        /\ UNCHANGED <<sendQ, rem>>
  /\ UNCHANGED <<st, cntVars, acc, tpc, sendVars, errQ, closed, readVars, wire, sockVars,
                 raced>>

\* NRealSegSentIncrement.
MainCount(s) ==
  /\ mpc[s] = "count"
  /\ nsent' = [nsent EXCEPT ![s] = Count(@)]
  /\ mpc' = [mpc EXCEPT ![s] = "chop"]
  /\ UNCHANGED <<st, nrcv, rem, acc, tpc, sendVars, sendQ, errQ, closed, readVars, wire,
                 sockVars, raced>>

\* ReadFrom returns: its deferred close(CloseChan).
MainReturn(s) ==
  /\ mpc[s] = "return"
  /\ closed' = [closed EXCEPT ![s] = TRUE]
  /\ mpc' = [mpc EXCEPT ![s] = "close"]
  /\ UNCHANGED <<st, cntVars, rem, acc, tpc, sendVars, sendQ, errQ, readVars, wire,
                 sockVars, raced>>

\* copyLoop's goroutine closes both sockets and is done.
MainClose(s) ==
  /\ mpc[s] = "close"
  /\ aOpen' = [aOpen EXCEPT ![s] = FALSE]
  /\ bOpen' = [bOpen EXCEPT ![s] = FALSE]
  /\ mpc' = [mpc EXCEPT ![s] = "done"]
  /\ UNCHANGED <<st, cntVars, rem, acc, tpc, sendVars, sendQ, errQ, closed, readVars, wire,
                 env, link, raced>>

MainStep(s) ==
  \/ MainPoll(s) \/ MainReadClosed(s) \/ MainLoad(s) \/ MainReload(s)
  \/ MainSetStart(s) \/ MainSigStart(s) \/ MainChop(s) \/ MainCount(s)
  \/ MainReturn(s) \/ MainClose(s)

-----------------------------------------------------------------------------
(* ticker: the goroutine of ReadFrom that watches the throughput.          *)

\* A tick.  The loads of the state and of both counters are one step: from a state
\* that is not Stop only the ticker itself goes to Stop, and the counters only grow
\* until the ticker resets them, so the outcome is that of one moment.
TickerTick(s) ==
  /\ s \in env.ticking
  /\ tpc[s] = "wait"
  /\ tpc' = [tpc EXCEPT ![s] =
               IF s = Client /\ st[s] # "Stop" /\ (nsent[s] < LowMark \/ nrcv[s] < LowMark)
               THEN "setStop" ELSE "resetSent"]
  /\ UNCHANGED <<st, cntVars, mainVars, sendVars, sendQ, errQ, closed, readVars, wire,
                 sockVars, raced>>

TickerSetStop(s) ==
  /\ tpc[s] = "setStop"
  /\ st' = [st EXCEPT ![s] = "Stop"]
  /\ raced' = (raced \/ mpc[s] = "sigStart")
  /\ tpc' = [tpc EXCEPT ![s] = "sigStop"]
  /\ UNCHANGED <<cntVars, mainVars, sendVars, sendQ, errQ, closed, readVars, wire, sockVars>>

TickerSigStop(s) ==
  /\ tpc[s] = "sigStop"
  /\ Enqueue(s, SigStop)
  /\ tpc' = [tpc EXCEPT ![s] = "resetSent"]
  /\ UNCHANGED <<st, cntVars, mainVars, sendVars, errQ, closed, readVars, wire, sockVars,
                 raced>>

\* NRealSegReset is two separate atomic stores.
TickerResetSent(s) ==
  /\ tpc[s] = "resetSent"
  /\ nsent' = [nsent EXCEPT ![s] = 0]
  /\ tpc' = [tpc EXCEPT ![s] = "resetRcv"]
  /\ UNCHANGED <<st, nrcv, mainVars, sendVars, sendQ, errQ, closed, readVars, wire,
                 sockVars, raced>>

TickerResetRcv(s) ==
  /\ tpc[s] = "resetRcv"
  /\ nrcv' = [nrcv EXCEPT ![s] = 0]
  /\ tpc' = [tpc EXCEPT ![s] = "wait"]
  /\ UNCHANGED <<st, nsent, mainVars, sendVars, sendQ, errQ, closed, readVars, wire,
                 sockVars, raced>>

TickerExit(s) ==
  /\ tpc[s] = "wait"
  /\ closed[s]
  /\ tpc' = [tpc EXCEPT ![s] = "exit"]
  /\ UNCHANGED <<st, cntVars, mainVars, sendVars, sendQ, errQ, closed, readVars, wire,
                 sockVars, raced>>

TickerStep(s) ==
  \/ TickerTick(s) \/ TickerSetStop(s) \/ TickerSigStop(s)
  \/ TickerResetSent(s) \/ TickerResetRcv(s) \/ TickerExit(s)

-----------------------------------------------------------------------------
(* send: DefConn.Send.                                                     *)

\* A write or a read on the network socket of s can fail.
Broken(s) == ~bOpen[s] \/ ~bOpen[Peer(s)] \/ ~link

\* The select takes a packet from SendChan.
SendTake(s) ==
  /\ running[s] /\ hold[s] = <<>>
  /\ sendQ[s] # <<>>
  /\ hold' = [hold EXCEPT ![s] = <<Head(sendQ[s])>>]
  /\ sendQ' = [sendQ EXCEPT ![s] = Tail(@)]
  /\ UNCHANGED <<st, cntVars, mainVars, tpc, running, errQ, closed, readVars, wire,
                 sockVars, raced>>

\* Conn.Write succeeds.  With the peer gone, the packet may still be taken by the
\* kernel; nobody reads it.
SendWrite(s) ==
  /\ running[s] /\ hold[s] # <<>>
  /\ bOpen[s] /\ link
  /\ \/ /\ bOpen[Peer(s)]
        /\ Len(wire[s]) < WireCap
        /\ wire' = [wire EXCEPT ![s] = @ \o hold[s]]
     \/ /\ ~bOpen[Peer(s)]
        /\ UNCHANGED wire
  /\ hold' = [hold EXCEPT ![s] = <<>>]
  /\ UNCHANGED <<st, cntVars, mainVars, tpc, running, sendQ, errQ, closed, readVars,
                 sockVars, raced>>

\* Conn.Write fails: the error goes to ErrChan and the goroutine returns.
SendFail(s) ==
  /\ running[s] /\ hold[s] # <<>>
  /\ Broken(s)
  /\ errQ' = [errQ EXCEPT ![s] = @ + 1]
  /\ hold' = [hold EXCEPT ![s] = <<>>]
  /\ running' = [running EXCEPT ![s] = FALSE]
  /\ UNCHANGED <<st, cntVars, mainVars, tpc, sendQ, closed, readVars, wire, sockVars, raced>>

\* The select sees CloseChan closed, possibly with packets still in SendChan.
SendExit(s) ==
  /\ running[s] /\ hold[s] = <<>>
  /\ closed[s]
  /\ running' = [running EXCEPT ![s] = FALSE]
  /\ UNCHANGED <<st, cntVars, mainVars, tpc, hold, sendQ, errQ, closed, readVars, wire,
                 sockVars, raced>>

SendStep(s) == SendTake(s) \/ SendWrite(s) \/ SendFail(s) \/ SendExit(s)

-----------------------------------------------------------------------------
(* reader: io.Copy(app, pt) with DefConn.Read and ReadPackets.             *)

\* Conn.Read: it returns any non-empty prefix of what is on the wire, taken here one
\* packet at a time before decoding begins.
ReaderRead(s) ==
  /\ rpc[s] = "read"
  /\ bOpen[s]
  /\ wire[Peer(s)] # <<>>
  /\ rbuf' = [rbuf EXCEPT ![s] = Append(@, Head(wire[Peer(s)]))]
  /\ wire' = [wire EXCEPT ![Peer(s)] = Tail(@)]
  /\ UNCHANGED <<st, cntVars, mainVars, tpc, sendVars, sendQ, errQ, closed, rpc, dec, out,
                 sockVars, raced>>

\* Conn.Read fails with nothing read: io.Copy ends.
ReaderFail(s) ==
  /\ rpc[s] = "read"
  /\ rbuf[s] = <<>>
  /\ Broken(s)
  /\ rpc' = [rpc EXCEPT ![s] = "close"]
  /\ UNCHANGED <<st, cntVars, mainVars, tpc, sendVars, sendQ, errQ, closed, rbuf, dec, out,
                 wire, sockVars, raced>>

\* The next packet of the decode loop is payload.
ReaderPayload(s) ==
  /\ rpc[s] \in {"read", "decode"}
  /\ rbuf[s] # <<>> /\ Head(rbuf[s]).type = "Payload"
  /\ rpc' = [rpc EXCEPT ![s] = "decode"]
  /\ dec' = [dec EXCEPT ![s] = Append(@, Head(rbuf[s]).seg)]
  /\ nrcv' = [nrcv EXCEPT ![s] = Count(@)]
  /\ rbuf' = [rbuf EXCEPT ![s] = Tail(@)]
  /\ UNCHANGED <<st, nsent, mainVars, tpc, sendVars, sendQ, errQ, closed, out, wire,
                 sockVars, raced>>

\* The next packet is a signal: the bridge follows it, a client panics.
ReaderSignal(s) ==
  /\ rpc[s] \in {"read", "decode"}
  /\ rbuf[s] # <<>> /\ Head(rbuf[s]) \in Signal
  /\ IF s = Server
     THEN /\ st' = [st EXCEPT ![s] = IF Head(rbuf[s]) = SigStart THEN "Start" ELSE "Stop"]
          /\ rpc' = [rpc EXCEPT ![s] = "decode"]
     ELSE /\ rpc' = [rpc EXCEPT ![s] = "panic"]
          /\ UNCHANGED st
  /\ rbuf' = [rbuf EXCEPT ![s] = Tail(@)]
  /\ UNCHANGED <<cntVars, mainVars, tpc, sendVars, sendQ, errQ, closed, dec, out, wire,
                 sockVars, raced>>

\* A bug: the decoded data is handed over but not removed from the buffer.
ReaderDeliverKeeps(s) ==
  /\ rpc[s] = "decode"
  /\ rbuf[s] = <<>>
  /\ rpc' = [rpc EXCEPT ![s] = "read"]
  /\ out' = [out EXCEPT ![s] = IF aOpen[s] THEN @ \o dec[s] ELSE @]
  /\ UNCHANGED <<st, cntVars, mainVars, tpc, sendVars, sendQ, errQ, closed, rbuf, dec, wire,
                 sockVars, raced>>

\* ReceiveBuffer is used up: Read hands what was decoded to the program, or reads on.
ReaderDeliver(s) ==
  /\ rpc[s] = "decode"
  /\ rbuf[s] = <<>>
  /\ \/ /\ dec[s] = <<>>
        /\ rpc' = [rpc EXCEPT ![s] = "read"]
        /\ UNCHANGED <<dec, out>>
     \/ /\ dec[s] # <<>> /\ aOpen[s]
        /\ out' = [out EXCEPT ![s] = @ \o dec[s]]
        /\ dec' = [dec EXCEPT ![s] = <<>>]
        /\ rpc' = [rpc EXCEPT ![s] = "read"]
     \/ /\ dec[s] # <<>> /\ ~aOpen[s]
        /\ rpc' = [rpc EXCEPT ![s] = "close"]
        /\ UNCHANGED <<dec, out>>
  /\ UNCHANGED <<st, cntVars, mainVars, tpc, sendVars, sendQ, errQ, closed, rbuf, wire,
                 sockVars, raced>>

\* A bug: the goroutine closes only the network socket.
ReaderCloseHalf(s) ==
  /\ rpc[s] = "close"
  /\ bOpen' = [bOpen EXCEPT ![s] = FALSE]
  /\ rpc' = [rpc EXCEPT ![s] = "done"]
  /\ UNCHANGED <<st, cntVars, mainVars, tpc, sendVars, sendQ, errQ, closed, rbuf, dec, out,
                 wire, env, aOpen, link, raced>>

\* copyLoop's other goroutine closes both sockets and is done.
ReaderClose(s) ==
  /\ rpc[s] = "close"
  /\ aOpen' = [aOpen EXCEPT ![s] = FALSE]
  /\ bOpen' = [bOpen EXCEPT ![s] = FALSE]
  /\ rpc' = [rpc EXCEPT ![s] = "done"]
  /\ UNCHANGED <<st, cntVars, mainVars, tpc, sendVars, sendQ, errQ, closed, rbuf, dec, out,
                 wire, env, link, raced>>

ReaderStep(s) ==
  \/ ReaderRead(s) \/ ReaderFail(s) \/ ReaderPayload(s) \/ ReaderSignal(s)
  \/ ReaderDeliver(s) \/ ReaderClose(s)

-----------------------------------------------------------------------------
\* The network connection breaks.
NetFail ==
  /\ env.breaks /\ link
  /\ link' = FALSE
  /\ UNCHANGED <<st, cntVars, mainVars, tpc, sendVars, sendQ, errQ, closed, readVars, wire,
                 env, aOpen, bOpen, raced>>

Next ==
  \/ \E s \in Side : \/ MainStep(s) \/ MainRead(s) \/ MainReadEOF(s)
                     \/ TickerStep(s) \/ SendStep(s) \/ ReaderStep(s)
  \/ NetFail

Spec == Init /\ [][Next]_vars

\* Go runs every goroutine that can run, the clock ticks, and the kernel reports a
\* closed or broken connection.  Nothing obliges a program to send or to close, or the
\* network to break.
Fairness ==
  \A s \in Side : /\ WF_vars(MainStep(s))
                  /\ WF_vars(TickerStep(s))
                  /\ WF_vars(SendStep(s))
                  /\ WF_vars(ReaderStep(s))
                  /\ SF_vars(TickerExit(s)) \* select picks among ready cases at random

FairSpec == Spec /\ Fairness

-----------------------------------------------------------------------------
(* Correctness.                                                            *)

MainPC == {"poll", "read", "load", "reload", "setStart", "sigStart", "chop", "count",
           "return", "close", "done"}
TickerPC == {"wait", "setStop", "sigStop", "resetSent", "resetRcv", "exit"}
ReaderPC == {"read", "decode", "close", "done", "panic"}

TypeState ==
  /\ st \in [Side -> State] /\ raced \in BOOLEAN
  /\ nsent \in [Side -> 0..LowMark] /\ nrcv \in [Side -> 0..LowMark]
TypeMain ==
  /\ mpc \in [Side -> MainPC] /\ rem \in [Side -> Nat] /\ acc \in [Side -> Nat]
  /\ \A s \in Side : rem[s] <= acc[s]
TypeTicker == tpc \in [Side -> TickerPC]
TypeSend ==
  /\ running \in [Side -> BOOLEAN] /\ errQ \in [Side -> 0..1]
  /\ \A s \in Side : running[s] => errQ[s] = 0
  /\ hold \in [Side -> Seq(Packet)] /\ \A s \in Side : Len(hold[s]) <= 1
TypeChan ==
  /\ sendQ \in [Side -> Seq(Packet)] /\ \A s \in Side : Len(sendQ[s]) <= SendCap
  /\ closed \in [Side -> BOOLEAN]
TypeRead ==
  /\ rpc \in [Side -> ReaderPC] /\ rbuf \in [Side -> Seq(Packet)]
  /\ dec \in [Side -> Seq(Nat)] /\ out \in [Side -> Seq(Nat)]
TypeNet ==
  /\ env \in Env /\ wire \in [Side -> Seq(Packet)] /\ link \in BOOLEAN
  /\ aOpen \in [Side -> BOOLEAN] /\ bOpen \in [Side -> BOOLEAN]

\* Every variable has its type; SendChan never holds more than its capacity, Send never
\* more than one packet, and ErrChan never more than the one error Send returns with.
TypeOK == /\ TypeState /\ TypeMain /\ TypeTicker /\ TypeSend /\ TypeChan /\ TypeRead
          /\ TypeNet

\* The connection is a relay: in each direction what comes out is what went in, in
\* order, without gaps or repetitions, however main, ticker, send and reader
\* interleave and wherever the connection breaks (ReadFrom, Send, ReadPackets, Read).
Abstract == INSTANCE Relay WITH accepted <- acc, output <- out
ImplementsRelay == Abstract!Spec

\* The buffers between ReadFrom at one end and the program at the other hold
\* consecutive stretches of the segments 1..a that ReadFrom has queued: o was handed to
\* the program, d is decoded, rb read, w on the wire, h being written, q in SendChan.
\* What is behind a closed socket (~open) or a send goroutine that returned (~run) is
\* cut off and never follows.
Conveys(a, o, d, rb, open, w, run, h, q) ==
  /\ o = [i \in 1..Len(o) |-> i]
  /\ d = [i \in 1..Len(d) |-> Len(o) + i]
  /\ \E x \in 0..a :
       /\ Carries(rb, Len(o) + Len(d), x)
       /\ open => \E y \in 0..a :
            /\ Carries(w, x, y)
            /\ run => \E z \in 0..a : Carries(h, y, z) /\ Carries(q, z, a)

Pipeline(s) == Conveys(acc[s] - rem[s], out[Peer(s)], dec[Peer(s)], rbuf[Peer(s)],
                       bOpen[Peer(s)], wire[s], running[s], hold[s], sendQ[s])

\* No segment is lost, duplicated or overtaken inside a connection that works, and a
\* connection that breaks only loses a tail (SendChan, Send, ReadPackets, Read).
\* Main waits for new data only when receiveBuf is empty.
NoLossInside ==
  \A s \in Side : Pipeline(s) /\ (mpc[s] \in {"poll", "read"} => rem[s] = 0)

\* Everything the client has queued or sent that the bridge has not processed.
UpFlight == rbuf[Server] \o wire[Client] \o hold[Client] \o sendQ[Client]

\* No change of the client's state is under way, and no signal is on its way.
SignalsSettled ==
  /\ mpc[Client] # "sigStart"
  /\ tpc[Client] # "sigStop"
  /\ \A i \in 1..Len(UpFlight) : UpFlight[i] \notin Signal

Connected == running[Client] /\ bOpen[Client] /\ bOpen[Server] /\ link

\* README: the client turns the bridge's defence on and off with its signals.  So once
\* the signals have arrived, the bridge defends exactly when the client does.
Agreement ==
  Connected /\ SignalsSettled => (st[Server] = "Start" <=> st[Client] = "Start")

\* The only way to lose that agreement is the overlap recorded by raced: main and the
\* ticker both set the state and only then queue their signals, in either order.
AgreementUnlessRaced == ~raced => Agreement

\* Both io.Copy goroutines of copyLoop are done, and wg.Wait returns.
CopyLoopDone(s) == mpc[s] = "done" /\ rpc[s] = "done"

Terminating == \E s \in Side : mpc[s] = "done" \/ rpc[s] = "done"

\* Whatever a program writes reaches the other program, unless one of the four io.Copy
\* goroutines terminates: data never gets stuck between ReadFrom, Send, ReadPackets and
\* Read, however they fill and empty SendChan.
Delivery ==
  \A s \in Side : []<>(Len(out[Peer(s)]) = acc[s] \/ Terminating)

\* The whole connection winds down: both copyLoops return and the goroutines that
\* ReadFrom started end too, none is left behind.
EverythingEnds ==
  Terminating ~> \A s \in Side : CopyLoopDone(s) /\ ~running[s] /\ tpc[s] = "exit"
=============================================================================
