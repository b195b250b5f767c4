------------------------------- MODULE Front -------------------------------
(***************************************************************************)
(* The FRONT defence (transports/front): both ends of a connection.        *)
(* ReadFrom is DefConn's, with two more goroutines that send dummies:      *)
(*                                                                         *)
(*   factory  draws a new schedule, a queue of times, when it receives     *)
(*            true on the unbuffered paddingChan, and empties it on false; *)
(*   padder   takes the next time from the queue, sleeps until then and    *)
(*            queues a dummy.                                              *)
(*                                                                         *)
(* main and ticker of the client, and the reader of the bridge, change the *)
(* state and tell the factory, in two or three steps.                      *)
(*                                                                         *)
(* SendChan, Send, the network and the peer's ReceiveBuffer are one queue  *)
(* per direction, cut off when Send returns (DefConn has them apart): what *)
(* Send had written by then counts as read before it returned.             *)
(* Payload is counted.  Times are left out: a time is one waiting dummy.   *)
(***************************************************************************)
EXTENDS Integers, Sequences

CONSTANTS MaxPaddingN,  \* nClient and nServer
          ChanCap,      \* packets that fit between the two ends
          Env           \* the environments a connection may meet, records with fields
                        \*   segs    bound: segs[s] segments are read from the program at s
                        \*   pieces  how many segments one Read may return
                        \*   ticks   does the client's ticker fire while it is watched?
                        \*   ends    the ends whose program may end its stream

Client == "client"
Server == "server"
Side == {Client, Server}
Peer(s) == IF s = Client THEN Server ELSE Client

ASSUME FrontAssumption ==
  /\ MaxPaddingN \in [Side -> Nat \ {0}] /\ ChanCap \in Nat \ {0}
  /\ \A e \in Env : /\ e.segs \in [Side -> Nat] /\ e.pieces \subseteq Nat \ {0}
                     /\ e.ticks \in BOOLEAN /\ e.ends \subseteq Side

VARIABLES
  env,     \* the environment of this connection, fixed from the start
  st,      \* ConnState.curState
  mpc,     \* where main stands
  rem,     \* segments in receiveBuf
  acc,     \* segments read from the local program
  tpc,     \* where the client's ticker stands
  fpc,     \* where the factory stands
  tsQueue, \* number of times in the queue
  ppc,     \* where the padder stands
  chan,    \* chan[s]: packets s queued that its peer has not processed
  sending, \* has Send not returned?
  err,     \* is there an error in ErrChan?
  rpc,     \* where the reader stands
  got,     \* segments decoded for the local program
  closed,  \* has CloseChan been closed?
  open,    \* are the sockets of this end open?
  owed,    \* history: one if the padder had read another state when it became Stop, less
           \* the dummies queued in Stop since, down to -1
  credit,  \* history: times in the last schedule, and the one the padder held when it
           \* was drawn, less the dummies queued since
  told,    \* history: what the factory was last told
  raced    \* history: did one of the client's main and ticker set the state before
           \* the other had announced its own?

mainVars == <<env, mpc, rem, acc>>
padVars  == <<fpc, tsQueue, ppc, credit, told>>
netVars  == <<chan, sending, err>>
readVars == <<rpc, got>>
endVars  == <<closed, open>>
vars == <<env, st, mpc, rem, acc, tpc, fpc, tsQueue, ppc, chan, sending, err, rpc,
          got, closed, open, owed, credit, told, raced>>

\* States are "Start", "Stop" and "Ready"; packets "Payload", "Dummy" and the signals.
Signal == {"SignalStart", "SignalStop"}

Init ==
  /\ env \in Env
  /\ st = [s \in Side |-> "Stop"]
  /\ mpc = [s \in Side |-> "poll"]
  /\ rem = [s \in Side |-> 0] /\ acc = [s \in Side |-> 0]
  /\ tpc = "wait"
  /\ fpc = [s \in Side |-> "select"] /\ tsQueue = [s \in Side |-> 0]
  /\ ppc = [s \in Side |-> "check"]
  /\ chan = [s \in Side |-> <<>>]
  /\ sending = [s \in Side |-> TRUE] /\ err = [s \in Side |-> FALSE]
  /\ rpc = [s \in Side |-> "recv"] /\ got = [s \in Side |-> 0]
  /\ closed = [s \in Side |-> FALSE] /\ open = [s \in Side |-> TRUE]
  /\ owed = [s \in Side |-> 0] /\ credit = [s \in Side |-> 0]
  /\ told = [s \in Side |-> FALSE] /\ raced = FALSE

\* SetState.
SetState(s, new) ==
  /\ st' = [st EXCEPT ![s] = new]
  /\ owed' = IF new = "Stop" THEN [owed EXCEPT ![s] = IF ppc[s] \in {"length", "dequeue", "send"}
                                                         THEN 1 ELSE 0]
             ELSE owed

\* A send on SendChan.
Enqueue(s, p) == Len(chan[s]) < ChanCap /\ chan' = [chan EXCEPT ![s] = Append(@, p)]

\* A send on paddingChan meets the factory in its select.
TellFactory(s, start) ==
  /\ fpc[s] = "select"
  /\ fpc' = [fpc EXCEPT ![s] = IF start THEN "redraw" ELSE "empty"]
  /\ told' = [told EXCEPT ![s] = start]
  /\ UNCHANGED <<tsQueue, ppc, credit>>

-----------------------------------------------------------------------------
(* factory.                                                                *)

\* How many times initFrontArgs draws: int() of a number from [1, N).
Drawn(n) == IF n = 1 THEN {1} ELSE 1..(n - 1)

\* The queue is emptied, on false for good.  Emptying it one by one while the padder
\* takes some is emptying it at once after the padder.
FactoryEmpty(s) ==
  /\ fpc[s] \in {"redraw", "empty"}
  /\ tsQueue' = [tsQueue EXCEPT ![s] = 0]
  /\ fpc' = [fpc EXCEPT ![s] = IF @ = "redraw" THEN "fill" ELSE "select"]
  /\ UNCHANGED <<st, mainVars, tpc, ppc, credit, told, netVars, readVars, endVars, owed,
                 raced>>

\* The new schedule.  It fits the queue, which only the padder touches in between, so
\* Enqueue never fails.
FactoryFill(s) ==
  /\ fpc[s] = "fill"
  /\ \E n \in Drawn(MaxPaddingN[s]) :
       /\ tsQueue' = [tsQueue EXCEPT ![s] = @ + n]
       /\ credit' = [credit EXCEPT ![s] = IF ppc[s] = "send" THEN n + 1 ELSE n]
  /\ fpc' = [fpc EXCEPT ![s] = "select"]
  /\ UNCHANGED <<st, mainVars, tpc, ppc, told, netVars, readVars, endVars, owed, raced>>

FactoryExit(s) ==
  /\ fpc[s] = "select" /\ closed[s]
  /\ fpc' = [fpc EXCEPT ![s] = "exit"]
  /\ UNCHANGED <<st, mainVars, tpc, tsQueue, ppc, credit, told, netVars, readVars,
                 endVars, owed, raced>>

FactoryStep(s) == FactoryEmpty(s) \/ FactoryFill(s) \/ FactoryExit(s)

-----------------------------------------------------------------------------
(* padder.  While it has nothing to do it looks at CloseChan, sleeps and   *)
(* looks again, all of it in "check".                                      *)

\* Where the look at CloseChan leads.
Looked(s) == IF closed[s] THEN "exit" ELSE "check"

PadderExit(s) ==
  /\ ppc[s] = "check" /\ closed[s]
  /\ ppc' = [ppc EXCEPT ![s] = Looked(s)]
  /\ UNCHANGED <<st, mainVars, tpc, fpc, tsQueue, credit, told, netVars, readVars,
                 endVars, owed, raced>>

\* The look at the state; CloseChan may have been closed since the look at it, but not
\* before the step that led here.
PadderCheck(s) ==
  /\ ppc[s] = "check"
  /\ st[s] # "Stop"
  /\ ppc' = [ppc EXCEPT ![s] = "length"]
  /\ UNCHANGED <<st, mainVars, tpc, fpc, tsQueue, credit, told, netVars, readVars,
                 endVars, owed, raced>>

\* And then the look at the queue: the state may have become Stop since.
PadderLength(s) ==
  /\ ppc[s] = "length"
  /\ ppc' = [ppc EXCEPT ![s] = IF tsQueue[s] > 0 THEN "dequeue" ELSE Looked(s)]
  /\ UNCHANGED <<st, mainVars, tpc, fpc, tsQueue, credit, told, netVars, readVars,
                 endVars, owed, raced>>

\* A bug: the time taken stays in the queue.
PadderDequeuePeeks(s) ==
  /\ ppc[s] = "dequeue"
  /\ ppc' = [ppc EXCEPT ![s] = IF tsQueue[s] > 0 THEN "send" ELSE Looked(s)]
  /\ UNCHANGED <<st, mainVars, tpc, fpc, tsQueue, credit, told, netVars, readVars, endVars,
                 owed, raced>>

\* The next time, or none for a second.
PadderDequeue(s) ==
  /\ ppc[s] = "dequeue"
  /\ IF tsQueue[s] > 0
     THEN /\ tsQueue' = [tsQueue EXCEPT ![s] = @ - 1]
          /\ ppc' = [ppc EXCEPT ![s] = "send"]
     ELSE /\ ppc' = [ppc EXCEPT ![s] = Looked(s)]
          /\ UNCHANGED tsQueue
  /\ UNCHANGED <<st, mainVars, tpc, fpc, credit, told, netVars, readVars, endVars, owed,
                 raced>>

\* After SleepRho the dummy is queued, whatever has become of the state.
PadderSend(s) ==
  /\ ppc[s] = "send"
  /\ Enqueue(s, "Dummy")
  /\ ppc' = [ppc EXCEPT ![s] = Looked(s)]
  /\ credit' = [credit EXCEPT ![s] = @ - 1]
  /\ owed' = [owed EXCEPT ![s] = IF st[s] = "Stop" /\ @ >= 0 THEN @ - 1 ELSE @]
  /\ UNCHANGED <<st, mainVars, tpc, fpc, tsQueue, told, sending, err, readVars, endVars,
                 raced>>

PadderStep(s) ==
  PadderExit(s) \/ PadderCheck(s) \/ PadderLength(s) \/ PadderDequeue(s) \/ PadderSend(s)

-----------------------------------------------------------------------------
(* main.                                                                   *)

MainPoll(s) ==
  /\ mpc[s] = "poll"
  /\ mpc' = [mpc EXCEPT ![s] = IF err[s] THEN "return" ELSE "read"]
  /\ err' = [err EXCEPT ![s] = FALSE]
  /\ UNCHANGED <<env, st, rem, acc, tpc, padVars, chan, sending, readVars, endVars, owed,
                 raced>>

\* r.Read returns data, one segment or more.
MainRead(s) ==
  /\ mpc[s] = "read" /\ open[s]
  /\ \E k \in env.pieces :
       /\ acc[s] + k <= env.segs[s]
       /\ acc' = [acc EXCEPT ![s] = @ + k]
       /\ rem' = [rem EXCEPT ![s] = k]
  /\ mpc' = [mpc EXCEPT ![s] = IF s = Client THEN "load" ELSE "chop"]
  /\ UNCHANGED <<env, st, tpc, padVars, netVars, readVars, endVars, owed, raced>>

\* r.Read fails: the socket was closed, or the program ended its stream.
MainReadFail(s) ==
  /\ mpc[s] = "read"
  /\ mpc' = [mpc EXCEPT ![s] = "return"]
  /\ UNCHANGED <<env, st, rem, acc, tpc, padVars, netVars, readVars, endVars, owed, raced>>

\* Has the ticker set Stop without having announced it to bridge and factory yet?
TickerBusy == tpc \in {"sigStop", "tell"}
MainBusy == mpc[Client] \in {"sigStart", "tell"}

\* The client's first look at the state; in Stop nobody else changes it.
MainLoad ==
  /\ mpc[Client] = "load"
  /\ \/ /\ st[Client] = "Stop" /\ rem[Client] > 1
        /\ SetState(Client, "Start")
        /\ raced' = (raced \/ TickerBusy)
        /\ mpc' = [mpc EXCEPT ![Client] = "sigStart"]
     \/ /\ st[Client] = "Stop" /\ rem[Client] <= 1
        /\ SetState(Client, "Ready")
        /\ mpc' = [mpc EXCEPT ![Client] = "chop"]
        /\ UNCHANGED raced
     \/ /\ st[Client] # "Stop"
        /\ mpc' = [mpc EXCEPT ![Client] = "reload"]
        /\ UNCHANGED <<st, owed, raced>>
  /\ UNCHANGED <<env, rem, acc, tpc, padVars, netVars, readVars, endVars>>

\* The second and third look, after a first one that did not see Stop.
MainReload ==
  /\ mpc[Client] = "reload"
  /\ \/ /\ st[Client] = "Ready"
        /\ mpc' = [mpc EXCEPT ![Client] = "setStart"]
        /\ UNCHANGED <<st, owed>>
     \/ /\ st[Client] = "Start"
        /\ mpc' = [mpc EXCEPT ![Client] = "chop"]
        /\ UNCHANGED <<st, owed>>
     \/ /\ st[Client] = "Stop"
        /\ SetState(Client, "Ready")
        /\ mpc' = [mpc EXCEPT ![Client] = "chop"]
  /\ UNCHANGED <<env, rem, acc, tpc, padVars, netVars, readVars, endVars, raced>>

MainSetStart ==
  /\ mpc[Client] = "setStart"
  /\ SetState(Client, "Start")
  /\ raced' = (raced \/ TickerBusy)
  /\ mpc' = [mpc EXCEPT ![Client] = "sigStart"]
  /\ UNCHANGED <<env, rem, acc, tpc, padVars, netVars, readVars, endVars>>

MainSigStart ==
  /\ mpc[Client] = "sigStart"
  /\ Enqueue(Client, "SignalStart")
  /\ mpc' = [mpc EXCEPT ![Client] = "tell"]
  /\ UNCHANGED <<env, st, rem, acc, tpc, padVars, sending, err, readVars, endVars, owed, raced>>

MainTell ==
  /\ mpc[Client] = "tell"
  /\ TellFactory(Client, TRUE)
  /\ mpc' = [mpc EXCEPT ![Client] = "chop"]
  /\ UNCHANGED <<env, st, rem, acc, tpc, netVars, readVars, endVars, owed, raced>>

\* A bug: one segment is queued and the rest of receiveBuf is forgotten.
MainChopOnce(s) ==
  /\ mpc[s] = "chop"
  /\ Enqueue(s, "Payload")
  /\ rem' = [rem EXCEPT ![s] = 0]
  /\ mpc' = [mpc EXCEPT ![s] = "poll"]
  /\ UNCHANGED <<env, st, acc, tpc, padVars, sending, err, readVars, endVars, owed, raced>>

\* Queue the next segment of receiveBuf and count it.
MainChop(s) ==
  /\ mpc[s] = "chop"
  /\ IF rem[s] > 0
     THEN /\ Enqueue(s, "Payload")
          /\ rem' = [rem EXCEPT ![s] = @ - 1]
          /\ UNCHANGED mpc
     ELSE /\ mpc' = [mpc EXCEPT ![s] = "poll"]
          /\ UNCHANGED <<chan, rem>>
  /\ UNCHANGED <<env, st, acc, tpc, padVars, sending, err, readVars, endVars, owed, raced>>

\* The deferred close(CloseChan).
MainReturn(s) ==
  /\ mpc[s] = "return"
  /\ closed' = [closed EXCEPT ![s] = TRUE]
  /\ mpc' = [mpc EXCEPT ![s] = "close"]
  /\ UNCHANGED <<env, st, rem, acc, tpc, padVars, netVars, readVars, open, owed, raced>>

\* copyLoop's goroutine closes both sockets.
MainClose(s) ==
  /\ mpc[s] = "close"
  /\ open' = [open EXCEPT ![s] = FALSE]
  /\ mpc' = [mpc EXCEPT ![s] = "done"]
  /\ UNCHANGED <<env, st, rem, acc, tpc, padVars, netVars, readVars, closed, owed, raced>>

MainEOF(s) == s \in env.ends /\ open[s] /\ MainReadFail(s)

MainStep(s) ==
  \/ MainPoll(s) \/ (~open[s] /\ MainReadFail(s)) \/ MainChop(s) \/ MainReturn(s)
  \/ MainClose(s)
  \/ s = Client /\ (MainLoad \/ MainReload \/ MainSetStart \/ MainSigStart \/ MainTell)

-----------------------------------------------------------------------------
(* ticker of the client.  The bridge's only resets its counters.           *)

\* A tick in a state other than Stop may find little traffic, or enough.  The counters
\* are left out: which of the two it is stays open.  (The goroutine ending after
\* CloseChan was closed is no further tick.)
TickerTick ==
  /\ env.ticks /\ tpc = "wait"
  /\ st[Client] # "Stop"
  /\ tpc' = "setStop"
  /\ UNCHANGED <<st, mainVars, padVars, netVars, readVars, endVars, owed, raced>>

TickerSetStop ==
  /\ tpc = "setStop"
  /\ SetState(Client, "Stop")
  /\ raced' = (raced \/ MainBusy)
  /\ tpc' = "sigStop"
  /\ UNCHANGED <<mainVars, padVars, netVars, readVars, endVars>>

TickerSigStop ==
  /\ tpc = "sigStop"
  /\ Enqueue(Client, "SignalStop")
  /\ tpc' = "tell"
  /\ UNCHANGED <<st, mainVars, padVars, sending, err, readVars, endVars, owed, raced>>

\* A bug: the factory is not told.
TickerTellNothing ==
  /\ tpc = "tell"
  /\ tpc' = "wait"
  /\ UNCHANGED <<st, mainVars, padVars, netVars, readVars, endVars, owed, raced>>

TickerTell ==
  /\ tpc = "tell"
  /\ TellFactory(Client, FALSE)
  /\ tpc' = "wait"
  /\ UNCHANGED <<st, mainVars, netVars, readVars, endVars, owed, raced>>

TickerStep == TickerSetStop \/ TickerSigStop \/ TickerTell

-----------------------------------------------------------------------------
(* Send and the network.                                                   *)

Broken == \E s \in Side : ~open[s]

\* Send returns, on a closed CloseChan or a failed write.
SendReturn(s) ==
  /\ sending[s]
  /\ \/ closed[s] /\ UNCHANGED err
     \/ Broken /\ chan[s] # <<>> /\ err' = [err EXCEPT ![s] = TRUE]
  /\ sending' = [sending EXCEPT ![s] = FALSE]
  /\ UNCHANGED <<st, mainVars, tpc, padVars, chan, readVars, endVars, owed, raced>>

\* A packet is written to a connection whose other end is gone.
SendLost(s) ==
  /\ sending[s] /\ open[s] /\ ~open[Peer(s)]
  /\ chan[s] # <<>>
  /\ chan' = [chan EXCEPT ![s] = Tail(@)]
  /\ UNCHANGED <<st, mainVars, tpc, padVars, sending, err, readVars, endVars, owed, raced>>

SendStep(s) == SendReturn(s) \/ SendLost(s)

-----------------------------------------------------------------------------
(* reader: io.Copy(app, pt) with readPackets.                              *)

\* The next packet.  The bridge follows a signal that changes its state.
ReaderPacket(s) ==
  LET p == Head(chan[Peer(s)]) IN
  /\ rpc[s] = "recv" /\ open[s]
  /\ sending[Peer(s)] /\ chan[Peer(s)] # <<>>
  /\ chan' = [chan EXCEPT ![Peer(s)] = Tail(@)]
  /\ got' = [got EXCEPT ![s] = IF p = "Payload" THEN @ + 1 ELSE @]
  /\ rpc' = [rpc EXCEPT ![s] =
               CASE p \in Signal /\ s = Client -> "panic"
                 [] p = "SignalStart" /\ s = Server /\ st[s] # "Start" -> "tellStart"
                 [] p = "SignalStop" /\ s = Server /\ st[s] # "Stop" -> "tellStop"
                 [] OTHER -> "recv"]
  /\ UNCHANGED <<st, mainVars, tpc, padVars, sending, err, endVars, owed, raced>>

\* conn.paddingChan <- true or false.
ReaderTell(s) ==
  /\ \/ /\ rpc[s] = "tellStart" /\ TellFactory(s, TRUE)
        /\ rpc' = [rpc EXCEPT ![s] = "setStart"]
     \/ /\ rpc[s] = "tellStop" /\ TellFactory(s, FALSE)
        /\ rpc' = [rpc EXCEPT ![s] = "setStop"]
  /\ UNCHANGED <<st, mainVars, tpc, netVars, got, endVars, owed, raced>>

ReaderSet(s) ==
  /\ \/ rpc[s] = "setStart" /\ SetState(s, "Start")
     \/ rpc[s] = "setStop" /\ SetState(s, "Stop")
  /\ rpc' = [rpc EXCEPT ![s] = "recv"]
  /\ UNCHANGED <<mainVars, tpc, padVars, netVars, got, endVars, raced>>

\* Conn.Read fails.
ReaderFail(s) ==
  /\ rpc[s] = "recv" /\ Broken
  /\ rpc' = [rpc EXCEPT ![s] = "close"]
  /\ UNCHANGED <<st, mainVars, tpc, padVars, netVars, got, endVars, owed, raced>>

\* A bug: the goroutine ends without closing the sockets.
ReaderCloseHalf(s) ==
  /\ rpc[s] = "close"
  /\ rpc' = [rpc EXCEPT ![s] = "done"]
  /\ UNCHANGED <<st, mainVars, tpc, padVars, netVars, got, endVars, owed, raced>>

\* copyLoop's other goroutine closes both sockets.
ReaderClose(s) ==
  /\ rpc[s] = "close"
  /\ open' = [open EXCEPT ![s] = FALSE]
  /\ rpc' = [rpc EXCEPT ![s] = "done"]
  /\ UNCHANGED <<st, mainVars, tpc, padVars, netVars, got, closed, owed, raced>>

ReaderStep(s) ==
  ReaderPacket(s) \/ ReaderTell(s) \/ ReaderSet(s) \/ ReaderFail(s) \/ ReaderClose(s)

-----------------------------------------------------------------------------
Next ==
  \/ \E s \in Side : \/ MainStep(s) \/ MainRead(s) \/ MainEOF(s) \/ FactoryStep(s)
                     \/ PadderStep(s) \/ SendStep(s) \/ ReaderStep(s)
  \/ TickerTick \/ TickerStep

Spec == Init /\ [][Next]_vars

\* Go runs every goroutine that can run, sleeps end, and the kernel reports a closed
\* connection.
Fairness ==
  /\ WF_vars(TickerStep)
  /\ \A s \in Side : /\ WF_vars(MainStep(s)) /\ WF_vars(FactoryStep(s))
                     /\ WF_vars(PadderStep(s)) /\ WF_vars(SendStep(s))
                     /\ WF_vars(ReaderStep(s))

FairSpec == Spec /\ Fairness

-----------------------------------------------------------------------------
(* Properties.                                                             *)

\* After a stop the padder queues one dummy more if it had read the state before the stop,
\* even one of a schedule drawn since, and none otherwise; and a schedule of n times costs
\* at most n dummies, and the one the padder held when it was drawn: the times of a
\* cancelled schedule never come back.
DummiesBounded == \A s \in Side : owed[s] >= 0 /\ credit[s] >= 0

\* No state change and no order to the factory is under way at s.
Settled(s) ==
  /\ fpc[s] = "select"
  /\ s = Client => ~MainBusy /\ ~TickerBusy
  /\ s = Server => rpc[s] = "recv"

\* The schedule follows the state: a defence that is on had a schedule drawn for it, one
\* that is off has nothing left to send.
ScheduleFollows ==
  \A s \in Side : Settled(s) => /\ st[s] = "Start" => told[s]
                                /\ st[s] # "Start" => tsQueue[s] = 0

\* The signals have arrived and the bridge has acted on them.
SignalsSettled ==
  /\ Settled(Client) /\ Settled(Server)
  /\ \A i \in 1..Len(chan[Client]) : chan[Client][i] \notin Signal

\* README: the client turns the bridge's defence on and off with its signals.
Agreement ==
  SignalsSettled /\ sending[Client] /\ ~Broken => (st[Server] = "Start" <=> st[Client] = "Start")

\* Schedule and bridge follow the client's state; that only fails at a client whose main
\* and ticker overlap.
FollowsUnlessRaced == ~raced => ScheduleFollows /\ Agreement

Terminating == \E s \in Side : mpc[s] = "done" \/ rpc[s] = "done"

\* Whatever a program writes reaches the other program, unless a copy loop terminates:
\* neither main nor the reader waits forever for the factory.
Delivery == \A s \in Side : []<>(got[Peer(s)] = acc[s] \/ Terminating)

CopyLoopDone(s) == mpc[s] = "done" /\ rpc[s] = "done"

\* Is a goroutine of copyLoop waiting on a channel whose only receiver has gone?
Abandoned(s) ==
  \/ rpc[s] \in {"tellStart", "tellStop"} /\ fpc[s] = "exit"
  \/ mpc[s] \in {"chop", "sigStart"} /\ Len(chan[s]) = ChanCap /\ ~sending[s]

\* copyLoop: one direction terminating closes the other, at both ends.  Nothing but such
\* a channel keeps it from that.
EndsUnlessAbandoned ==
  Terminating ~> (\A s \in Side : CopyLoopDone(s) \/ Abandoned(s))
=============================================================================
