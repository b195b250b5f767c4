------------------------------- MODULE WFGan -------------------------------
(***************************************************************************)
(* The WFGAN defence (transports/wfgan): both ends of a connection.  While *)
(* the defence is on, the client shapes its data into bursts whose sizes a *)
(* generator supplies, and closes each with a Finish packet that tells the *)
(* bridge the size of its answer; the bridge sends only when told to.      *)
(* While it is off, both send what they have; the bridge is then told to   *)
(* send by its own detector, which puts zeros into canSendChan.            *)
(*                                                                         *)
(* SendChan, Send, the network and the peer's ReceiveBuffer are one queue, *)
(* never full for a burst that has begun.  Data is counted in bytes.       *)
(* Sleeps, the trace log and the end of a connection once a main has       *)
(* returned are left out.                                                  *)
(***************************************************************************)
EXTENDS Shaping, Sequences, SequencesExt, Queues

CONSTANTS Pairs,   \* the (request, response) sizes the generator's network gives
          Tol,     \* tol, in percent
          SigCap,  \* capacity of canSendChan
          Ahead,   \* bound: packets on their way when a burst begins
          Env      \* environments, records with fields
                   \*   chunks  chunks[s]: bytes the program at s writes, write by write
                   \*   gan     what the generator does: "answers", "absent" or "fails"
                   \*   ticks   bound: ticks of the client's ticker

\* Sizes and the tolerance are numbers, and a program writes bytes.
Numbers == /\ Pairs \subseteq Int \X Int /\ Tol \in Int
           /\ \A v \in Env : \A s \in {"client", "server"} : v.chunks[s] \in Seq(Nat)
ASSUME WFGanAssumption == Numbers

MaxPacketPayloadLength == 536

NewEnd(s) ==
  [st      |-> "Stop",         \* ConnState
   toCome  |-> env.chunks[s],  \* what the program has yet to write
   upc     |-> "run",          \* where the upstream goroutine stands
   n       |-> 0,              \* bytes of its last read
   buf     |-> 0,              \* receiveBuf
   bursts  |-> <<>>,           \* burstQueue
   canSend |-> <<>>,           \* canSendChan
   dpc     |-> "look",         \* where the detector stands
   tpc     |-> "idle",         \* where the ticker stands
   ticks   |-> 0,
   sent    |-> 0, rcv |-> 0,   \* NRealSegSent, NRealSegRcv, up to 2
   chan    |-> <<>>,           \* packets on their way to the peer
   err     |-> FALSE,          \* is ErrChan filled?
   mpc     |-> "run",          \* where main stands
   got     |-> 0,              \* bytes given to the program
   raced   |-> FALSE,          \* history: a state was set before another's signal was queued
   stale   |-> 0]              \* history: zeros on their way when the defence came on

Init == env \in Env /\ end = [s \in Side |-> NewEnd(s)]

Step(s, e) == end' = [end EXCEPT ![s] = e] /\ UNCHANGED env

-----------------------------------------------------------------------------
(* Bursts. *)

Least(a, b) == IF a < b THEN a ELSE b
Most(a, b) == IF a < b THEN b ELSE a
Percent(x, p) == (x * p + 50) \div 100      \* math.Round, for these sizes

\* How much sendRefBurst sends for a reference size and what is buffered.
ToSend(ref, buf) == LET lower == Most(Percent(ref, 100 - Tol), 536)
                        upper == Percent(ref, 100 + Tol)
                    IN IF buf < lower THEN lower ELSE Least(buf, upper)

\* The k-th packet when buf bytes wait.
PacketAt(k, buf) == LET left == buf - (k - 1) * MaxPacketPayloadLength
                    IN IF left > 0 THEN <<"Payload", Least(left, MaxPacketPayloadLength)>>
                       ELSE <<"Dummy", 0>>

RefBurst(ref, buf) == [k \in 1..(ToSend(ref, buf) \div MaxPacketPayloadLength) |-> PacketAt(k, buf)]
RealBurst(buf) == [k \in 1..((buf + MaxPacketPayloadLength - 1) \div MaxPacketPayloadLength) |->
                     PacketAt(k, buf)]
\* How many of buf bytes are in a burst.
Sent(burst, buf) == Least(buf, Len(burst) * MaxPacketPayloadLength)
Reals(burst) == Len(SelectSeq(burst, LAMBDA p : p[1] = "Payload"))

-----------------------------------------------------------------------------
(* The client: upstream goroutine, ticker, refill and main. *)

UpRead(s) == LET e == end[s] IN
  /\ e.upc = "run" /\ e.toCome # <<>>
  /\ Step(s, [e EXCEPT !.toCome = Tail(@), !.n = Head(e.toCome), !.buf = @ + Head(e.toCome),
                       !.upc = IF s = Client THEN "test" ELSE "run"])

\* The state is loaded anew for each of the three tests.
UpTest == LET e == end[Client] IN
  \/ /\ e.upc = "test"
     /\ Step(Client, [e EXCEPT !.upc = IF e.st = "Stop" /\ e.n > MaxPacketPayloadLength
                                       THEN "start" ELSE "ready?"])
  \/ e.upc = "ready?" /\ Step(Client, [e EXCEPT !.upc = IF e.st = "Ready" THEN "start" ELSE "stop?"])
  \/ e.upc = "stop?" /\ Step(Client, [e EXCEPT !.upc = "run", !.st = IF @ = "Stop" THEN "Ready" ELSE @])

UpStart == LET e == end[Client] IN
  /\ e.upc = "start"
  /\ Step(Client, [e EXCEPT !.upc = "signal", !.st = "Start", !.raced = @ \/ e.tpc = "signal"])

UpSignal == LET e == end[Client] IN
  /\ e.upc = "signal"
  /\ Step(Client, [e EXCEPT !.upc = "run", !.chan = Append(@, <<"SignalStart", 0>>)])

Tick == LET e == end[Client] IN
  /\ e.tpc = "idle" /\ e.ticks < env.ticks
  /\ IF e.st # "Stop" /\ (e.sent < 2 \/ e.rcv < 2)
     THEN Step(Client, [e EXCEPT !.ticks = @ + 1, !.tpc = "signal", !.st = "Stop",
                                 !.raced = @ \/ e.upc = "signal"])
     ELSE Step(Client, [e EXCEPT !.ticks = @ + 1, !.sent = 0, !.rcv = 0])

\* A bug: the bridge is not told that the defence stops.
TickSignalSilent == LET e == end[Client] IN
  /\ e.tpc = "signal"
  /\ Step(Client, [e EXCEPT !.tpc = "idle", !.sent = 0, !.rcv = 0])

TickSignal == LET e == end[Client] IN
  /\ e.tpc = "signal"
  /\ Step(Client, [e EXCEPT !.tpc = "idle", !.sent = 0, !.rcv = 0,
                            !.chan = Append(@, <<"SignalStop", 0>>)])

\* The generator's answer: no size below a cell.
Sample(p) == [i \in 1..2 |-> Most(p[i], 536)]

\* The generator is asked again when the queue runs low.  A failed dial ends the connection;
\* a failed Query is logged and its nil answer read: the client's process panics, and no
\* goroutine of it goes on.  What it had written by then counts as read before.
Refill == LET e == end[Client] IN
  /\ e.bursts = <<>> /\ ~e.err /\ e.mpc \in {"run", "wait"}
  /\ \/ /\ env.gan = "answers"
        /\ \E p \in Pairs : Step(Client, [e EXCEPT !.bursts = <<Sample(p)>>])
     \/ env.gan = "absent" /\ Step(Client, [e EXCEPT !.err = TRUE])
     \/ /\ env.gan = "fails"
        /\ Step(Client, [e EXCEPT !.upc = "panic", !.tpc = "panic", !.mpc = "panic", !.chan = <<>>])

MainEnd(s) == end[s].mpc = "run" /\ end[s].err /\ Step(s, [end[s] EXCEPT !.mpc = "done"])

\* main waits a second for a burst, and does not look at the state again.
ClientWait == LET e == end[Client] IN
  \/ e.mpc = "run" /\ ~e.err /\ e.st = "Start" /\ Step(Client, [e EXCEPT !.mpc = "wait"])
  \/ e.mpc = "wait" /\ e.bursts = <<>> /\ Step(Client, [e EXCEPT !.mpc = "run"])

ClientRefBurst == LET e == end[Client] IN
  /\ e.mpc = "wait" /\ e.bursts # <<>> /\ Len(e.chan) < Ahead
  /\ LET burst == RefBurst(e.bursts[1][1], e.buf) IN
     Step(Client, [e EXCEPT !.mpc = "run", !.bursts = <<>>, !.buf = @ - Sent(burst, @),
                            !.sent = UpTo2(@ + Reals(burst)),
                            !.chan = @ \o Append(burst, <<"Finish", e.bursts[1][2]>>)])

ClientRealBurst == LET e == end[Client]  burst == RealBurst(e.buf) IN
  /\ e.mpc = "run" /\ ~e.err /\ e.st # "Start" /\ e.buf > 0
  /\ Step(Client, [e EXCEPT !.buf = 0, !.sent = UpTo2(@ + Reals(burst)), !.chan = @ \o burst])

-----------------------------------------------------------------------------
(* The bridge: detector and main. *)

\* A bug: the detector does not look at the state.
DetectorLookNot == end[Server].dpc = "look" /\ Step(Server, [end[Server] EXCEPT !.dpc = "put"])

DetectorLook == /\ end[Server].dpc = "look" /\ end[Server].st = "Stop"
                /\ Step(Server, [end[Server] EXCEPT !.dpc = "put"])

DetectorPut == LET e == end[Server] IN
  /\ e.dpc = "put" /\ Len(e.canSend) < SigCap
  /\ Step(Server, [e EXCEPT !.dpc = "look", !.canSend = Append(@, 0)])

\* A zero means that the defence is off, whatever the state is by now.
ServerRealBurst == LET e == end[Server] IN
  /\ e.mpc = "run" /\ e.canSend # <<>> /\ Head(e.canSend) = 0
  /\ Step(Server, [e EXCEPT !.canSend = Tail(@), !.buf = 0, !.chan = @ \o RealBurst(e.buf),
                            !.stale = IF e.st = "Start" THEN @ - 1 ELSE @])

ServerRefBurst == LET e == end[Server]  burst == RefBurst(Head(e.canSend), e.buf) IN
  /\ e.mpc = "run" /\ e.canSend # <<>> /\ Head(e.canSend) # 0 /\ Len(e.chan) < Ahead
  /\ \/ e.buf = 0 /\ Step(Server, [e EXCEPT !.canSend = Tail(@)])  \* skipRespond
     \/ Step(Server, [e EXCEPT !.canSend = Tail(@), !.buf = @ - Sent(burst, @),
                               !.chan = @ \o burst])

-----------------------------------------------------------------------------
(* The readers. *)

Zeros(e) == Occurrences(e.canSend, {0}) + (IF e.dpc = "put" THEN 1 ELSE 0)

ReaderPayload(s) == LET q == end[Peer(s)].chan IN
  /\ q # <<>> /\ Head(q)[1] \in {"Payload", "Dummy"} /\ end[s].mpc # "panic"
  /\ end' = [end EXCEPT ![Peer(s)].chan = Tail(q), ![s].got = @ + Head(q)[2],
                        ![s].rcv = IF Head(q)[1] = "Payload" THEN UpTo2(@ + 1) ELSE @]
  /\ UNCHANGED env

ReaderSignal == LET q == end[Client].chan  e == end[Server] IN
  /\ q # <<>> /\ Head(q)[1] \in {"SignalStart", "SignalStop"}
  /\ end' = [end EXCEPT ![Client].chan = Tail(q),
                        ![Server].st = IF Head(q)[1] = "SignalStart" THEN "Start" ELSE "Stop",
                        ![Server].stale = IF Head(q)[1] = "SignalStart" /\ e.st # "Start"
                                          THEN Zeros(e) ELSE @]
  /\ UNCHANGED env

\* Waits for room in canSendChan, and everything behind it waits with it.
ReaderFinish == LET q == end[Client].chan IN
  /\ q # <<>> /\ Head(q)[1] = "Finish" /\ Len(end[Server].canSend) < SigCap
  /\ end' = [end EXCEPT ![Client].chan = Tail(q), ![Server].canSend = Append(@, Head(q)[2])]
  /\ UNCHANGED env

-----------------------------------------------------------------------------
ClientMain == MainEnd(Client) \/ ClientWait \/ ClientRefBurst \/ ClientRealBurst
ServerMain == ServerRealBurst \/ ServerRefBurst
Reader == ReaderPayload(Server) \/ ReaderSignal \/ ReaderFinish
Next == \/ UpRead(Client) \/ UpRead(Server) \/ UpTest \/ UpStart \/ UpSignal \/ Tick \/ TickSignal \/ Refill
        \/ ClientMain \/ DetectorLook \/ DetectorPut \/ ServerMain
        \/ ReaderPayload(Client) \/ Reader

\* Every goroutine keeps running and the programs write what they have.  Senders that wait
\* for room in a channel are served in turn: hence the strong fairness of ReaderFinish.
Fairness == /\ WF_vars(UpRead(Server)) /\ WF_vars(UpRead(Client) \/ UpTest \/ UpStart \/ UpSignal)
            /\ WF_vars(TickSignal) /\ WF_vars(Refill) /\ WF_vars(ClientMain)
            /\ WF_vars(DetectorLook \/ DetectorPut) /\ WF_vars(ServerMain)
            /\ WF_vars(ReaderPayload(Client)) /\ WF_vars(Reader) /\ SF_vars(ReaderFinish)
Spec == Init /\ [][Next]_vars /\ Fairness

-----------------------------------------------------------------------------
(* Properties. *)

Total(s) == FoldSeq(LAMBDA n, sum : n + sum, 0, env.chunks[s])

\* With a generator that answers, all data arrives although the bridge may only speak when
\* told, unless ticker and upstream goroutine overlapped and the signals went out in the
\* wrong order: then the bridge may wait for a Finish that never comes.
DeliveryUnlessRaced == env.gan = "answers" =>
  <>(end[Client].raced \/ \A s \in Side : end[Peer(s)].got = Total(s))
=============================================================================
