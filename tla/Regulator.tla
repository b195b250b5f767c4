----------------------------- MODULE Regulator -----------------------------
(***************************************************************************)
(* The RegulaTor defence (transports/regulator): both ends of a            *)
(* connection.  An upstream goroutine fills a buffer; main empties it at a *)
(* rate that decays, sending dummies where it has no data; the bridge's    *)
(* padder goroutine starts and stops the defence on the client's signals.  *)
(*                                                                         *)
(* As in Front, sendChan, Send, the network and the peer's ReceiveBuffer   *)
(* are one queue, cut off when Send returns: what Send had written by then *)
(* counts as read before.  Data is counted in cells.                       *)
(*                                                                         *)
(* Of a rate only whether it is 0 is kept: then 1 / rate is +Inf, and main *)
(* sleeps for the 292 years that the conversion of +Inf to a Duration      *)
(* comes to.  Of times only whether the one a rate is reckoned from lies   *)
(* after the one main has read.                                            *)
(***************************************************************************)
EXTENDS Shaping, Sequences, SequencesExt

CONSTANTS MaxBudget, \* n: the bridge draws its padding budget from 0..n
          ChanCap,   \* packets that fit between the two ends
          Env        \* environments, records with fields
                     \*   chunks  chunks[s]: cells the program at s writes, write by write
                     \*   ends    the ends whose program then closes its connection
                     \*   ticks   bound: ticks of the client's ticker
                     \*   ahead   is the bridge's clock ahead of the client's?

NewEnd(s) ==
  [st      |-> "Stop",         \* ConnState
   toCome  |-> env.chunks[s],  \* what the program has yet to write
   upc     |-> "run",          \* where the upstream goroutine stands
   n       |-> 0,              \* cells of its last read
   buf     |-> 0,              \* receiveBuf, receiveQ
   mpc     |-> "poll",         \* where main stands
   newer   |-> FALSE,          \* is lastSend, or the client's t0, after the time main read?
   rate    |-> 1,              \* targetRate, the client's newRate
   budget  |-> 0,              \* paddingBudget
   ppc     |-> "wait",         \* where the bridge's padder stands
   tpc     |-> "idle",         \* where the client's ticker stands
   ticks   |-> 0,
   sent    |-> 0, rcv |-> 0,   \* NRealSegSent, NRealSegRcv of the client, up to 2
   chan    |-> <<>>,           \* packets on their way to the peer
   sending |-> TRUE,           \* has Send not returned?
   err     |-> FALSE,          \* is ErrChan filled?
   quit    |-> FALSE,          \* is CloseChan closed?
   reading |-> TRUE,           \* has the Read loop not returned?
   hand    |-> "none",         \* the signal the bridge's reader hands to the padder
   got     |-> 0,              \* cells given to the program
   closed  |-> FALSE,          \* the sockets of this end
   credit  |-> 0]              \* history: the last budget drawn and the dummy then in
                               \* main's hands, less the dummies queued since

Init == env \in Env /\ end = [s \in Side |-> NewEnd(s)]

Step(s, e) == end' = [end EXCEPT ![s] = e] /\ UNCHANGED env

\* The counters are left alone after the last tick, which nobody reads them after.
Count(n) == IF end[Client].ticks < env.ticks THEN UpTo2(n + 1) ELSE n

\* sendChan, of 10000 packets: a send waits until there is room, and when Send has returned
\* nobody makes any.
CanPut(s) == Len(end[s].chan) < ChanCap

-----------------------------------------------------------------------------
(* The upstream goroutine of either end; the client's also starts the defence. *)

UpRead(s) == LET e == end[s] IN
  /\ e.upc = "run" /\ e.toCome # <<>> /\ ~e.closed
  /\ Step(s, [e EXCEPT !.toCome = Tail(@), !.n = Head(e.toCome), !.buf = @ + Head(e.toCome),
                       !.upc = IF s = Client THEN "test" ELSE "run"])

UpEnd(s) == LET e == end[s] IN
  /\ e.upc = "run" /\ (e.closed \/ (e.toCome = <<>> /\ s \in env.ends))
  /\ Step(s, [e EXCEPT !.upc = "done", !.err = TRUE])

\* The state is loaded anew for each of the three tests.
UpTest(s) == LET e == end[s] IN
  \/ /\ e.upc = "test"
     /\ Step(s, [e EXCEPT !.upc = IF e.st = "Stop" /\ e.n > 1 THEN "start" ELSE "ready?"])
  \/ /\ e.upc = "ready?"
     /\ Step(s, [e EXCEPT !.upc = IF e.st = "Ready" THEN "start" ELSE "stop?"])
  \/ /\ e.upc = "stop?"
     /\ Step(s, [e EXCEPT !.upc = "run", !.st = IF @ = "Stop" THEN "Ready" ELSE @])

\* t0 is now.
UpStart(s) == LET e == end[s] IN
  e.upc = "start" /\ Step(s, [e EXCEPT !.upc = "signal", !.newer = FALSE, !.st = "Start"])

UpSignal(s) == LET e == end[s] IN
  /\ e.upc = "signal" /\ CanPut(s)
  /\ Step(s, [e EXCEPT !.upc = "run", !.chan = Append(@, "SignalStart")])

-----------------------------------------------------------------------------
(* The end of either main. *)

\* ErrChan is polled at the head of the loop: what is still buffered is dropped.
MainEnd(s) == LET e == end[s] IN
  e.mpc = "poll" /\ e.err /\ Step(s, [e EXCEPT !.mpc = "close", !.quit = TRUE])

MainClose(s) == LET e == end[s] IN
  e.mpc = "close" /\ Step(s, [e EXCEPT !.mpc = "done", !.closed = TRUE])

\* An iteration ends with the sleep of 1 / rate: one that is over in time changes nothing and
\* is part of the step before it (only main sets a rate to 0).
Rest(e) == IF e.rate > 0 THEN "poll" ELSE "sleep"

-----------------------------------------------------------------------------
(* The client's main and ticker.  One iteration of main is poll, rate, send, dummy if it *)
(* has no data, and sleep.                                                               *)

ClientPoll == LET e == end[Client] IN
  /\ e.mpc = "poll" /\ ~e.err
  /\ IF e.st = "Start" THEN Step(Client, [e EXCEPT !.mpc = "rate"])
     ELSE Step(Client, [e EXCEPT !.mpc = "send", !.rate = 1])

\* CalTargetRateWithLast: 0 if t0 is still to come.
ClientRate == LET e == end[Client] IN
  /\ e.mpc = "rate"
  /\ \E r \in IF e.newer THEN {0, 1} ELSE {1} : Step(Client, [e EXCEPT !.mpc = "send", !.rate = r])

ClientSend == LET e == end[Client] IN
  /\ e.mpc = "send"
  /\ IF e.buf > 0
     THEN CanPut(Client) /\ Step(Client, [e EXCEPT !.mpc = Rest(e), !.buf = @ - 1, !.sent = Count(@),
                                                   !.chan = Append(@, "Payload")])
     ELSE Step(Client, [e EXCEPT !.mpc = IF e.st = "Start" THEN "dummy" ELSE Rest(e)])

ClientDummy == LET e == end[Client] IN
  /\ e.mpc = "dummy" /\ CanPut(Client)
  /\ Step(Client, [e EXCEPT !.mpc = Rest(e), !.chan = Append(@, "Dummy")])

\* With more data waiting, a +Inf that converts to the largest Duration is found to delay it
\* too much, and one that converts to the smallest is not: that is the processor's choice.
ClientSleep == LET e == end[Client] IN
  /\ e.mpc = "sleep"
  /\ \/ e.buf > 0 /\ Step(Client, [e EXCEPT !.mpc = "poll"])
     \/ Step(Client, [e EXCEPT !.mpc = "asleep"])

Tick == LET e == end[Client] IN
  /\ e.tpc = "idle" /\ e.ticks < env.ticks /\ ~e.quit
  /\ IF e.st # "Stop" /\ (e.sent < 2 \/ e.rcv < 2)
     THEN Step(Client, [e EXCEPT !.ticks = @ + 1, !.tpc = "signal", !.st = "Stop"])
     ELSE Step(Client, [e EXCEPT !.ticks = @ + 1, !.sent = 0, !.rcv = 0])

TickSignal == LET e == end[Client] IN
  /\ e.tpc = "signal" /\ CanPut(Client)
  /\ Step(Client, [e EXCEPT !.tpc = "idle", !.sent = 0, !.rcv = 0, !.chan = Append(@, "SignalStop")])

-----------------------------------------------------------------------------
(* The bridge's main: poll, rate, send, consume and dummy if it has no data, and sleep.  *)

ServerPoll == LET e == end[Server] IN
  /\ e.mpc = "poll" /\ ~e.err
  /\ IF e.st = "Start" THEN Step(Server, [e EXCEPT !.mpc = "rate", !.newer = FALSE])
     ELSE Step(Server, [e EXCEPT !.mpc = "send", !.rate = 1])

\* CalTargetRate with the time main read before: 0 if lastSend was set since.
ServerRate == LET e == end[Server] IN
  e.mpc = "rate" /\ Step(Server, [e EXCEPT !.mpc = "send", !.rate = IF e.newer THEN 0 ELSE 1])


ServerSend == LET e == end[Server] IN
  /\ e.mpc = "send"
  /\ IF e.buf > 0
     THEN CanPut(Server) /\ Step(Server, [e EXCEPT !.mpc = Rest(e), !.buf = @ - 1,
                                                   !.chan = Append(@, "Payload")])
     ELSE Step(Server, [e EXCEPT !.mpc = IF e.st = "Start" THEN "consume" ELSE Rest(e)])

\* A bug: the budget is looked at but not used up.
ServerConsumeFree == LET e == end[Server] IN
  e.mpc = "consume" /\ Step(Server, [e EXCEPT !.mpc = IF e.budget > 0 THEN "dummy" ELSE Rest(e)])

\* ConsumePaddingBudget.
ServerConsume == LET e == end[Server] IN
  /\ e.mpc = "consume"
  /\ IF e.budget > 0 THEN Step(Server, [e EXCEPT !.mpc = "dummy", !.budget = @ - 1])
     ELSE Step(Server, [e EXCEPT !.mpc = Rest(e)])

ServerDummy == LET e == end[Server] IN
  /\ e.mpc = "dummy" /\ CanPut(Server)
  /\ Step(Server, [e EXCEPT !.mpc = Rest(e), !.chan = Append(@, "Dummy"), !.credit = @ - 1])

\* The rate is read again: the padder may have reset it since.
ServerSleep == LET e == end[Server] IN
  e.mpc = "sleep" /\ Step(Server, [e EXCEPT !.mpc = IF e.rate = 0 THEN "asleep" ELSE "poll"])

-----------------------------------------------------------------------------
(* The bridge's padder.  paddingChan is unbuffered: the reader waits until the padder    *)
(* takes the signal.                                                                     *)

PadderTake == LET e == end[Server] IN
  /\ e.ppc = "wait" /\ e.hand # "none"
  /\ Step(Server, [e EXCEPT !.hand = "none", !.ppc = IF e.hand = "SignalStart" THEN "rate" ELSE "wait",
                            !.st = IF e.hand = "SignalStop" THEN "Stop" ELSE @])

PadderRate == LET e == end[Server] IN
  e.ppc = "rate" /\ Step(Server, [e EXCEPT !.ppc = "budget", !.rate = 1])

PadderBudget == LET e == end[Server] IN
  /\ e.ppc = "budget"
  /\ \E n \in 0..MaxBudget :
       Step(Server, [e EXCEPT !.ppc = "stamp", !.budget = n,
                              !.credit = n + IF e.mpc = "dummy" THEN 1 ELSE 0])

\* lastSend is now: after the time main has read, if it has.
PadderStamp == LET e == end[Server] IN
  e.ppc = "stamp" /\ Step(Server, [e EXCEPT !.ppc = "start", !.newer = e.mpc = "rate"])

PadderStart == LET e == end[Server] IN
  e.ppc = "start" /\ Step(Server, [e EXCEPT !.ppc = "wait", !.st = "Start"])

PadderExit == LET e == end[Server] IN
  e.ppc = "wait" /\ e.quit /\ Step(Server, [e EXCEPT !.ppc = "done"])

-----------------------------------------------------------------------------
(* The readers (readPackets) and Send. *)

Signals == {"SignalStart", "SignalStop"}

\* The client counts its cells and takes its t0 from the bridge's packets, and with it the
\* bridge's clock.
Received(s, p) == LET e == end[s]  data == p = "Payload" IN
  IF s = Client
  THEN [e EXCEPT !.got = IF data THEN @ + 1 ELSE @, !.rcv = IF data THEN Count(@) ELSE @,
                 !.newer = @ \/ env.ahead]
  ELSE [e EXCEPT !.got = IF data THEN @ + 1 ELSE @, !.hand = IF p \in Signals THEN p ELSE @]

ReaderPacket(s) == LET e == end[s]  p == Peer(s)  q == end[p].chan IN
  /\ e.reading /\ ~e.closed /\ e.hand = "none" /\ end[p].sending /\ q # <<>>
  /\ end' = [end EXCEPT ![p].chan = Tail(q), ![s] = Received(s, Head(q))]
  /\ UNCHANGED env

\* Has everything that comes from the peer been read?
Drained(s) == end[Peer(s)].chan = <<>> \/ ~end[Peer(s)].sending

\* A bug: the Read loop ends without closing the sockets.
ReaderEndHalf(s) == LET e == end[s] IN
  /\ e.reading /\ e.hand = "none"
  /\ e.closed \/ (end[Peer(s)].closed /\ Drained(s))
  /\ Step(s, [e EXCEPT !.reading = FALSE])

ReaderEnd(s) == LET e == end[s] IN
  /\ e.reading /\ e.hand = "none"
  /\ e.closed \/ (end[Peer(s)].closed /\ Drained(s))
  /\ Step(s, [e EXCEPT !.reading = FALSE, !.closed = TRUE])

\* Send returns when CloseChan is closed or, with an error, when a write fails.
SendEnd(s) == LET e == end[s] IN
  /\ e.sending
  /\ \/ e.quit /\ Step(s, [e EXCEPT !.sending = FALSE])
     \/ /\ e.chan # <<>> /\ (e.closed \/ end[Peer(s)].closed)
        /\ Step(s, [e EXCEPT !.sending = FALSE, !.err = TRUE])

\* A packet is written to a connection whose other end is gone.
SendLost(s) == LET e == end[s] IN
  /\ e.sending /\ ~e.closed /\ end[Peer(s)].closed /\ e.chan # <<>>
  /\ Step(s, [e EXCEPT !.chan = Tail(@)])

-----------------------------------------------------------------------------
Upstream(s) == UpRead(s) \/ UpEnd(s) \/ UpTest(s) \/ UpStart(s) \/ UpSignal(s)
ClientMain == ClientPoll \/ ClientRate \/ ClientSend \/ ClientDummy \/ ClientSleep
ServerMain == ServerPoll \/ ServerRate \/ ServerSend \/ ServerConsume \/ ServerDummy \/ ServerSleep
Padder == PadderTake \/ PadderRate \/ PadderBudget \/ PadderStamp \/ PadderStart \/ PadderExit

Next == \/ \E s \in Side : \/ Upstream(s) \/ MainEnd(s) \/ MainClose(s)
                           \/ ReaderPacket(s) \/ ReaderEnd(s) \/ SendEnd(s) \/ SendLost(s)
        \/ ClientMain \/ Tick \/ TickSignal \/ ServerMain \/ Padder

\* Every goroutine keeps running, the programs write what they have, and a channel serves
\* the senders that wait on it in turn.
Fairness == /\ \A s \in Side : /\ SF_vars(Upstream(s)) /\ WF_vars(MainEnd(s) \/ MainClose(s))
                               /\ WF_vars(ReaderPacket(s) \/ ReaderEnd(s)) /\ WF_vars(SendEnd(s))
            /\ WF_vars(ClientMain) /\ WF_vars(TickSignal) /\ WF_vars(ServerMain) /\ WF_vars(Padder)
Spec == Init /\ [][Next]_vars /\ Fairness

-----------------------------------------------------------------------------
(* Properties. *)

Total(s) == FoldSeq(LAMBDA n, sum : n + sum, 0, env.chunks[s])

\* Has main gone to sleep on a rate of 0?  The client's does so only if the bridge's clock is
\* ahead of its own (regulator.go:508), the bridge's only if the client stopped and started
\* the defence while it reckoned its rate (params.go:46).
Asleep(s) == end[s].mpc = "asleep" /\ IF s = Client THEN env.ahead ELSE env.ticks > 0


Ended(s) == ~end[s].reading /\ ~end[s].sending /\ end[s].mpc = "done"

\* Does main or the reader wait for a goroutine that has gone: the bridge's reader for a
\* padder that went with CloseChan (packet.go:168), main for a Send that returned with an
\* error and left sendChan full (regulator.go:362, 376, 535, 539)?
Abandoned(s) ==
  \/ end[s].hand # "none" /\ end[s].ppc = "done"
  \/ /\ end[s].mpc = "dummy" \/ (end[s].mpc = "send" /\ end[s].buf > 0)
     /\ ~CanPut(s) /\ ~end[s].sending

\* One end closing winds down both, except for goroutines that wait for one that has gone or
\* sleep on a rate of 0.
EndsUnlessAbandoned ==
  (\E s \in Side : end[s].closed) ~> \A s \in Side : Ended(s) \/ Abandoned(s) \/ Asleep(s)
=============================================================================
