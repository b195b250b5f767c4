------------------------------ MODULE RandomWT ------------------------------
(***************************************************************************)
(* The random walkie-talkie defence (transports/randomwt): both ends of a  *)
(* connection.  The ends take turns: whoever finds a signal in canSendChan *)
(* sends one burst, real or fake, whose last packet, RealFinish or         *)
(* FakeFinish, becomes the peer's signal.                                  *)
(*                                                                         *)
(* An end is a record.  Its goroutines are main (ReadFrom), ticker, send   *)
(* and reader (copyLoop's Read loop).  writeChan holds 65535 packets and   *)
(* is never full here: a burst is queued in one step.  Data is counted in  *)
(* cells.  The trace logger is left out.                                   *)
(***************************************************************************)
EXTENDS Integers, Sequences, Queues

CONSTANTS NDummy,  \* n-client-real, n-server-real, n-client-fake, n-server-fake
          Env      \* the environments a connection may meet, records with fields
                   \*   chunks  chunks[s]: cells the program at s writes, write by write
                   \*   ends    the ends whose program then closes its connection
                   \*   kicks   bound: keep-alive timers that fire between live ends
                   \*   ticks   bound: ticks of the client's ticker

Client == "client"
Server == "server"
Side == {Client, Server}
Peer(s) == IF s = Client THEN Server ELSE Client

ASSUME RandomWTAssumption == NDummy \in Nat /\ \A v \in Env : v.chunks \in [Side -> Seq(Nat \ {0})]

VARIABLES env,   \* the environment, fixed from the start
          end,   \* the two ends
          kicks, \* keep-alive packets queued while the peer lived
          ticks, \* ticks so far
          early  \* history: the ends whose main gave up for a failed write while the
                 \*   reader was still at work
vars == <<env, end, kicks, ticks, early>>

NewEnd(s) ==
  [st      |-> "Stop",                                   \* conn.state
   mpc     |-> "select",                                 \* where main stands
   next    |-> "Stop",                                   \* nextState
   fake    |-> FALSE,                                    \* isFakeTurn
   canSend |-> IF s = Client THEN <<"Real">> ELSE <<>>,  \* canSendChan, capacity 1
   avail   |-> 0,                                        \* cells the program wrote
   toCome  |-> env.chunks[s],                            \* what it has yet to write
   wrote   |-> 0,                                        \* history: cells it wrote so far
   ended   |-> FALSE,                                    \* it closed its connection
   wq      |-> <<>>,                                     \* writeChan
   held    |-> <<>>,                                     \* the packet send has encoded
   spc     |-> "run",                                    \* where send stands
   nseg    |-> 0,                                        \* realNSeg, up to 2
   tpc     |-> "idle",                                   \* where ticker stands
   err     |-> FALSE,                                    \* is errChan filled?
   quit    |-> FALSE,                                    \* is closeChan closed?
   wire    |-> <<>>,                                     \* written, not read by the peer
   rbuf    |-> <<>>,                                     \* receiveBuffer
   dec     |-> 0,                                        \* receiveDecodedBuffer
   rpc     |-> "run",                                    \* where the reader stands
   got     |-> 0,                                        \* cells given to the program
   closed  |-> FALSE]                                    \* both sockets of this end

Init == /\ env \in Env /\ end = [s \in Side |-> NewEnd(s)] /\ kicks = 0 /\ ticks = 0 /\ early = {}

\* e with the fields of rec.
With(e, rec) == [f \in DOMAIN e |-> IF f \in DOMAIN rec THEN rec[f] ELSE e[f]]
Set(s, rec) == end' = [end EXCEPT ![s] = With(@, rec)]
Step(s, rec) == Set(s, rec) /\ UNCHANGED <<env, kicks, ticks, early>>
Cells(n) == [i \in 1..n |-> "Payload"]

\* sampleDummyBurst: how many dummies a burst may get.
Dummies(e) == IF e.st = "Stop" THEN {<<>>} ELSE {[i \in 1..n |-> "Dummy"] : n \in 0..NDummy}

-----------------------------------------------------------------------------
(* The program and its connection. *)

Arrive(s) == LET e == end[s] IN
  /\ e.toCome # <<>> /\ e.avail = 0
  /\ Step(s, [avail |-> Head(e.toCome), toCome |-> Tail(e.toCome), wrote |-> e.wrote + Head(e.toCome)])

ProgramEnds(s) == LET e == end[s] IN
  /\ s \in env.ends /\ e.toCome = <<>> /\ e.avail = 0 /\ ~e.ended
  /\ Step(s, [ended |-> TRUE])

-----------------------------------------------------------------------------
(* main: ReadFrom, clientTalkie, serverTalkie and padRealBurst. *)

MainErr(s) == LET e == end[s] IN
  /\ e.mpc = "select" /\ e.err /\ Set(s, [mpc |-> "teardown"])
  /\ early' = IF e.rpc = "done" THEN early ELSE early \cup {s}
  /\ UNCHANGED <<env, kicks, ticks>>

TakeTearDown(s) == LET e == end[s] IN
  /\ e.mpc = "select" /\ e.canSend = <<"TearDown">>
  /\ Step(s, [mpc |-> "teardown", canSend |-> <<>>])

\* A bug: every turn of a client that defends is fake.
IsFakeAlways(s) == LET e == end[s] IN
  IF s = Client THEN e.st # "Stop" ELSE e.canSend = <<"Dummy">>

\* Whose turn is fake: the client's every second one, the bridge's when it is told so.
IsFake(s) == LET e == end[s] IN
  IF s = Client THEN e.st # "Stop" /\ e.fake ELSE e.canSend = <<"Dummy">>

TakeReal(s) == LET e == end[s] IN
  /\ e.mpc = "select" /\ e.canSend \notin {<<>>, <<"TearDown">>} /\ ~IsFake(s)
  /\ Step(s, [mpc |-> "read", canSend |-> <<>>, fake |-> ~e.fake])

TakeFake(s) == LET e == end[s] IN
  /\ e.mpc = "select" /\ e.canSend \notin {<<>>, <<"TearDown">>} /\ IsFake(s)
  /\ \E d \in Dummies(e) :
       Step(s, [canSend |-> <<>>, fake |-> ~e.fake, wq |-> e.wq \o d \o <<"FakeFinish">>])

\* The coin says no: the client gives the signal back to itself.
TakeFakeAndSkip(s) == LET e == end[s] IN
  /\ s = Client /\ e.mpc = "select" /\ e.canSend \notin {<<>>, <<"TearDown">>} /\ IsFake(s)
  /\ Step(s, [mpc |-> "skip", canSend |-> <<>>, fake |-> ~e.fake])

Skip(s) == /\ end[s].mpc = "skip" /\ end[s].canSend = <<>>
           /\ Step(s, [mpc |-> "select", canSend |-> <<"Real">>])

\* A bug: a turn without data ends without a finish packet.
ReadTimeoutSilent(s) == LET e == end[s] IN
  /\ e.mpc = "read" /\ e.avail = 0 /\ ~e.ended /\ ~e.closed
  /\ \E d \in Dummies(e) : Step(s, [mpc |-> "select", wq |-> e.wq \o d])

ReadTimeout(s) == LET e == end[s] IN
  /\ e.mpc = "read" /\ e.avail = 0 /\ ~e.ended /\ ~e.closed
  /\ \E d \in Dummies(e) : Step(s, [mpc |-> "select", wq |-> e.wq \o d \o <<"RealFinish">>])

ReadFails(s) == LET e == end[s] IN
  /\ e.mpc = "read" /\ (e.closed \/ (e.ended /\ e.avail = 0))
  /\ Step(s, [mpc |-> "teardown"])

\* The client loads its state and chooses the next one: in Start it keeps the initial
\* value of nextState, 0, which is Start.
ReadData(s) == LET e == end[s] IN
  /\ e.mpc = "read" /\ e.avail > 0 /\ ~e.closed
  /\ IF s = Server THEN Step(s, [mpc |-> "burst"])
     ELSE IF e.st = "Stop" /\ e.avail = 1 THEN Step(s, [mpc |-> "store", next |-> "Ready"])
     ELSE Step(s, [mpc |-> IF e.st = "Start" THEN "store" ELSE "signal", next |-> "Start"])

SignalStart(s) == LET e == end[s] IN
  e.mpc = "signal" /\ Step(s, [mpc |-> "store", wq |-> Append(e.wq, "SignalStart")])

StoreNext(s) == end[s].mpc = "store" /\ Step(s, [mpc |-> "burst", st |-> end[s].next])

\* A bug: the finish packet overtakes the cells of its burst.
RealBurstFinishFirst(s) == LET e == end[s] IN
  /\ e.mpc = "burst"
  /\ \E d \in Dummies(e) :
       Step(s, [mpc |-> "select", avail |-> 0,
                wq |-> e.wq \o <<"RealFinish">> \o d \o Cells(e.avail)])

RealBurst(s) == LET e == end[s] IN
  /\ e.mpc = "burst"
  /\ \E d \in Dummies(e) :
       Step(s, [mpc |-> "select", avail |-> 0,
                wq |-> e.wq \o Cells(e.avail) \o d \o <<"RealFinish">>])

\* A bug: no keep-alive packet once the connection is closed.
KickOnlyLive(s) == LET e == end[s] IN
  /\ e.mpc = "select" /\ kicks < env.kicks /\ kicks' = kicks + 1
  /\ Set(s, [wq |-> Append(e.wq, "RealFinish")])
  /\ UNCHANGED <<env, ticks, early>>

\* isAliveTimer.  Once the peer's or the own socket is closed the packet wakes nobody:
\* its write fails.
Kick(s) == LET e == end[s] IN
  /\ e.mpc = "select"
  /\ Set(s, [wq |-> Append(e.wq, "RealFinish")])
  /\ IF e.closed \/ end[Peer(s)].closed
     THEN ~e.err /\ e.held = <<>> /\ e.wq = <<>> /\ e.spc = "run" /\ UNCHANGED kicks
     ELSE kicks < env.kicks /\ kicks' = kicks + 1
  /\ UNCHANGED <<env, ticks, early>>

\* The deferred tearDown and close(closeChan).  tearDown shares the encoder with send: if
\* send holds a frame with an older nonce, the peer cannot decode what arrives first.
TearDown(s) == LET e == end[s] IN
  /\ e.mpc = "teardown"
  /\ Step(s, [mpc |-> "close", quit |-> TRUE,
              wire |-> IF e.closed \/ end[Peer(s)].closed THEN e.wire
                       ELSE Append(e.wire, IF e.held = <<>> THEN "TearDown" ELSE "Bad")])

\* copyLoop closes both sockets.
MainClose(s) == end[s].mpc = "close" /\ Step(s, [mpc |-> "done", closed |-> TRUE])

-----------------------------------------------------------------------------
(* ticker and send. *)

Tick(s) == LET e == end[s] IN
  /\ s = Client /\ e.tpc = "idle" /\ ~e.quit /\ ticks < env.ticks /\ ticks' = ticks + 1
  /\ IF e.st # "Stop" /\ e.nseg < 2 THEN Set(s, [wq |-> Append(e.wq, "SignalStop"), tpc |-> "store"])
     ELSE Set(s, [nseg |-> 0])
  /\ UNCHANGED <<env, kicks, early>>

TickStore(s) == end[s].tpc = "store" /\ Step(s, [tpc |-> "idle", st |-> "Stop", nseg |-> 0])

SendTake(s) == LET e == end[s] IN
  /\ e.spc = "run" /\ e.wq # <<>> /\ e.held = <<>>
  /\ Step(s, [wq |-> Tail(e.wq), held |-> <<Head(e.wq)>>,
              nseg |-> IF Head(e.wq) = "Payload" /\ e.nseg < 2 THEN e.nseg + 1 ELSE e.nseg])

SendWrite(s) == LET e == end[s] IN
  /\ e.spc = "run" /\ e.held # <<>> /\ ~e.closed /\ ~end[Peer(s)].closed
  /\ Step(s, [held |-> <<>>, wire |-> e.wire \o e.held])

SendFails(s) == LET e == end[s] IN
  /\ e.spc = "run" /\ e.held # <<>> /\ (e.closed \/ end[Peer(s)].closed)
  /\ Step(s, [held |-> <<>>, err |-> TRUE, spc |-> "done"])

SendExit(s) == LET e == end[s] IN
  e.spc = "run" /\ e.held = <<>> /\ e.quit /\ Step(s, [spc |-> "done", wq |-> <<>>])

-----------------------------------------------------------------------------
(* The reader: Read and readPackets.  A packet that holds a signal waits for room in     *)
(* canSendChan; what was decoded is given to the program when receiveBuffer is empty.    *)

ReaderRead(s) == LET p == Peer(s) IN
  /\ end[s].rpc = "run" /\ end[s].rbuf = <<>> /\ end[s].dec = 0 /\ ~end[s].closed
  /\ end[p].wire # <<>>
  /\ end' = [end EXCEPT ![s].rbuf = end[p].wire, ![p].wire = <<>>]
  /\ UNCHANGED <<env, kicks, ticks, early>>

SignalOf(p) == CASE p = "RealFinish" -> <<"Real">> [] p = "FakeFinish" -> <<"Dummy">>
                 [] p = "TearDown" -> <<"TearDown">> [] OTHER -> <<>>

ReaderPacket(s) == LET e == end[s] IN
  /\ e.rpc = "run" /\ e.rbuf # <<>>
  /\ LET p == Head(e.rbuf)  rest == Tail(e.rbuf) IN
     \/ /\ SignalOf(p) # <<>> /\ e.canSend = <<>>
        /\ Step(s, [rbuf |-> rest, canSend |-> SignalOf(p)])
     \/ p = "Payload"     /\ Step(s, [rbuf |-> rest, dec |-> e.dec + 1])
     \/ p = "Dummy"       /\ Step(s, [rbuf |-> rest])
     \/ p = "SignalStart" /\ Step(s, [rbuf |-> rest, st |-> "Start"])
     \/ p = "SignalStop"  /\ Step(s, [rbuf |-> rest, st |-> "Stop"])
     \/ p = "Bad"         /\ Step(s, [rbuf |-> <<>>, rpc |-> "fail"])

ReaderDeliver(s) == LET e == end[s] IN
  /\ e.rpc # "done" /\ e.rbuf = <<>> /\ e.dec > 0
  /\ IF e.closed THEN Step(s, [dec |-> 0, rpc |-> "fail"])
     ELSE Step(s, [dec |-> 0, got |-> e.got + e.dec])

\* A read or decoding error ends copyLoop's goroutine, which closes both sockets.
ReaderEnd(s) == LET e == end[s] IN
  /\ e.rbuf = <<>> /\ e.dec = 0
  /\ \/ e.rpc = "fail"
     \/ e.rpc = "run" /\ (e.closed \/ (end[Peer(s)].closed /\ end[Peer(s)].wire = <<>>))
  /\ Step(s, [rpc |-> "done", closed |-> TRUE])

-----------------------------------------------------------------------------
Main(s) == \/ MainErr(s) \/ TakeTearDown(s) \/ TakeReal(s) \/ TakeFake(s) \/ TakeFakeAndSkip(s)
           \/ Skip(s) \/ ReadTimeout(s) \/ ReadFails(s) \/ ReadData(s) \/ SignalStart(s)
           \/ StoreNext(s) \/ RealBurst(s) \/ TearDown(s) \/ MainClose(s)
Send(s) == SendTake(s) \/ SendWrite(s) \/ SendFails(s) \/ SendExit(s)
Reader(s) == ReaderRead(s) \/ ReaderPacket(s) \/ ReaderDeliver(s) \/ ReaderEnd(s)

Next == \E s \in Side : \/ Arrive(s) \/ ProgramEnds(s) \/ Main(s) \/ Kick(s)
                        \/ Tick(s) \/ TickStore(s) \/ Send(s) \/ Reader(s)

Spec == Init /\ [][Next]_vars

\* Every goroutine keeps running, the timer fires, the program writes what it has.
FairSpec == /\ Spec
            /\ \A s \in Side : /\ WF_vars(Main(s)) /\ WF_vars(Kick(s)) /\ WF_vars(Arrive(s))
                               /\ WF_vars(TickStore(s)) /\ WF_vars(Send(s)) /\ WF_vars(Reader(s))

-----------------------------------------------------------------------------
(* Properties. *)

\* What is on its way from s to the other end, oldest first.
Flight(s) == (end[Peer(s)].rbuf \o end[s].wire) \o (end[s].held \o end[s].wq)

Finish == {"RealFinish", "FakeFinish"}
Turns(s) == Occurrences(Flight(s), Finish)
            + (IF end[s].canSend \in {<<"Real">>, <<"Dummy">>} THEN 1 ELSE 0)
            + (IF end[s].mpc \in {"read", "signal", "store", "burst", "skip"} THEN 1 ELSE 0)
Ending == \E s \in Side : end[s].err \/ end[s].closed \/ end[s].mpc \in {"teardown", "close", "done"}
AllGiven(s) == end[s].toCome = <<>> /\ end[Peer(s)].got = end[s].wrote

\* However the two mains, the senders and the readers interleave, there is exactly one turn
\* in the connection, as a signal, a finish packet or a main that is in its turn, and one
\* more for each keep-alive packet (randomwt.go:686) sent between live ends.
OneTurn == ~Ending => Turns(Client) + Turns(Server) = 1 + kicks

\* When a program closes its connection after writing, all it wrote reaches the other
\* program before that end closes: tearDown goes past writeChan, but main sees the end of
\* the stream only in a turn, and the turn came back after everything sent before.
\* (Not so if the other end's main acts on a failed write, of the keep-alive packet or of
\* the ticker's signal, while its reader still has data.)
EndLosesNothing == \A s \in Side :
  kicks = 0 /\ env.ends = {s} /\ Peer(s) \notin early /\ end[Peer(s)].rpc = "done" => AllGiven(s)

\* While nobody ends and no keep-alive packet disturbs the turns, all data is delivered,
\* whatever the coins of the fake turns, the read timeouts and the ticker do.
Delivery == env.ends = {} /\ env.kicks = 0 => <>(\A s \in Side : AllGiven(s))

\* One end closing winds down both, tearDown decodable or not: a main that waits for a
\* signal is woken by the keep-alive packet whose write fails (randomwt.go:686).
EndsUnlessKicked == env.kicks = 0 /\ (\E s \in Side : end[s].closed) ~>
                    \A s \in Side : end[s].mpc = "done" /\ end[s].spc = "done" /\ end[s].rpc = "done"
=============================================================================
