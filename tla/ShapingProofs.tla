-------------------------- MODULE ShapingProofs ----------------------------
(***************************************************************************)
(* Theorems about the two defences in which the bridge shapes its traffic. *)
(* RegulaTor: it keeps to its padding budget, however main and padder      *)
(* interleave.  WFGAN: while defending it sends no more undefended bursts  *)
(* than its detector had asked for before.                                 *)
(***************************************************************************)
EXTENDS Regulator, QueueProofs

\* The dummies that may still be queued are those of the budget and the one whose unit
\* main has already taken from it.
Balanced(e) ==
  /\ {"mpc", "budget", "credit"} \subseteq DOMAIN e
  /\ e.budget \in Nat
  /\ e.credit = e.budget + (IF e.mpc = "dummy" THEN 1 ELSE 0)

IInv == DOMAIN end = Side /\ Balanced(end[Server])

\* The ends are the client and the bridge.
LEMMA TwoSides == /\ Client \in Side /\ Server \in Side /\ Client # Server
                  /\ \A s \in Side : s = Client \/ s = Server
                  /\ Peer(Client) = Server /\ Peer(Server) = Client
  BY DEF Side, Peer, Client, Server

\* A step of one end that keeps the bridge's balance.
LEMMA BalancedStep ==
  ASSUME IInv, NEW s \in Side, NEW e, Step(s, e), s = Server => Balanced(e)
  PROVE  IInv'
<1>1. DOMAIN end' = Side /\ end'[Server] = IF s = Server THEN e ELSE end[Server]
  BY TwoSides DEF IInv, Step
<1> QED BY <1>1 DEF IInv, Balanced

\* A step of the client leaves the bridge's balance alone.
LEMMA ClientStep ==
  ASSUME IInv, NEW e, Step(Client, e)
  PROVE  IInv'
  BY BalancedStep, TwoSides

\* The steps of the upstream goroutines, the copy loops and Send.
LEMMA CommonSteps ==
  ASSUME IInv, NEW s \in Side,
         Upstream(s) \/ MainEnd(s) \/ MainClose(s) \/ ReaderEnd(s) \/ SendEnd(s) \/ SendLost(s)
  PROVE  IInv'
<1>1. CASE UpRead(s) BY <1>1, TwoSides DEF UpRead, Step, IInv, Balanced
<1>2. CASE UpEnd(s) BY <1>2, TwoSides DEF UpEnd, Step, IInv, Balanced
<1>3. CASE UpTest(s)
  <2> DEFINE d == end[s]
             u == IF d.st = "Stop" /\ d.n > 1 THEN "start" ELSE "ready?"
             v == IF d.st = "Ready" THEN "start" ELSE "stop?"
             t == IF d.st = "Stop" THEN "Ready" ELSE d.st
  <2>1. \/ Step(s, [d EXCEPT !.upc = u]) \/ Step(s, [d EXCEPT !.upc = v])
        \/ Step(s, [d EXCEPT !.upc = "run", !.st = t])
    BY <1>3, Zenon DEF UpTest
  <2> HIDE DEF u, v, t
  <2>2. CASE Step(s, [d EXCEPT !.upc = u]) BY <2>2, TwoSides DEF Step, IInv, Balanced
  <2>3. CASE Step(s, [d EXCEPT !.upc = v]) BY <2>3, TwoSides DEF Step, IInv, Balanced
  <2>4. CASE Step(s, [d EXCEPT !.upc = "run", !.st = t]) BY <2>4, TwoSides DEF Step, IInv, Balanced
  <2> QED BY <2>1, <2>2, <2>3, <2>4
<1>4. CASE UpStart(s) BY <1>4, TwoSides DEF UpStart, Step, IInv, Balanced
<1>5. CASE UpSignal(s) BY <1>5, TwoSides DEF UpSignal, Step, IInv, Balanced
<1>6. CASE ReaderEnd(s) BY <1>6, TwoSides DEF ReaderEnd, Step, IInv, Balanced
<1>7. CASE SendEnd(s)
  <2> DEFINE d == end[s]
  <2>1. \/ Step(s, [d EXCEPT !.sending = FALSE]) \/ Step(s, [d EXCEPT !.sending = FALSE, !.err = TRUE])
    BY <1>7, Zenon DEF SendEnd
  <2>2. CASE Step(s, [d EXCEPT !.sending = FALSE]) BY <2>2, TwoSides DEF Step, IInv, Balanced
  <2>3. CASE Step(s, [d EXCEPT !.sending = FALSE, !.err = TRUE])
    BY <2>3, TwoSides DEF Step, IInv, Balanced
  <2> QED BY <2>1, <2>2, <2>3
<1>8. CASE SendLost(s) BY <1>8, TwoSides DEF SendLost, Step, IInv, Balanced
<1>9. CASE MainEnd(s) BY <1>9, TwoSides DEF MainEnd, Step, IInv, Balanced
<1>10. CASE MainClose(s) BY <1>10, TwoSides DEF MainClose, Step, IInv, Balanced
<1> QED BY <1>1, <1>2, <1>3, <1>4, <1>5, <1>6, <1>7, <1>8, <1>9, <1>10 DEF Upstream

\* The steps of the client's main and ticker.
LEMMA ClientSteps ==
  ASSUME IInv, ClientMain \/ Tick \/ TickSignal
  PROVE  IInv'
<1>1. CASE ClientPoll BY <1>1, ClientStep DEF ClientPoll
<1>2. CASE ClientRate BY <1>2, ClientStep DEF ClientRate
<1>3. CASE ClientSend BY <1>3, ClientStep DEF ClientSend
<1>4. CASE ClientDummy BY <1>4, ClientStep DEF ClientDummy
<1>5. CASE ClientSleep BY <1>5, ClientStep DEF ClientSleep
<1>6. CASE Tick BY <1>6, ClientStep DEF Tick
<1>7. CASE TickSignal BY <1>7, ClientStep DEF TickSignal
<1> QED BY <1>1, <1>2, <1>3, <1>4, <1>5, <1>6, <1>7 DEF ClientMain

\* A main that goes to its sleep holds no dummy.
LEMMA Resting == \A e : Rest(e) \in {"poll", "sleep"} BY DEF Rest

\* The steps of the bridge's main: a dummy is paid for before it is queued.
LEMMA ServerSteps ==
  ASSUME IInv, ServerMain
  PROVE  IInv'
<1> DEFINE d == end[Server]
<1>0. Server \in Side /\ Balanced(d) BY TwoSides DEF IInv
<1>1. CASE ServerPoll
  <2>1. /\ d.mpc = "poll"
        /\ \/ Step(Server, [d EXCEPT !.mpc = "rate", !.newer = FALSE])
           \/ Step(Server, [d EXCEPT !.mpc = "send", !.rate = 1])
    BY <1>1, Zenon DEF ServerPoll
  <2>2. CASE Step(Server, [d EXCEPT !.mpc = "rate", !.newer = FALSE])
    BY <1>0, <2>1, <2>2 DEF Step, IInv, Balanced
  <2>3. CASE Step(Server, [d EXCEPT !.mpc = "send", !.rate = 1])
    BY <1>0, <2>1, <2>3 DEF Step, IInv, Balanced
  <2> QED BY <2>1, <2>2, <2>3
<1>2. CASE ServerRate BY <1>0, <1>2, TwoSides DEF ServerRate, Step, IInv, Balanced
<1>3. CASE ServerSend
  <2> DEFINE m == IF d.st = "Start" THEN "consume" ELSE Rest(d)
  <2>1. /\ d.mpc = "send"
        /\ \/ Step(Server, [d EXCEPT !.mpc = Rest(d), !.buf = @ - 1, !.chan = Append(@, "Payload")])
           \/ Step(Server, [d EXCEPT !.mpc = m])
    BY <1>3, Zenon DEF ServerSend
  <2>2. CASE Step(Server, [d EXCEPT !.mpc = Rest(d), !.buf = @ - 1, !.chan = Append(@, "Payload")])
    BY <1>0, <2>1, <2>2, Resting DEF Step, IInv, Balanced
  <2>3. CASE Step(Server, [d EXCEPT !.mpc = m])
    BY <1>0, <2>1, <2>3, Resting DEF Step, IInv, Balanced
  <2> QED BY <2>1, <2>2, <2>3
<1>4. CASE ServerConsume
  <2>1. CASE d.budget > 0
    <3> DEFINE e == [d EXCEPT !.mpc = "dummy", !.budget = @ - 1]
    <3>1. d.mpc = "consume" /\ Step(Server, e) BY <1>4, <2>1 DEF ServerConsume
    <3>2. Balanced(e) BY <1>0, <2>1, <3>1 DEF Balanced
    <3> QED BY <1>0, <3>1, <3>2, BalancedStep
  <2>2. CASE ~(d.budget > 0) BY <1>0, <1>4, <2>2, Resting, TwoSides DEF ServerConsume, Step, IInv, Balanced
  <2> QED BY <2>1, <2>2
<1>5. CASE ServerDummy
  <2> DEFINE e == [d EXCEPT !.mpc = Rest(d), !.chan = Append(@, "Dummy"), !.credit = @ - 1]
  <2>1. d.mpc = "dummy" /\ Step(Server, e) BY <1>5 DEF ServerDummy
  <2>2. Balanced(e) BY <1>0, <2>1, Resting DEF Balanced
  <2> QED BY <1>0, <2>1, <2>2, BalancedStep
<1>6. CASE ServerSleep BY <1>0, <1>6, TwoSides DEF ServerSleep, Step, IInv, Balanced
<1> QED BY <1>1, <1>2, <1>3, <1>4, <1>5, <1>6 DEF ServerMain

\* The steps of the padder: a draw replaces the budget, whatever main has taken.
LEMMA PadderSteps ==
  ASSUME IInv, Padder
  PROVE  IInv'
<1> DEFINE d == end[Server]
<1>0. Server \in Side /\ Balanced(d) BY TwoSides DEF IInv
<1>1. CASE PadderTake BY <1>0, <1>1, TwoSides DEF PadderTake, Step, IInv, Balanced
<1>2. CASE PadderRate BY <1>0, <1>2, TwoSides DEF PadderRate, Step, IInv, Balanced
<1>3. CASE PadderStamp BY <1>0, <1>3, TwoSides DEF PadderStamp, Step, IInv, Balanced
<1>4. CASE PadderStart BY <1>0, <1>4, TwoSides DEF PadderStart, Step, IInv, Balanced
<1>5. CASE PadderExit BY <1>0, <1>5, TwoSides DEF PadderExit, Step, IInv, Balanced
<1>6. CASE PadderBudget
  <2> DEFINE c == IF d.mpc = "dummy" THEN 1 ELSE 0
  <2>1. PICK n \in 0..MaxBudget :
          Step(Server, [d EXCEPT !.ppc = "stamp", !.budget = n, !.credit = n + c])
    BY <1>6, Zenon DEF PadderBudget
  <2>2. Balanced([d EXCEPT !.ppc = "stamp", !.budget = n, !.credit = n + c])
    BY <1>0 DEF Balanced
  <2> QED BY <1>0, <2>1, <2>2, BalancedStep
<1> QED BY <1>1, <1>2, <1>3, <1>4, <1>5, <1>6 DEF Padder

\* The steps that take packets.
LEMMA ReaderSteps ==
  ASSUME IInv, NEW s \in Side, ReaderPacket(s)
  PROVE  IInv'
<1> DEFINE p == Peer(s)
           q == end[p].chan
           e == Received(s, Head(q))
<1>1. end' = [end EXCEPT ![p].chan = Tail(q), ![s] = e] /\ p \in Side /\ p # s
  BY TwoSides DEF ReaderPacket
<1>2. CASE s = Client
  <2>1. DOMAIN end' = Side /\ end'[Server] = [end[Server] EXCEPT !.chan = Tail(q)]
    BY <1>1, <1>2, TwoSides DEF IInv
  <2>2. Balanced(end[Server]) BY DEF IInv
  <2>3. Balanced(end'[Server]) BY <2>1, <2>2 DEF Balanced
  <2> QED BY <2>1, <2>3 DEF IInv, Balanced
<1>3. CASE s = Server
  <2>1. DOMAIN end' = Side /\ end'[Server] = e BY <1>1, <1>3, TwoSides DEF IInv
  <2>2. Balanced(end[Server]) BY DEF IInv
  <2> DEFINE d == end[Server]
             g == IF Head(q) = "Payload" THEN d.got + 1 ELSE d.got
             h == IF Head(q) \in Signals THEN Head(q) ELSE d.hand
  <2>3. e = [d EXCEPT !.got = g, !.hand = h] BY <1>3, TwoSides DEF Received
  <2> HIDE DEF g, h
  <2>4. Balanced(e) BY <2>2, <2>3 DEF Balanced
  <2> QED BY <2>1, <2>4 DEF IInv, Balanced
<1> QED BY <1>2, <1>3, TwoSides

\* For every budget and every environment: the dummies queued since a draw never exceed
\* it, and the one whose unit came from the budget before (ConsumePaddingBudget and the
\* padder's SetPaddingBudget interleave with main's send).
THEOREM WithinBudget == Spec => []BudgetKept
<1>1. Init => IInv
  BY TwoSides DEF Init, NewEnd, IInv, Balanced
<1>2. IInv /\ [Next]_vars => IInv'
  <2> SUFFICES ASSUME IInv, [Next]_vars PROVE IInv'
    OBVIOUS
  <2>1. CASE UNCHANGED vars BY <2>1 DEF vars, IInv
  <2> QED BY <2>1, CommonSteps, ClientSteps, ServerSteps, PadderSteps, ReaderSteps DEF Next
<1>3. IInv => BudgetKept
  BY DEF IInv, Balanced, BudgetKept
<1> QED BY <1>1, <1>2, <1>3, PTL DEF Spec

-----------------------------------------------------------------------------
(* WFGAN, of the same variables. *)

CONSTANTS Pairs, Tol, SigCap, Ahead, GanEnv
Gan == INSTANCE WFGan WITH Env <- GanEnv

\* A burst is never asked to be of size 0: that means that the defence is off.
Size == Nat \ {0}
GanPacket == ({"Payload", "Dummy", "SignalStart", "SignalStop"} \X Nat) \cup ({"Finish"} \X Size)
GanFields == {"st", "toCome", "upc", "n", "buf", "bursts", "canSend", "dpc", "tpc", "ticks", "sent",
              "rcv", "chan", "err", "mpc", "got", "raced", "stale"}

\* The queues of an end, and what it has buffered.
Formed(e) ==
  /\ DOMAIN e = GanFields
  /\ e.toCome \in Seq(Nat) /\ e.buf \in Nat
  /\ e.bursts \in Seq([1..2 -> Size]) /\ e.canSend \in Seq(Nat) /\ e.chan \in Seq(GanPacket)

\* The zeros on their way are among those that were when the defence came on.
Covered(e) == e.stale \in Nat /\ (e.st = "Start" => Gan!Zeros(e) <= e.stale)

GanInv == /\ DOMAIN end = Side /\ \A s \in Side : Formed(end[s])
          /\ Covered(end[Server])

LEMMA GanSides == /\ Gan!Client = Client /\ Gan!Server = Server /\ Gan!Side = Side
                  /\ \A s : Gan!Peer(s) = Peer(s)
  BY DEF Gan!Client, Gan!Server, Gan!Side, Gan!Peer, Client, Server, Side, Peer

\* A step of one end.
LEMMA GanStep ==
  ASSUME GanInv, NEW s \in Side, NEW e, Gan!Step(s, e), Formed(e), s = Server => Covered(e)
  PROVE  GanInv'
<1>1. end' = [end EXCEPT ![s] = e] BY DEF Gan!Step
<1>2. DOMAIN end' = Side /\ \A t \in Side : end'[t] = IF t = s THEN e ELSE end[t]
  BY <1>1 DEF GanInv
<1>3. \A t \in Side : Formed(end'[t])
  BY <1>2 DEF GanInv
<1>4. Covered(end'[Server])
  BY <1>2, TwoSides DEF GanInv
<1> QED BY <1>2, <1>3, <1>4 DEF GanInv, Formed, Covered, Gan!Zeros, Gan!Occurrences

\* A size drawn is at least a cell.
LEMMA Drawn ==
  ASSUME Gan!Numbers, NEW p \in Pairs
  PROVE  <<Gan!Sample(p)>> \in Seq([1..2 -> Size])
<1>1. p \in Int \X Int BY DEF Gan!Numbers
<1>2. p[1] \in Int /\ p[2] \in Int BY <1>1
<1>3. \A i \in 1..2 : Gan!Most(p[i], 536) \in Size BY <1>2 DEF Gan!Most, Size
<1>4. Gan!Sample(p) \in [1..2 -> Size] BY <1>3 DEF Gan!Sample
<1> QED BY <1>4

\* The packets of a burst.
LEMMA GanPackets ==
  ASSUME NEW k \in Nat \ {0}, NEW buf \in Nat
  PROVE  Gan!PacketAt(k, buf) \in GanPacket
<1> DEFINE left == buf - (k - 1) * 536
<1>1. left \in Int OBVIOUS
<1>2. Gan!PacketAt(k, buf) = IF left > 0 THEN <<"Payload", IF left < 536 THEN left ELSE 536>>
                             ELSE <<"Dummy", 0>>
  BY DEF Gan!PacketAt, Gan!Least, Gan!MaxPacketPayloadLength
<1> HIDE DEF left
<1>3. left > 0 => (IF left < 536 THEN left ELSE 536) \in Nat BY <1>1
<1> QED BY <1>2, <1>3 DEF GanPacket

\* A burst of as many packets as n says.
LEMMA BurstSeq ==
  ASSUME NEW n \in Int, NEW buf \in Nat
  PROVE  [k \in 1..n |-> Gan!PacketAt(k, buf)] \in Seq(GanPacket)
<1>1. \A k \in 1..n : Gan!PacketAt(k, buf) \in GanPacket
  <2> TAKE k \in 1..n
  <2>1. k \in Nat \ {0} OBVIOUS
  <2> QED BY <2>1, GanPackets
<1>2. CASE n >= 0
  <2>1. n \in Nat BY <1>2
  <2>2. [k \in 1..n |-> Gan!PacketAt(k, buf)] \in [1..n -> GanPacket] BY <1>1
  <2> QED BY <2>1, <2>2, SeqDef
<1>3. CASE n < 0
  <2>1. 1..n = 1..0 BY <1>3
  <2>2. [k \in 1..n |-> Gan!PacketAt(k, buf)] \in [1..0 -> GanPacket] BY <1>1, <2>1
  <2> QED BY <2>2, SeqDef
<1> QED BY <1>2, <1>3

LEMMA RealBurstSeq ==
  ASSUME NEW buf \in Nat PROVE Gan!RealBurst(buf) \in Seq(GanPacket)
<1>1. (buf + 536 - 1) \div 536 \in Int OBVIOUS
<1> QED BY <1>1, BurstSeq DEF Gan!RealBurst, Gan!MaxPacketPayloadLength

LEMMA RefBurstSeq ==
  ASSUME Gan!Numbers, NEW ref \in Nat, NEW buf \in Nat
  PROVE  Gan!RefBurst(ref, buf) \in Seq(GanPacket)
<1>1. Tol \in Int BY DEF Gan!Numbers
<1>2. ref * (100 - Tol) + 50 \in Int /\ ref * (100 + Tol) + 50 \in Int BY <1>1
<1>3. Gan!Percent(ref, 100 - Tol) \in Int /\ Gan!Percent(ref, 100 + Tol) \in Int
  BY <1>2 DEF Gan!Percent
<1>4. Gan!ToSend(ref, buf) \in Int BY <1>3 DEF Gan!ToSend, Gan!Most, Gan!Least
<1>5. Gan!ToSend(ref, buf) \div 536 \in Int BY <1>4
<1> QED BY <1>5, BurstSeq DEF Gan!RefBurst, Gan!MaxPacketPayloadLength

\* What is left after a burst.
LEMMA LeftOver ==
  ASSUME NEW buf \in Nat, NEW burst \in Seq(GanPacket)
  PROVE  buf - Gan!Sent(burst, buf) \in Nat
<1>1. Len(burst) \in Nat BY LenProperties
<1>2. Len(burst) * 536 \in Nat BY <1>1
<1> QED BY <1>2 DEF Gan!Sent, Gan!Least, Gan!MaxPacketPayloadLength

\* Zeros are counted by the state, canSendChan and the detector alone.
LEMMA SameCover ==
  ASSUME NEW d, NEW e, Covered(d), e.st = d.st, e.canSend = d.canSend, e.dpc = d.dpc, e.stale = d.stale
  PROVE  Covered(e)
  BY DEF Covered, Gan!Zeros

\* The steps of the upstream goroutines.
LEMMA GanUpstream ==
  ASSUME GanInv, (\E s \in Side : Gan!UpRead(s)) \/ Gan!UpTest \/ Gan!UpStart \/ Gan!UpSignal
  PROVE  GanInv'
<1> DEFINE d == end[Client]
<1>0. Client \in Side /\ Client # Server /\ Formed(d) BY TwoSides DEF GanInv
<1>1. ASSUME NEW s \in Side, Gan!UpRead(s) PROVE GanInv'
  <2> DEFINE c == end[s]
             u == IF s = Client THEN "test" ELSE "run"
             e == [c EXCEPT !.toCome = Tail(@), !.n = Head(c.toCome), !.buf = @ + Head(c.toCome),
                            !.upc = u]
  <2>1. c.toCome # <<>> /\ Gan!Step(s, e) BY <1>1, Zenon DEF Gan!Client, Client, Gan!UpRead
  <2>2. Formed(c) BY DEF GanInv
  <2>3. Head(c.toCome) \in Nat /\ Tail(c.toCome) \in Seq(Nat)
    BY <2>1, <2>2, HeadTailTypes DEF Formed
  <2>4. Formed(e) BY <2>2, <2>3 DEF Formed, GanFields
  <2>5. s = Server => Covered(e) BY <2>2, SameCover DEF Formed, GanFields, GanInv
  <2> QED BY <2>1, <2>4, <2>5, GanStep
<1>2. CASE Gan!UpTest
  <2> DEFINE u == IF d.st = "Stop" /\ d.n > Gan!MaxPacketPayloadLength THEN "start" ELSE "ready?"
             v == IF d.st = "Ready" THEN "start" ELSE "stop?"
             t == IF d.st = "Stop" THEN "Ready" ELSE d.st
  <2>1. \/ Gan!Step(Client, [d EXCEPT !.upc = u]) \/ Gan!Step(Client, [d EXCEPT !.upc = v])
        \/ Gan!Step(Client, [d EXCEPT !.upc = "run", !.st = t])
    BY <1>2, Zenon DEF Gan!Client, Client, Gan!UpTest
  <2> HIDE DEF u, v, t
  <2>2. /\ Formed([d EXCEPT !.upc = u]) /\ Formed([d EXCEPT !.upc = v])
        /\ Formed([d EXCEPT !.upc = "run", !.st = t])
    BY <1>0 DEF Formed, GanFields
  <2> QED BY <1>0, <2>1, <2>2, GanStep
<1>3. CASE Gan!UpStart
  <2> DEFINE r == d.raced \/ d.tpc = "signal"
  <2>1. Gan!Step(Client, [d EXCEPT !.upc = "signal", !.st = "Start", !.raced = r])
    BY <1>3, Zenon DEF Gan!Client, Client, Gan!UpStart
  <2> HIDE DEF r
  <2>2. Formed([d EXCEPT !.upc = "signal", !.st = "Start", !.raced = r]) BY <1>0 DEF Formed, GanFields
  <2> QED BY <1>0, <2>1, <2>2, GanStep
<1>4. CASE Gan!UpSignal
  <2> DEFINE q == Append(d.chan, <<"SignalStart", 0>>)
  <2>1. Gan!Step(Client, [d EXCEPT !.upc = "run", !.chan = q]) BY <1>4 DEF Gan!Client, Client, Gan!UpSignal
  <2>2. q \in Seq(GanPacket) BY <1>0 DEF Formed, GanPacket
  <2>3. Formed([d EXCEPT !.upc = "run", !.chan = q]) BY <1>0, <2>2 DEF Formed, GanFields
  <2> QED BY <1>0, <2>1, <2>3, GanStep
<1> QED BY <1>1, <1>2, <1>3, <1>4

\* The steps of the client's ticker, its generator and its main.
LEMMA GanClient ==
  ASSUME GanInv, Gan!Numbers, Gan!Tick \/ Gan!TickSignal \/ Gan!Refill \/ Gan!ClientMain
  PROVE  GanInv'
<1> DEFINE d == end[Client]
<1>0. Client \in Side /\ Client # Server /\ Formed(d) BY TwoSides DEF GanInv
<1>1. CASE Gan!Tick
  <2> DEFINE t == d.ticks + 1
             r == d.raced \/ d.upc = "signal"
  <2>1. \/ Gan!Step(Client, [d EXCEPT !.ticks = t, !.tpc = "signal", !.st = "Stop", !.raced = r])
        \/ Gan!Step(Client, [d EXCEPT !.ticks = t, !.sent = 0, !.rcv = 0])
    BY <1>1, Zenon DEF Gan!Client, Client, Gan!Tick
  <2> HIDE DEF t, r
  <2>2. /\ Formed([d EXCEPT !.ticks = t, !.tpc = "signal", !.st = "Stop", !.raced = r])
        /\ Formed([d EXCEPT !.ticks = t, !.sent = 0, !.rcv = 0])
    BY <1>0 DEF Formed, GanFields
  <2> QED BY <1>0, <2>1, <2>2, GanStep
<1>2. CASE Gan!TickSignal
  <2> DEFINE q == Append(d.chan, <<"SignalStop", 0>>)
             e == [d EXCEPT !.tpc = "idle", !.sent = 0, !.rcv = 0, !.chan = q]
  <2>1. Gan!Step(Client, e) BY <1>2 DEF Gan!Client, Client, Gan!TickSignal
  <2>2. q \in Seq(GanPacket) BY <1>0 DEF Formed, GanPacket
  <2>3. Formed(e) BY <1>0, <2>2 DEF Formed, GanFields
  <2> QED BY <1>0, <2>1, <2>3, GanStep
<1>3. CASE Gan!Refill
  <2> DEFINE f == [d EXCEPT !.upc = "panic", !.tpc = "panic", !.mpc = "panic", !.chan = <<>>]
  <2>0. \/ \E p \in Pairs : Gan!Step(Client, [d EXCEPT !.bursts = <<Gan!Sample(p)>>])
        \/ Gan!Step(Client, [d EXCEPT !.err = TRUE]) \/ Gan!Step(Client, f)
    BY <1>3, Zenon DEF Gan!Client, Client, Gan!Refill
  <2>1. ASSUME NEW p \in Pairs, Gan!Step(Client, [d EXCEPT !.bursts = <<Gan!Sample(p)>>])
        PROVE  GanInv'
    <3>1. Formed([d EXCEPT !.bursts = <<Gan!Sample(p)>>]) BY <1>0, Drawn DEF Formed, GanFields
    <3> QED BY <1>0, <2>1, <3>1, GanStep
  <2>2. Formed([d EXCEPT !.err = TRUE]) /\ Formed(f) BY <1>0 DEF Formed, GanFields
  <2> QED BY <1>0, <2>0, <2>1, <2>2, GanStep
<1>4. CASE Gan!MainEnd(Client) \/ Gan!ClientWait
  <2>1. PICK m : Gan!Step(Client, [d EXCEPT !.mpc = m])
    BY <1>4 DEF Gan!Client, Client, Gan!MainEnd, Gan!ClientWait
  <2>2. Formed([d EXCEPT !.mpc = m]) BY <1>0 DEF Formed, GanFields
  <2> QED BY <1>0, <2>1, <2>2, GanStep
<1>5. CASE Gan!ClientRefBurst
  <2> DEFINE burst == Gan!RefBurst(d.bursts[1][1], d.buf)
             fin == <<"Finish", d.bursts[1][2]>>
             b == d.buf - Gan!Sent(burst, d.buf)
             q == d.chan \o Append(burst, fin)
             n == Gan!UpTo2(d.sent + Gan!Reals(burst))
  <2>1. d.bursts # <<>> BY <1>5 DEF Gan!Client, Client, Gan!ClientRefBurst
  <2>2. Gan!Step(Client, [d EXCEPT !.mpc = "run", !.bursts = <<>>, !.buf = b,
                                   !.sent = n, !.chan = q])
    BY <1>5, Zenon DEF Gan!Client, Client, Gan!ClientRefBurst
  <2>3. d.bursts[1] \in [1..2 -> Size] BY <1>0, <2>1, HeadTailTypes DEF Formed
  <2>4. d.bursts[1][1] \in Nat /\ d.bursts[1][2] \in Size BY <2>3 DEF Size
  <2>5. d.buf \in Nat /\ d.chan \in Seq(GanPacket) BY <1>0 DEF Formed
  <2>6. burst \in Seq(GanPacket) BY <2>4, <2>5, RefBurstSeq
  <2>7. fin \in GanPacket BY <2>4 DEF GanPacket
  <2> HIDE DEF burst, fin, n
  <2>8. b \in Nat BY <2>5, <2>6, LeftOver
  <2>9. q \in Seq(GanPacket) BY <2>5, <2>6, <2>7
  <2> HIDE DEF b, q
  <2>10. Formed([d EXCEPT !.mpc = "run", !.bursts = <<>>, !.buf = b, !.sent = n, !.chan = q])
    BY <1>0, <2>8, <2>9 DEF Formed, GanFields
  <2> QED BY <1>0, <2>2, <2>10, GanStep
<1>6. CASE Gan!ClientRealBurst
  <2> DEFINE burst == Gan!RealBurst(d.buf)
             q == d.chan \o burst
             n == Gan!UpTo2(d.sent + Gan!Reals(burst))
  <2>1. Gan!Step(Client, [d EXCEPT !.buf = 0, !.sent = n, !.chan = q])
    BY <1>6, Zenon DEF Gan!Client, Client, Gan!ClientRealBurst
  <2>2. burst \in Seq(GanPacket) /\ d.chan \in Seq(GanPacket) BY <1>0, RealBurstSeq DEF Formed
  <2> HIDE DEF burst, n
  <2>3. q \in Seq(GanPacket) BY <2>2
  <2> HIDE DEF q
  <2>4. Formed([d EXCEPT !.buf = 0, !.sent = n, !.chan = q]) BY <1>0, <2>3 DEF Formed, GanFields
  <2> QED BY <1>0, <2>1, <2>4, GanStep
<1> QED BY <1>1, <1>2, <1>3, <1>4, <1>5, <1>6 DEF Gan!ClientMain, Gan!Client, Client

\* Zeros in canSendChan: their number is natural, and what an entry adds or takes.
LEMMA CountZeros ==
  ASSUME NEW q \in Seq(Nat)
  PROVE  /\ Gan!Occurrences(q, {0}) \in Nat
         /\ \A n \in Nat : Gan!Occurrences(Append(q, n), {0}) = Gan!Occurrences(q, {0}) + (IF n = 0 THEN 1 ELSE 0)
         /\ q # <<>> => Gan!Occurrences(q, {0}) = (IF Head(q) = 0 THEN 1 ELSE 0) + Gan!Occurrences(Tail(q), {0})
<1>0. \A r : Gan!Occurrences(r, {0}) = Occurrences(r, {0}) 
  BY Zenon DEF Gan!Occurrences, Occurrences, Gan!Cardinality, Cardinality
<1>1. Occurrences(q, {0}) \in Nat BY OccurrencesType
<1>2. ASSUME NEW a \in Seq(Nat), NEW b \in Seq(Nat)
      PROVE  Occurrences(a \o b, {0}) = Occurrences(a, {0}) + Occurrences(b, {0})
  BY OccurrencesConcat
<1>3. ASSUME NEW n \in Nat
      PROVE  /\ <<n>> \in Seq(Nat) /\ Append(q, n) = q \o <<n>>
             /\ Occurrences(<<n>>, {0}) = IF n = 0 THEN 1 ELSE 0
  <2>1. Occurrences(<<n>>, {0}) = IF n \in {0} THEN 1 ELSE 0 BY OccurrencesOne
  <2>2. <<n>> \in Seq(Nat) /\ Append(q, n) = q \o <<n>> BY AppendIsConcat
  <2> QED BY <2>1, <2>2
<1>4. ASSUME NEW n \in Nat
      PROVE  Occurrences(Append(q, n), {0}) = Occurrences(q, {0}) + (IF n = 0 THEN 1 ELSE 0)
  <2> DEFINE x == <<n>>
  <2>1. x \in Seq(Nat) /\ Append(q, n) = q \o x /\ Occurrences(x, {0}) = IF n = 0 THEN 1 ELSE 0 BY <1>3
  <2> HIDE DEF x
  <2>2. Occurrences(q \o x, {0}) = Occurrences(q, {0}) + Occurrences(x, {0}) BY <1>2, <2>1
  <2> QED BY <2>1, <2>2
<1>5. ASSUME q # <<>>
      PROVE  Occurrences(q, {0}) = (IF Head(q) = 0 THEN 1 ELSE 0) + Occurrences(Tail(q), {0})
  <2> DEFINE x == <<Head(q)>>
             t == Tail(q)
  <2>1. Head(q) \in Nat /\ t \in Seq(Nat) BY <1>5, HeadTailTypes
  <2>2. x \in Seq(Nat) /\ Occurrences(x, {0}) = IF Head(q) = 0 THEN 1 ELSE 0 BY <1>3, <2>1
  <2>3. q = x \o t BY <1>5, <2>1
  <2> HIDE DEF x, t
  <2>4. Occurrences(x \o t, {0}) = Occurrences(x, {0}) + Occurrences(t, {0}) BY <1>2, <2>1, <2>2
  <2>5. Occurrences(q, {0}) = Occurrences(x, {0}) + Occurrences(t, {0}) BY <2>3, <2>4, Zenon
  <2>6. Occurrences(q, {0}) = (IF Head(q) = 0 THEN 1 ELSE 0) + Occurrences(t, {0}) BY <2>2, <2>5
  <2> QED BY <2>6 DEF t
<1> QED BY <1>0, <1>1, <1>4, <1>5

\* The steps of the detector: it looks at the state before a zero is on its way.
LEMMA GanDetector ==
  ASSUME GanInv, Gan!DetectorLook \/ Gan!DetectorPut
  PROVE  GanInv'
<1> DEFINE d == end[Server]
<1>0. Server \in Side /\ Formed(d) /\ Covered(d) BY TwoSides DEF GanInv
<1>1. CASE Gan!DetectorLook
  <2> DEFINE e == [d EXCEPT !.dpc = "put"]
  <2>1. d.st = "Stop" /\ Gan!Step(Server, e) BY <1>1 DEF Gan!DetectorLook, Gan!Server, Server
  <2>2. Formed(e) BY <1>0 DEF Formed, GanFields
  <2>3. e.st = "Stop" /\ e.stale = d.stale BY <1>0, <2>1 DEF Formed, GanFields
  <2>4. Covered(e) BY <1>0, <2>3 DEF Covered
  <2> QED BY <1>0, <2>1, <2>2, <2>4, GanStep
<1>2. CASE Gan!DetectorPut
  <2> DEFINE q == Append(d.canSend, 0)
             e == [d EXCEPT !.dpc = "look", !.canSend = q]
  <2>1. d.dpc = "put" /\ Gan!Step(Server, e) BY <1>2 DEF Gan!DetectorPut, Gan!Server, Server
  <2>2. d.canSend \in Seq(Nat) /\ q \in Seq(Nat) BY <1>0 DEF Formed
  <2>3. Gan!Occurrences(q, {0}) = Gan!Occurrences(d.canSend, {0}) + 1 BY <2>2, CountZeros
  <2> HIDE DEF q
  <2>4. Formed(e) BY <1>0, <2>2 DEF Formed, GanFields
  <2>5. e.st = d.st /\ e.stale = d.stale /\ e.dpc = "look" /\ e.canSend = q
    BY <1>0 DEF Formed, GanFields
  <2> HIDE DEF e
  <2>6. Gan!Zeros(e) = Gan!Zeros(d) BY <2>1, <2>2, <2>3, <2>5, CountZeros DEF Gan!Zeros
  <2>7. Covered(e) BY <1>0, <2>5, <2>6 DEF Covered
  <2> QED BY <1>0, <2>1, <2>4, <2>7, GanStep
<1> QED BY <1>1, <1>2

\* The steps of the bridge's main: an undefended burst takes a zero.
LEMMA GanServer ==
  ASSUME GanInv, Gan!Numbers, Gan!ServerMain
  PROVE  GanInv'
<1> DEFINE d == end[Server]
           q == Tail(d.canSend)
<1>0. Server \in Side /\ Formed(d) /\ Covered(d) BY TwoSides DEF GanInv
<1>1. d.canSend # <<>> BY DEF Gan!ServerMain, Gan!ServerRealBurst, Gan!ServerRefBurst, Gan!Server, Server
<1>2. d.canSend \in Seq(Nat) /\ d.chan \in Seq(GanPacket) /\ d.buf \in Nat BY <1>0 DEF Formed
<1>3. Head(d.canSend) \in Nat /\ q \in Seq(Nat) BY <1>1, <1>2, HeadTailTypes
<1>4. /\ Gan!Occurrences(d.canSend, {0}) = (IF Head(d.canSend) = 0 THEN 1 ELSE 0) + Gan!Occurrences(q, {0})
      /\ Gan!Occurrences(q, {0}) \in Nat
  BY <1>1, <1>2, <1>3, CountZeros
<1> HIDE DEF q
<1>5. CASE Gan!ServerRealBurst
  <2> DEFINE c == d.chan \o Gan!RealBurst(d.buf)
             z == IF d.st = "Start" THEN d.stale - 1 ELSE d.stale
             e == [d EXCEPT !.canSend = q, !.buf = 0, !.chan = c, !.stale = z]
  <2>1. Head(d.canSend) = 0 /\ Gan!Step(Server, e)
    BY <1>5, Zenon DEF Gan!ServerRealBurst, Gan!Server, Server, q
  <2>2. c \in Seq(GanPacket) BY <1>2, RealBurstSeq
  <2> HIDE DEF c, z
  <2>3. Formed(e) BY <1>0, <1>3, <2>2 DEF Formed, GanFields
  <2>4. e.st = d.st /\ e.stale = z /\ e.dpc = d.dpc /\ e.canSend = q
    BY <1>0 DEF Formed, GanFields
  <2> HIDE DEF e
  <2>5. /\ Gan!Zeros(d) = Gan!Zeros(e) + 1 /\ Gan!Zeros(e) \in Nat
    BY <1>4, <2>1, <2>4 DEF Gan!Zeros
  <2>6. Covered(e) BY <1>0, <2>4, <2>5 DEF Covered, z
  <2> QED BY <1>0, <2>1, <2>3, <2>6, GanStep
<1>6. CASE Gan!ServerRefBurst
  <2> DEFINE burst == Gan!RefBurst(Head(d.canSend), d.buf)
             c == d.chan \o burst
             b == d.buf - Gan!Sent(burst, d.buf)
             e == [d EXCEPT !.canSend = q]
             f == [d EXCEPT !.canSend = q, !.buf = b, !.chan = c]
  <2>1. Head(d.canSend) # 0 /\ (Gan!Step(Server, e) \/ Gan!Step(Server, f))
    BY <1>6, Zenon DEF Gan!ServerRefBurst, Gan!Server, Server, q
  <2>2. burst \in Seq(GanPacket) BY <1>2, <1>3, RefBurstSeq
  <2> HIDE DEF burst
  <2>3. c \in Seq(GanPacket) BY <1>2, <2>2
  <2>8. b \in Nat BY <1>2, <2>2, LeftOver
  <2> HIDE DEF c, b
  <2>4. Formed(e) /\ Formed(f) BY <1>0, <1>3, <2>3, <2>8 DEF Formed, GanFields
  <2>5. /\ e.st = d.st /\ e.stale = d.stale /\ e.dpc = d.dpc /\ e.canSend = q
        /\ f.st = d.st /\ f.stale = d.stale /\ f.dpc = d.dpc /\ f.canSend = q
    BY <1>0 DEF Formed, GanFields
  <2> HIDE DEF e, f
  <2>6. Gan!Zeros(d) = Gan!Zeros(e) /\ Gan!Zeros(d) = Gan!Zeros(f)
    BY <1>4, <2>1, <2>5 DEF Gan!Zeros
  <2>7. Covered(e) /\ Covered(f) BY <1>0, <2>5, <2>6 DEF Covered
  <2> QED BY <1>0, <2>1, <2>4, <2>7, GanStep
<1> QED BY <1>5, <1>6 DEF Gan!ServerMain

\* A step of both ends.
LEMMA GanBoth ==
  ASSUME NEW c, NEW f, end' = [s \in Side |-> IF s = Client THEN c ELSE f],
         Formed(c), Formed(f), Covered(f)
  PROVE  GanInv'
<1>1. DOMAIN end' = Side /\ end'[Client] = c /\ end'[Server] = f BY TwoSides
<1>2. \A s \in Side : Formed(end'[s]) BY <1>1, TwoSides
<1>3. Covered(end'[Server]) BY <1>1
<1> QED BY <1>1, <1>2, <1>3 DEF GanInv, Formed, Covered, Gan!Zeros, Gan!Occurrences

\* The steps of the readers: what is on its way when the defence comes on is counted, and a
\* Finish packet brings no zero.
LEMMA GanReaders ==
  ASSUME GanInv, Gan!ReaderPayload(Client) \/ Gan!Reader
  PROVE  GanInv'
<1> DEFINE d == end[Server]
           q == end[Client].chan
           c == [end[Client] EXCEPT !.chan = Tail(q)]
<1>0. /\ Client \in Side /\ Server \in Side /\ Client # Server /\ DOMAIN end = Side
      /\ Formed(end[Client]) /\ Formed(d) /\ Covered(d)
  BY TwoSides DEF GanInv
<1>1. q \in Seq(GanPacket) BY <1>0 DEF Formed
<1>2. q # <<>> => Head(q) \in GanPacket /\ Formed(c)
  <2> SUFFICES ASSUME q # <<>> PROVE Head(q) \in GanPacket /\ Formed(c) OBVIOUS
  <2>1. Head(q) \in GanPacket /\ Tail(q) \in Seq(GanPacket) BY <1>1, HeadTailTypes
  <2> QED BY <1>0, <2>1 DEF Formed, GanFields
<1>3. CASE Gan!ReaderPayload(Client)
  <2> DEFINE r == d.chan
             g == end[Client].got + Head(r)[2]
             v == IF Head(r)[1] = "Payload" THEN Gan!UpTo2(end[Client].rcv + 1) ELSE end[Client].rcv
             a == [end[Client] EXCEPT !.got = g, !.rcv = v]
             f == [d EXCEPT !.chan = Tail(r)]
  <2>1. r # <<>> /\ end' = [end EXCEPT ![Server] = f, ![Client] = a]
    BY <1>0, <1>3, GanSides DEF Gan!ReaderPayload, Peer
  <2>2. Tail(r) \in Seq(GanPacket) BY <1>0, <2>1, HeadTailTypes DEF Formed
  <2> HIDE DEF g, v
  <2>3. Formed(a) /\ Formed(f) BY <1>0, <2>2 DEF Formed, GanFields
  <2>4. f.st = d.st /\ f.canSend = d.canSend /\ f.dpc = d.dpc /\ f.stale = d.stale
    BY <1>0 DEF Formed, GanFields
  <2> HIDE DEF a, f
  <2>5. end' = [s \in Side |-> IF s = Client THEN a ELSE f] BY <1>0, <2>1, TwoSides
  <2> QED BY <1>0, <2>3, <2>4, <2>5, SameCover, GanBoth
<1>4. CASE Gan!ReaderPayload(Server)
  <2> DEFINE g == d.got + Head(q)[2]
             v == IF Head(q)[1] = "Payload" THEN Gan!UpTo2(d.rcv + 1) ELSE d.rcv
             f == [d EXCEPT !.got = g, !.rcv = v]
  <2>1. q # <<>> /\ end' = [end EXCEPT ![Client] = c, ![Server] = f]
    BY <1>0, <1>4, GanSides DEF Gan!ReaderPayload, Peer
  <2> HIDE DEF g, v
  <2>3. Formed(f) BY <1>0 DEF Formed, GanFields
  <2>4. f.st = d.st /\ f.canSend = d.canSend /\ f.dpc = d.dpc /\ f.stale = d.stale
    BY <1>0 DEF Formed, GanFields
  <2> HIDE DEF c, f
  <2>5. end' = [s \in Side |-> IF s = Client THEN c ELSE f] BY <1>0, <2>1, TwoSides
  <2> QED BY <1>0, <1>2, <2>1, <2>3, <2>4, <2>5, SameCover, GanBoth
<1>5. CASE Gan!ReaderSignal
  <2> DEFINE on == Head(q)[1] = "SignalStart"
             t == IF on THEN "Start" ELSE "Stop"
             z == IF on /\ d.st # "Start" THEN Gan!Zeros(d) ELSE d.stale
             f == [d EXCEPT !.st = t, !.stale = z]
  <2>1. q # <<>> /\ end' = [end EXCEPT ![Client] = c, ![Server] = f]
    BY <1>0, <1>5, GanSides DEF Gan!ReaderSignal
  <2>2. Gan!Zeros(d) \in Nat BY <1>0, CountZeros DEF Formed, Gan!Zeros
  <2> HIDE DEF t, z
  <2>3. Formed(f) BY <1>0 DEF Formed, GanFields
  <2>4. f.st = t /\ f.canSend = d.canSend /\ f.dpc = d.dpc /\ f.stale = z
    BY <1>0 DEF Formed, GanFields
  <2> HIDE DEF c, f
  <2>5. end' = [s \in Side |-> IF s = Client THEN c ELSE f] BY <1>0, <2>1, TwoSides
  <2>6. Gan!Zeros(f) = Gan!Zeros(d) BY <2>4 DEF Gan!Zeros
  <2>7. Covered(f) BY <1>0, <2>2, <2>4, <2>6 DEF Covered, t, z
  <2> QED BY <1>0, <1>2, <2>1, <2>3, <2>5, <2>7, GanBoth
<1>6. CASE Gan!ReaderFinish
  <2> DEFINE n == Head(q)[2]
             k == Append(d.canSend, n)
             f == [d EXCEPT !.canSend = k]
  <2>1. q # <<>> /\ Head(q)[1] = "Finish" /\ end' = [end EXCEPT ![Client] = c, ![Server] = f]
    BY <1>0, <1>6, GanSides DEF Gan!ReaderFinish
  <2>2. n \in Nat \ {0} BY <1>2, <2>1 DEF GanPacket, Size
  <2>3. d.canSend \in Seq(Nat) /\ k \in Seq(Nat) BY <1>0, <2>2 DEF Formed
  <2>4. Gan!Occurrences(k, {0}) = Gan!Occurrences(d.canSend, {0}) BY <2>2, <2>3, CountZeros
  <2> HIDE DEF n, k
  <2>5. Formed(f) BY <1>0, <2>3 DEF Formed, GanFields
  <2>6. f.st = d.st /\ f.canSend = k /\ f.dpc = d.dpc /\ f.stale = d.stale
    BY <1>0 DEF Formed, GanFields
  <2> HIDE DEF c, f
  <2>7. end' = [s \in Side |-> IF s = Client THEN c ELSE f] BY <1>0, <2>1, TwoSides
  <2>8. Gan!Zeros(f) = Gan!Zeros(d) BY <2>4, <2>6 DEF Gan!Zeros
  <2>9. Covered(f) BY <1>0, <2>6, <2>8 DEF Covered
  <2> QED BY <1>0, <1>2, <2>1, <2>5, <2>7, <2>9, GanBoth
<1> QED BY <1>3, <1>4, <1>5, <1>6, GanSides DEF Gan!Reader

\* For every tolerance, capacity of canSendChan and size the network gives: a bridge whose
\* defence is on sends no more undefended bursts than there were zeros in canSendChan, or in
\* the detector's hand, when it came on (the detector's test of the state and its send are
\* two steps, and nobody empties the channel).  The sizes are clamped to a cell by sample().
THEOREM ZerosRunOut == ASSUME Gan!Numbers PROVE Gan!Spec => []StaleZeros
<1>1. Gan!Init => GanInv
  <2> SUFFICES ASSUME Gan!Init PROVE GanInv OBVIOUS
  <2>1. DOMAIN end = Side /\ \A s \in Side : end[s] = Gan!NewEnd(s) BY GanSides DEF Gan!Init
  <2>2. ASSUME NEW s \in Side PROVE Formed(Gan!NewEnd(s))
    <3>1. env.chunks[s] \in Seq(Nat) BY DEF Gan!Init, Gan!Numbers, Side, Client, Server
    <3> QED BY <3>1 DEF Formed, Gan!NewEnd, GanFields
  <2>3. Covered(Gan!NewEnd(Server)) BY DEF Covered, Gan!NewEnd
  <2> QED BY <2>1, <2>2, <2>3, TwoSides DEF GanInv
<1>2. GanInv /\ [Gan!Next]_(Gan!vars) => GanInv'
  <2> SUFFICES ASSUME GanInv, [Gan!Next]_(Gan!vars) PROVE GanInv' OBVIOUS
  <2>1. CASE UNCHANGED Gan!vars
    BY <2>1 DEF Gan!vars, GanInv, Formed, Covered, Gan!Zeros, Gan!Occurrences
  <2>2. CASE Gan!Next
    <3>1. CASE Gan!UpRead(Client) \/ Gan!UpRead(Server) \/ Gan!UpTest \/ Gan!UpStart \/ Gan!UpSignal
      BY <3>1, GanUpstream, TwoSides
    <3>2. CASE Gan!Tick \/ Gan!TickSignal \/ Gan!Refill \/ Gan!ClientMain BY <3>2, GanClient
    <3>3. CASE Gan!DetectorLook \/ Gan!DetectorPut BY <3>3, GanDetector
    <3>4. CASE Gan!ServerMain BY <3>4, GanServer
    <3>5. CASE Gan!ReaderPayload(Client) \/ Gan!Reader BY <3>5, GanReaders
    <3> QED BY <2>2, <3>1, <3>2, <3>3, <3>4, <3>5, GanSides DEF Gan!Next
  <2> QED BY <2>1, <2>2
<1>3. GanInv => StaleZeros
  BY DEF GanInv, Covered, StaleZeros
<1> QED BY <1>1, <1>2, <1>3, PTL DEF Gan!Spec
=============================================================================
