--------------------------- MODULE RandomWTProofs ---------------------------
(***************************************************************************)
(* Proofs about RandomWT, for any chunks, numbers of dummies, ticks and    *)
(* keep-alive packets: there is one turn in the connection, and an end     *)
(* that closes loses nothing.                                              *)
(***************************************************************************)
EXTENDS RandomWT, QueueProofs

Fields == {"st", "mpc", "next", "fake", "canSend", "avail", "toCome", "wrote", "ended", "wq",
           "held", "spc", "nseg", "tpc", "err", "quit", "wire", "rbuf", "dec", "rpc", "got", "closed"}
Plain == {"Payload", "Dummy", "RealFinish", "FakeFinish", "SignalStart", "SignalStop"}
Last == {"TearDown", "Bad"}
Packet == Plain \cup Last
InTurn == {"read", "signal", "store", "burst", "skip"}
Gone == {"teardown", "close", "done"}

\* The types of one end's fields, by group.
MainTyped(mpc, quit) == /\ mpc \in {"select"} \cup InTurn \cup Gone
                        /\ quit => mpc \in {"close", "done"}
Signals == {<<>>, <<"Real">>, <<"Dummy">>, <<"TearDown">>}
ProgramTyped(avail, wrote, toCome, ended) ==
  /\ avail \in Nat /\ wrote \in Nat /\ toCome \in Seq(Nat \ {0})
  /\ ended => toCome = <<>> /\ avail = 0
ReaderTyped(rbuf, dec, got, rpc, closed) ==
  /\ rbuf \in Seq(Packet) /\ dec \in Nat /\ got \in Nat /\ rpc \in {"run", "fail", "done"}
  /\ rpc = "done" => closed /\ rbuf = <<>> /\ dec = 0
EndTyped(e) ==
  /\ DOMAIN e = Fields
  /\ MainTyped(e.mpc, e.quit) /\ e.canSend \in Signals
  /\ ProgramTyped(e.avail, e.wrote, e.toCome, e.ended)
  /\ e.wq \in Seq(Packet) /\ e.held \in Seq(Packet) /\ e.wire \in Seq(Packet)
  /\ ReaderTyped(e.rbuf, e.dec, e.got, e.rpc, e.closed)

Typed == /\ DOMAIN end = Side /\ kicks \in Nat
         /\ \A s \in Side : EndTyped(end[s]) /\ (end[s].ended => s \in env.ends)

\* How many turns an end holds.
Held(e) == (IF e.canSend \in {<<"Real">>, <<"Dummy">>} THEN 1 ELSE 0)
           + (IF e.mpc \in InTurn THEN 1 ELSE 0)

\* Every payload packet has a finish packet behind it.
Behind(q) == \A i \in 1..Len(q) : q[i] = "Payload" => \E j \in (i + 1)..Len(q) : q[j] \in Finish
Only(q, S) == \A i \in 1..Len(q) : q[i] \in S

\* Of the cells a program wrote, avail wait to be read from it, arrived reached the other
\* end, and the others are in flight.
Sound(flight, wrote, avail, arrived) ==
  /\ Only(flight, Plain) /\ Behind(flight)
  /\ wrote = avail + Occurrences(flight, {"Payload"}) + arrived

\* While nobody ends the connection.
LiveSide(s) ==
  /\ end[s].canSend # <<"TearDown">> /\ end[s].rpc = "run"
  /\ Sound(Flight(s), end[s].wrote, end[s].avail, end[Peer(s)].dec + end[Peer(s)].got)
Live == ~Ending => (\A s \in Side : LiveSide(s)) /\ OneTurn

\* The end is closing, or will on the packets it has read.
Quitting(e) == e.closed \/ e.mpc \in Gone \/ e.canSend = <<"TearDown">> \/ ~Only(e.rbuf, Plain)

\* Once it ends because the program at s did, after all its data went out: what is not yet
\* delivered waits in the other end's receiveDecodedBuffer, and that end is not closing.
NoData == Packet \ {"Payload"}
Words(e, p, kept) ==
  /\ e.toCome = <<>> /\ e.avail = 0 /\ Only(p.rbuf, NoData)
  /\ Only(e.wire, NoData) /\ Only(e.held, NoData) /\ Only(e.wq, NoData)
  /\ kept => e.wrote = p.dec + p.got /\ (Quitting(p) => p.dec = 0)
LastWords(s) == Words(end[s], end[Peer(s)], Peer(s) \notin early)
Ended == \A s \in Side : kicks = 0 /\ env.ends = {s} /\ Ending => LastWords(s)

IInv == Typed /\ Live /\ Ended

-----------------------------------------------------------------------------
(* What a step changes. *)

\* There are two ends.
LEMMA TwoEnds ==
  ASSUME NEW s \in Side
  PROVE  Peer(s) \in Side /\ Peer(s) # s /\ Peer(Peer(s)) = s /\ Side = {s, Peer(s)}
  BY DEF Side, Peer, Client, Server

\* A step changes the fields it names, of one end.
LEMMA SetFields ==
  ASSUME Typed, NEW s \in Side, NEW rec, Set(s, rec)
  PROVE  /\ DOMAIN end' = Side /\ DOMAIN end'[s] = Fields /\ end'[Peer(s)] = end[Peer(s)]
         /\ \A f \in Fields : end'[s][f] = IF f \in DOMAIN rec THEN rec[f] ELSE end[s][f]
  BY TwoEnds DEF Typed, EndTyped, Set, With

\* The fields of the end that moved, one by one; a field that rec does not name is kept.
Now(rec, f, old) == IF f \in DOMAIN rec THEN rec[f] ELSE old
\* They are kept or set to what rec says.
LEMMA Moves ==
  ASSUME Typed, NEW s \in Side, NEW rec, Set(s, rec)
  PROVE  /\ end'[s].mpc = Now(rec, "mpc", end[s].mpc)
         /\ end'[s].quit = Now(rec, "quit", end[s].quit)
         /\ end'[s].canSend = Now(rec, "canSend", end[s].canSend)
         /\ end'[s].avail = Now(rec, "avail", end[s].avail)
         /\ end'[s].wrote = Now(rec, "wrote", end[s].wrote)
         /\ end'[s].toCome = Now(rec, "toCome", end[s].toCome)
         /\ end'[s].ended = Now(rec, "ended", end[s].ended)
         /\ end'[s].wq = Now(rec, "wq", end[s].wq)
         /\ end'[s].held = Now(rec, "held", end[s].held)
         /\ end'[s].wire = Now(rec, "wire", end[s].wire)
         /\ end'[s].rbuf = Now(rec, "rbuf", end[s].rbuf)
         /\ end'[s].dec = Now(rec, "dec", end[s].dec)
         /\ end'[s].got = Now(rec, "got", end[s].got)
         /\ end'[s].rpc = Now(rec, "rpc", end[s].rpc)
         /\ end'[s].err = Now(rec, "err", end[s].err)
         /\ end'[s].closed = Now(rec, "closed", end[s].closed)
  BY SetFields DEF Fields, Now

\* The types of the next state, from those of the end that moved.
LEMMA TypedKept ==
  ASSUME Typed, NEW s \in Side, DOMAIN end' = Side, end'[Peer(s)] = end[Peer(s)],
         env' = env, kicks' \in Nat, EndTyped(end'[s]), end'[s].ended => s \in env.ends
  PROVE  Typed'
<1>1. \A x \in Side : x = s \/ x = Peer(s) BY TwoEnds
<1>2. EndTyped(end'[Peer(s)]) /\ (end'[Peer(s)].ended => Peer(s) \in env.ends)
  BY TwoEnds DEF Typed
<1>3. \A x \in Side : EndTyped(end'[x]) /\ (end'[x].ended => x \in env.ends)
  BY <1>1, <1>2
<1> QED BY <1>3 DEF Typed, EndTyped

\* The types of the next state, group by group.
LEMMA TypedStep ==
  ASSUME Typed, NEW s \in Side, NEW rec, Set(s, rec), env' = env, kicks' \in Nat,
         MainTyped(end'[s].mpc, end'[s].quit), end'[s].canSend \in Signals,
         ProgramTyped(end'[s].avail, end'[s].wrote, end'[s].toCome, end'[s].ended),
         end'[s].wq \in Seq(Packet), end'[s].held \in Seq(Packet), end'[s].wire \in Seq(Packet),
         ReaderTyped(end'[s].rbuf, end'[s].dec, end'[s].got, end'[s].rpc, end'[s].closed),
         end'[s].ended => s \in env.ends
  PROVE  Typed'
<1>1. /\ DOMAIN end' = Side /\ DOMAIN end'[s] = Fields /\ end'[Peer(s)] = end[Peer(s)]
  BY SetFields
<1>2. EndTyped(end'[s]) BY <1>1 DEF EndTyped
<1> QED BY <1>1, <1>2, TypedKept

\* What the types say of an end.
LEMMA TypesOf ==
  ASSUME Typed, NEW s \in Side
  PROVE  /\ MainTyped(end[s].mpc, end[s].quit) /\ end[s].canSend \in Signals
         /\ ProgramTyped(end[s].avail, end[s].wrote, end[s].toCome, end[s].ended)
         /\ end[s].wq \in Seq(Packet) /\ end[s].held \in Seq(Packet) /\ end[s].wire \in Seq(Packet)
         /\ ReaderTyped(end[s].rbuf, end[s].dec, end[s].got, end[s].rpc, end[s].closed)
         /\ (end[s].ended => s \in env.ends) /\ kicks \in Nat
  BY DEF Typed, EndTyped

\* A queue of cells is one of payload packets.
LEMMA CellsSeq ==
  ASSUME NEW n \in Nat
  PROVE  Cells(n) \in Seq(Packet) /\ Len(Cells(n)) = n /\ Only(Cells(n), {"Payload"})
  BY DEF Cells, Packet, Plain, Only

\* The dummies of a burst.
LEMMA DummiesSeq ==
  ASSUME NEW e, NEW d \in Dummies(e)
  PROVE  d \in Seq(Packet) /\ Only(d, {"Dummy"})
<1>1. CASE d = <<>> BY <1>1 DEF Only
<1>2. CASE d # <<>>
  <2>1. PICK n \in 0..NDummy : d = [i \in 1..n |-> "Dummy"] BY <1>2 DEF Dummies
  <2>2. n \in Nat BY RandomWTAssumption
  <2> QED BY <2>1, <2>2 DEF Packet, Plain, Only
<1> QED BY <1>1, <1>2

\* Two queues of packets of S make one.
LEMMA OnlyConcat ==
  ASSUME NEW q \in Seq(Packet), NEW r \in Seq(Packet), NEW S
  PROVE  /\ q \o r \in Seq(Packet)
         /\ Only(q \o r, S) <=> Only(q, S) /\ Only(r, S)
<1>1. /\ q \o r \in Seq(Packet) /\ Len(q \o r) = Len(q) + Len(r)
      /\ \A i \in 1..Len(q) : (q \o r)[i] = q[i]
      /\ \A i \in 1..Len(r) : (q \o r)[Len(q) + i] = r[i]
      /\ Len(q) \in Nat /\ Len(r) \in Nat
  BY ConcatProperties, LenProperties
<1>2. \A i \in 1..Len(q \o r) : i \in 1..Len(q) \/ (i - Len(q) \in 1..Len(r) /\ Len(q) + (i - Len(q)) = i)
  BY <1>1
<1>3. \A i \in 1..Len(r) : Len(q) + i \in 1..Len(q \o r) BY <1>1
<1>4. \A i \in 1..Len(q) : i \in 1..Len(q \o r) BY <1>1
<1>5. Only(q, S) /\ Only(r, S) => Only(q \o r, S) BY <1>1, <1>2 DEF Only
<1>6. Only(q \o r, S) => Only(q, S) /\ Only(r, S) BY <1>1, <1>3, <1>4 DEF Only
<1> QED BY <1>1, <1>5, <1>6

\* One packet.
LEMMA OnlyOne ==
  ASSUME NEW p \in Packet, NEW S
  PROVE  <<p>> \in Seq(Packet) /\ (Only(<<p>>, S) <=> p \in S)
  BY DEF Only

\* A queue of packets of S is one of packets of any larger set.
LEMMA OnlyMore ==
  ASSUME NEW q, NEW S, NEW R, S \subseteq R, Only(q, S) PROVE Only(q, R)
  BY DEF Only

-----------------------------------------------------------------------------
(* What is in flight: the same while it moves on, longer behind when main   *)
(* queues a burst, shorter in front when the reader takes a packet.         *)

Chain(rbuf, wire, held, wq) == (rbuf \o wire) \o (held \o wq)

\* A concatenation that the provers need not expand.
Join(q, r) == q \o r

\* All of the packets in flight are of a kind if those of each queue are.
LEMMA ChainOnly ==
  ASSUME NEW a \in Seq(Packet), NEW b \in Seq(Packet), NEW c \in Seq(Packet), NEW d \in Seq(Packet),
         NEW S
  PROVE  /\ Chain(a, b, c, d) \in Seq(Packet)
         /\ Only(Chain(a, b, c, d), S) <=> Only(a, S) /\ Only(b, S) /\ Only(c, S) /\ Only(d, S)
<1>1. a \o b \in Seq(Packet) /\ (Only(a \o b, S) <=> Only(a, S) /\ Only(b, S)) BY OnlyConcat
<1>2. c \o d \in Seq(Packet) /\ (Only(c \o d, S) <=> Only(c, S) /\ Only(d, S)) BY OnlyConcat
<1>3. /\ (a \o b) \o (c \o d) \in Seq(Packet)
      /\ Only((a \o b) \o (c \o d), S) <=> Only(a \o b, S) /\ Only(c \o d, S)
  BY <1>1, <1>2, OnlyConcat
<1> QED BY <1>1, <1>2, <1>3 DEF Chain

\* What is in flight is a queue of packets.
LEMMA ChainSeq ==
  ASSUME NEW a \in Seq(Packet), NEW b \in Seq(Packet), NEW c \in Seq(Packet), NEW d \in Seq(Packet)
  PROVE  Chain(a, b, c, d) \in Seq(Packet)
  BY ChainOnly

\* It does not matter in which order queues are joined.
LEMMA Joined == \A q, r, t \in Seq(Packet) : (q \o r) \o t = q \o (r \o t)
  BY ConcatAssociative

\* The same, read from the right.
LEMMA JoinedLast ==
  ASSUME NEW q \in Seq(Packet), NEW r \in Seq(Packet), NEW t \in Seq(Packet)
  PROVE  q \o (r \o t) = (q \o r) \o t
  BY Joined

\* send takes a packet.
LEMMA ChainTake ==
  ASSUME NEW a \in Seq(Packet), NEW b \in Seq(Packet), NEW d \in Seq(Packet), d # <<>>
  PROVE  Chain(a, b, <<Head(d)>>, Tail(d)) = Chain(a, b, <<>>, d)
<1>1. <<Head(d)>> \o Tail(d) = d OBVIOUS
<1>2. <<>> \o d = d OBVIOUS
<1> QED BY <1>1, <1>2 DEF Chain

\* send writes it.
LEMMA ChainWrite ==
  ASSUME NEW a \in Seq(Packet), NEW b \in Seq(Packet), NEW c \in Seq(Packet), NEW d \in Seq(Packet)
  PROVE  Chain(a, b \o c, <<>>, d) = Chain(a, b, c, d)
<1>1. a \o (b \o c) = (a \o b) \o c BY Joined, Zenon
<1>2. <<>> \o d = d BY ConcatEmptySeq
<1>3. a \o b \in Seq(Packet) BY OnlyConcat
<1>4. ((a \o b) \o c) \o d = (a \o b) \o (c \o d) BY <1>3, Joined, Zenon
<1> QED BY <1>1, <1>2, <1>4 DEF Chain

\* The reader reads all there is.
LEMMA ChainRead ==
  ASSUME NEW b \in Seq(Packet), NEW c \in Seq(Packet), NEW d \in Seq(Packet)
  PROVE  Chain(b, <<>>, c, d) = Chain(<<>>, b, c, d)
<1>1. b \o <<>> = b /\ <<>> \o b = b BY ConcatEmptySeq
<1> QED BY <1>1 DEF Chain

\* main queues a burst.
LEMMA ChainAdd ==
  ASSUME NEW a \in Seq(Packet), NEW b \in Seq(Packet), NEW c \in Seq(Packet), NEW d \in Seq(Packet),
         NEW burst \in Seq(Packet)
  PROVE  Chain(a, b, c, Join(d, burst)) = Join(Chain(a, b, c, d), burst)
<1>1. c \o (d \o burst) = (c \o d) \o burst BY Joined, ZenonT(40)
<1>2. a \o b \in Seq(Packet) /\ c \o d \in Seq(Packet) BY OnlyConcat
<1>3. (a \o b) \o ((c \o d) \o burst) = ((a \o b) \o (c \o d)) \o burst
  <2>1. PICK x \in Seq(Packet) : x = a \o b BY <1>2
  <2>2. PICK y \in Seq(Packet) : y = c \o d BY <1>2
  <2>3. x \o (y \o burst) = (x \o y) \o burst BY JoinedLast, ZenonT(40)
  <2> QED BY <2>1, <2>2, <2>3, Zenon
<1> QED BY <1>1, <1>3 DEF Chain, Join

\* The reader takes a packet.
LEMMA ChainPop ==
  ASSUME NEW p \in Packet, NEW t \in Seq(Packet), NEW b \in Seq(Packet), NEW c \in Seq(Packet),
         NEW d \in Seq(Packet)
  PROVE  Chain(Join(<<p>>, t), b, c, d) = Join(<<p>>, Chain(t, b, c, d))
<1> DEFINE h == <<p>>
<1>2. h \in Seq(Packet) OBVIOUS
<1> HIDE DEF h
<1>3. \A x, y \in Seq(Packet) : (h \o x) \o y = h \o (x \o y) BY <1>2, Joined
<1>4. t \o b \in Seq(Packet) /\ c \o d \in Seq(Packet) BY <1>2, OnlyConcat
<1>5. /\ (h \o t) \o b = h \o (t \o b)
      /\ (h \o (t \o b)) \o (c \o d) = h \o ((t \o b) \o (c \o d))
  BY <1>3, <1>4, Zenon
<1>6. Chain(Join(h, t), b, c, d) = Join(h, Chain(t, b, c, d)) BY <1>5 DEF Chain, Join
<1> QED BY <1>6 DEF h

\* A payload packet that has a finish packet behind it keeps it.
LEMMA BehindConcat ==
  ASSUME NEW q \in Seq(Packet), NEW r \in Seq(Packet), Behind(q), Behind(r)
  PROVE  Behind(q \o r)
<1>1. /\ q \o r \in Seq(Packet) /\ Len(q \o r) = Len(q) + Len(r)
      /\ \A i \in 1..Len(q) : (q \o r)[i] = q[i]
      /\ \A i \in 1..Len(r) : (q \o r)[Len(q) + i] = r[i]
      /\ Len(q) \in Nat /\ Len(r) \in Nat
  BY ConcatProperties, LenProperties
<1> SUFFICES ASSUME NEW i \in 1..Len(q \o r), (q \o r)[i] = "Payload"
             PROVE  \E j \in (i + 1)..Len(q \o r) : (q \o r)[j] \in Finish
  BY DEF Behind
<1>2. CASE i <= Len(q)
  <2>1. i \in 1..Len(q) /\ q[i] = "Payload" BY <1>1, <1>2
  <2>2. PICK j \in (i + 1)..Len(q) : q[j] \in Finish BY <2>1 DEF Behind
  <2>3. j \in (i + 1)..Len(q \o r) /\ (q \o r)[j] = q[j] BY <1>1, <2>1, <2>2
  <2> QED BY <2>2, <2>3
<1>3. CASE i > Len(q)
  <2>1. i - Len(q) \in 1..Len(r) /\ Len(q) + (i - Len(q)) = i BY <1>1, <1>3
  <2>2. r[i - Len(q)] = "Payload" BY <1>1, <2>1
  <2>3. PICK j \in (i - Len(q) + 1)..Len(r) : r[j] \in Finish BY <2>1, <2>2 DEF Behind
  <2>4. Len(q) + j \in (i + 1)..Len(q \o r) /\ j \in 1..Len(r) BY <1>1, <2>1, <2>3
  <2>5. (q \o r)[Len(q) + j] = r[j] BY <1>1, <2>4
  <2> QED BY <2>3, <2>4, <2>5
<1> QED BY <1>1, <1>2, <1>3

\* What is behind the first packet stays behind the others.
LEMMA BehindRest ==
  ASSUME NEW p \in Packet, NEW q \in Seq(Packet), Behind(<<p>> \o q)
  PROVE  Behind(q)
<1> DEFINE r == <<p>> \o q
<1>1. /\ Len(r) = 1 + Len(q) /\ Len(q) \in Nat
      /\ \A i \in 1..Len(q) : r[1 + i] = q[i]
  OBVIOUS
<1>2. Behind(r) OBVIOUS
<1> HIDE DEF r
<1> SUFFICES ASSUME NEW i \in 1..Len(q), q[i] = "Payload"
             PROVE  \E j \in (i + 1)..Len(q) : q[j] \in Finish
  BY DEF Behind
<1>3. 1 + i \in 1..Len(r) /\ r[1 + i] = "Payload" BY <1>1
<1>4. PICK j \in (1 + i + 1)..Len(r) : r[j] \in Finish BY <1>2, <1>3 DEF Behind
<1>5. j - 1 \in (i + 1)..Len(q) /\ j - 1 \in 1..Len(q) /\ 1 + (j - 1) = j BY <1>1, <1>4
<1>6. q[j - 1] = r[j] BY <1>1, <1>5
<1> QED BY <1>4, <1>5, <1>6

\* A burst that ends with a finish packet, and one without payload.
LEMMA BehindBurst ==
  ASSUME NEW q \in Seq(Packet), NEW p \in Finish
  PROVE  Behind(q \o <<p>>)
<1>1. /\ Len(q \o <<p>>) = Len(q) + 1 /\ Len(q) \in Nat /\ (q \o <<p>>)[Len(q) + 1] = p
  OBVIOUS
<1>2. p # "Payload" BY DEF Finish
<1> SUFFICES ASSUME NEW i \in 1..Len(q \o <<p>>), (q \o <<p>>)[i] = "Payload"
             PROVE  Len(q) + 1 \in (i + 1)..Len(q \o <<p>>)
  BY <1>1 DEF Behind
<1>3. i # Len(q) + 1 BY <1>1, <1>2
<1> QED BY <1>1, <1>3

\* Without payload nothing needs a finish packet behind it.
LEMMA BehindNone ==
  ASSUME NEW q \in Seq(Packet), Only(q, Packet \ {"Payload"}) PROVE Behind(q)
  BY DEF Behind, Only

\* Without a finish packet there is no payload in flight.
LEMMA NothingBehind ==
  ASSUME NEW q \in Seq(Packet), Behind(q), Occurrences(q, Finish) = 0
  PROVE  Only(q, Packet \ {"Payload"})
<1>1. \A i \in 1..Len(q) : q[i] \notin Finish BY OccurrencesNone
<1>2. \A i \in 1..Len(q) : q[i] \in Packet OBVIOUS
<1>3. Len(q) \in Nat OBVIOUS
<1>4. ASSUME NEW i \in 1..Len(q), q[i] = "Payload" PROVE FALSE
  <2>1. PICK j \in (i + 1)..Len(q) : q[j] \in Finish BY <1>4 DEF Behind
  <2>2. j \in 1..Len(q) BY <1>3, <1>4, <2>1
  <2> QED BY <1>1, <2>1, <2>2
<1> QED BY <1>2, <1>4 DEF Only

-----------------------------------------------------------------------------
(* The connection while nobody ends it. *)

\* Cells that the program wrote wait to be read.
LEMMA SoundArrive ==
  ASSUME NEW q \in Seq(Packet), NEW w \in Nat, NEW a \in Nat, NEW n \in Nat, Sound(q, w, 0, a)
  PROVE  Sound(q, w + n, n, a)
  BY OccurrencesType DEF Sound

\* A burst without payload changes nothing.
LEMMA SoundAdd ==
  ASSUME NEW q \in Seq(Packet), NEW w \in Nat, NEW v \in Nat, NEW a \in Nat, Sound(q, w, v, a),
         NEW b \in Seq(Packet), Only(b, Plain \ {"Payload"})
  PROVE  Sound(q \o b, w, v, a)
<1>1. Only(q, Plain) /\ Behind(q) /\ w = v + Occurrences(q, {"Payload"}) + a BY DEF Sound
<1>2. Only(b, Plain) /\ Only(b, Packet \ {"Payload"}) BY DEF Only, Packet
<1>3. Only(q \o b, Plain) BY <1>1, <1>2, OnlyConcat
<1>4. Behind(q \o b) BY <1>1, <1>2, BehindNone, BehindConcat
<1>5. \A i \in 1..Len(b) : b[i] \notin {"Payload"} BY DEF Only
<1>6. Occurrences(b, {"Payload"}) = 0 BY <1>5, OccurrencesNone
<1>7. Occurrences(q, {"Payload"}) \in Nat BY OccurrencesType
<1>8. Occurrences(q \o b, {"Payload"}) = Occurrences(q, {"Payload"}) + Occurrences(b, {"Payload"})
  BY OccurrencesConcat
<1>9. Occurrences(q \o b, {"Payload"}) = Occurrences(q, {"Payload"}) BY <1>6, <1>7, <1>8
<1> QED BY <1>1, <1>3, <1>4, <1>9 DEF Sound

\* A real burst: cells, dummies and a finish packet.
LEMMA BurstParts ==
  ASSUME NEW n \in Nat, NEW d \in Seq(Packet), Only(d, {"Dummy"})
  PROVE  LET b == Cells(n) \o d \o <<"RealFinish">> IN
         /\ b \in Seq(Packet) /\ Only(b, Plain) /\ Behind(b)
         /\ Occurrences(b, {"Payload"}) = n /\ Occurrences(b, Finish) = 1
<1> DEFINE c == Cells(n)
           f == <<"RealFinish">>
           b == c \o d \o f
<1>0. "RealFinish" \in Packet /\ "RealFinish" \in Finish BY DEF Packet, Plain, Finish
<1>1. /\ c \in Seq(Packet) /\ Len(c) = n /\ Only(c, {"Payload"}) /\ f \in Seq(Packet)
  BY <1>0, CellsSeq
<1> HIDE DEF c
<1>2. c \o d \in Seq(Packet) /\ b \in Seq(Packet) BY <1>1
<1>3. Only(c, Plain) /\ Only(d, Plain) /\ Only(f, Plain) BY <1>1 DEF Only, Plain
<1>4. Only(b, Plain)
  <2>1. Only(c \o d, Plain) BY <1>1, <1>3, OnlyConcat
  <2> QED BY <1>1, <1>2, <1>3, <2>1, OnlyConcat
<1>5. Behind(b) BY <1>0, <1>2, BehindBurst
<1>6. ASSUME NEW S
      PROVE  /\ Occurrences(b, S) = Occurrences(c, S) + Occurrences(d, S) + Occurrences(f, S)
             /\ Occurrences(c, S) \in Nat /\ Occurrences(d, S) \in Nat
  <2>1. Occurrences(c \o d, S) = Occurrences(c, S) + Occurrences(d, S)
    BY <1>1, OccurrencesConcat
  <2>2. Occurrences(b, S) = Occurrences(c \o d, S) + Occurrences(f, S)
    BY <1>1, <1>2, OccurrencesConcat
  <2>3. Occurrences(c, S) \in Nat /\ Occurrences(d, S) \in Nat BY <1>1, OccurrencesType
  <2> QED BY <2>1, <2>2, <2>3
<1>7. Occurrences(c, {"Payload"}) = n BY <1>1, OccurrencesAll DEF Only
<1>8. Occurrences(c, Finish) = 0
  <2>1. \A i \in 1..Len(c) : c[i] \notin Finish BY <1>1 DEF Only, Finish
  <2> QED BY <1>1, <2>1, OccurrencesNone
<1>9. Occurrences(d, {"Payload"}) = 0 /\ Occurrences(d, Finish) = 0
  <2>1. \A i \in 1..Len(d) : d[i] \notin {"Payload"} /\ d[i] \notin Finish BY DEF Only, Finish
  <2> QED BY <2>1, OccurrencesNone
<1>10. Occurrences(f, {"Payload"}) = 0 /\ Occurrences(f, Finish) = 1 BY <1>0, OccurrencesOne
<1>11. Occurrences(b, {"Payload"}) = n
  <2>1. Occurrences(b, {"Payload"}) = n + 0 + 0 BY <1>6, <1>7, <1>9, <1>10
  <2> QED BY <2>1
<1>12. Occurrences(b, Finish) = 1
  <2>1. Occurrences(b, Finish) = 0 + 0 + 1 BY <1>6, <1>8, <1>9, <1>10
  <2> QED BY <2>1
<1> QED BY <1>2, <1>4, <1>5, <1>11, <1>12 DEF c

\* It carries the cells that were read from the program.
LEMMA SoundBurst ==
  ASSUME NEW q \in Seq(Packet), NEW w \in Nat, NEW v \in Nat, NEW a \in Nat, Sound(q, w, v, a),
         NEW b \in Seq(Packet), Only(b, Plain), Behind(b), Occurrences(b, {"Payload"}) = v
  PROVE  Sound(q \o b, w, 0, a)
<1>1. Only(q, Plain) /\ Behind(q) /\ w = v + Occurrences(q, {"Payload"}) + a BY DEF Sound
<1>2. Only(q \o b, Plain) BY <1>1, OnlyConcat
<1>3. Behind(q \o b) BY <1>1, BehindConcat
<1>4. Occurrences(q, {"Payload"}) \in Nat BY OccurrencesType
<1>5. Occurrences(q \o b, {"Payload"}) = Occurrences(q, {"Payload"}) + v BY OccurrencesConcat
<1> QED BY <1>1, <1>2, <1>3, <1>4, <1>5 DEF Sound

\* The reader takes the first packet.
LEMMA SoundPop ==
  ASSUME NEW p \in Packet, NEW q \in Seq(Packet), NEW w \in Nat, NEW v \in Nat, NEW a \in Nat,
         Sound(<<p>> \o q, w, v, a)
  PROVE  p \in Plain /\ Sound(q, w, v, a + (IF p = "Payload" THEN 1 ELSE 0))
<1> DEFINE f == <<p>>
<1>1. /\ Only(f \o q, Plain) /\ Behind(f \o q)
      /\ w = v + Occurrences(f \o q, {"Payload"}) + a
  BY DEF Sound
<1>2. f \in Seq(Packet) OBVIOUS
<1>3. Occurrences(f, {"Payload"}) = IF p = "Payload" THEN 1 ELSE 0 BY OccurrencesOne
<1>4. Behind(q) BY <1>1, BehindRest
<1>5. Only(f, Plain) => p \in Plain BY OnlyOne
<1> HIDE DEF f
<1>6. Only(f, Plain) /\ Only(q, Plain) BY <1>1, <1>2, OnlyConcat
<1>7. Occurrences(f \o q, {"Payload"}) = Occurrences(f, {"Payload"}) + Occurrences(q, {"Payload"})
  BY <1>2, OccurrencesConcat
<1>8. Occurrences(q, {"Payload"}) \in Nat BY OccurrencesType
<1>9. w = v + Occurrences(q, {"Payload"}) + (a + (IF p = "Payload" THEN 1 ELSE 0))
  BY <1>1, <1>3, <1>7, <1>8
<1> QED BY <1>4, <1>5, <1>6, <1>9 DEF Sound

\* What is in flight from s when it holds e and the other end p.
Sent(e, p) == Chain(p.rbuf, e.wire, e.held, e.wq)

\* The turns of an end, and those of the connection seen from either end.
LEMMA TurnsOf ==
  ASSUME Typed, NEW s \in Side
  PROVE  /\ Flight(s) = Sent(end[s], end[Peer(s)]) /\ Flight(s) \in Seq(Packet)
         /\ Occurrences(Flight(s), Finish) \in Nat /\ Held(end[s]) \in Nat
         /\ Turns(s) = Occurrences(Flight(s), Finish) + Held(end[s])
<1>1. Flight(s) = Sent(end[s], end[Peer(s)]) BY DEF Flight, Sent, Chain
<1>2. /\ end[Peer(s)].rbuf \in Seq(Packet) /\ end[s].wire \in Seq(Packet)
      /\ end[s].held \in Seq(Packet) /\ end[s].wq \in Seq(Packet)
  BY TwoEnds, TypesOf DEF ReaderTyped
<1>3. Flight(s) \in Seq(Packet)
  <2>1. Chain(end[Peer(s)].rbuf, end[s].wire, end[s].held, end[s].wq) \in Seq(Packet)
    BY <1>2, ChainSeq
  <2> QED BY <1>1, <2>1 DEF Sent
<1>4. Occurrences(Flight(s), Finish) \in Nat BY <1>3, OccurrencesType
<1>5. Held(end[s]) \in Nat BY DEF Held
<1>6. Turns(s) = Occurrences(Flight(s), Finish) + Held(end[s])
  BY <1>4 DEF Turns, Held, InTurn
<1> QED BY <1>1, <1>3, <1>4, <1>5, <1>6

\* The turns in flight and at the ends are one and one for each keep-alive packet.
Balance(out, here, in, there, k) == out + here + in + there = 1 + k

\* The invariant, from the point of view of one end.
LiveFrom(e, p, k) ==
  /\ e.canSend # <<"TearDown">> /\ e.rpc = "run" /\ p.canSend # <<"TearDown">> /\ p.rpc = "run"
  /\ Sound(Sent(e, p), e.wrote, e.avail, p.dec + p.got)
  /\ Sound(Sent(p, e), p.wrote, p.avail, e.dec + e.got)
  /\ Balance(Occurrences(Sent(e, p), Finish), Held(e), Occurrences(Sent(p, e), Finish), Held(p), k)

\* It is the invariant.
LEMMA LiveSeen ==
  ASSUME Typed, ~Ending, NEW s \in Side
  PROVE  Live <=> LiveFrom(end[s], end[Peer(s)], kicks)
<1> DEFINE p == Peer(s)
<1>0. p \in Side /\ Peer(p) = s /\ \A x \in Side : x = s \/ x = p BY TwoEnds
<1>1. Live <=> LiveSide(s) /\ LiveSide(p) /\ Turns(Client) + Turns(Server) = 1 + kicks
  BY <1>0 DEF Live, OneTurn
<1> HIDE DEF p
<1>2. Flight(s) = Sent(end[s], end[p]) /\ Flight(p) = Sent(end[p], end[s])
  BY <1>0, TurnsOf DEF p
<1>3. LiveSide(s) <=> /\ end[s].canSend # <<"TearDown">> /\ end[s].rpc = "run"
                      /\ Sound(Sent(end[s], end[p]), end[s].wrote, end[s].avail, end[p].dec + end[p].got)
  BY <1>2 DEF LiveSide, p
<1>4. LiveSide(p) <=> /\ end[p].canSend # <<"TearDown">> /\ end[p].rpc = "run"
                      /\ Sound(Sent(end[p], end[s]), end[p].wrote, end[p].avail, end[s].dec + end[s].got)
  BY <1>0, <1>2 DEF LiveSide
<1>5. Turns(Client) + Turns(Server) = Turns(s) + Turns(p)
  <2>1. (s = Client /\ p = Server) \/ (s = Server /\ p = Client) BY DEF p, Peer, Side
  <2>2. Turns(s) \in Nat /\ Turns(p) \in Nat BY <1>0, TurnsOf
  <2> QED BY <2>1, <2>2
<1>6. Turns(s) + Turns(p) = Occurrences(Sent(end[s], end[p]), Finish) + Held(end[s])
                            + Occurrences(Sent(end[p], end[s]), Finish) + Held(end[p])
  BY <1>0, <1>2, TurnsOf
<1> QED BY <1>1, <1>3, <1>4, <1>5, <1>6 DEF LiveFrom, Balance, p

\* The types of the two ends that are needed here.
PairTyped(e, p) ==
  /\ e.rbuf \in Seq(Packet) /\ e.wire \in Seq(Packet) /\ e.held \in Seq(Packet) /\ e.wq \in Seq(Packet)
  /\ p.rbuf \in Seq(Packet) /\ p.wire \in Seq(Packet) /\ p.held \in Seq(Packet) /\ p.wq \in Seq(Packet)
  /\ e.wrote \in Nat /\ e.avail \in Nat /\ e.dec \in Nat /\ e.got \in Nat
  /\ p.wrote \in Nat /\ p.avail \in Nat /\ p.dec \in Nat /\ p.got \in Nat
\* They follow from the types of the state.
LEMMA PairTypes ==
  ASSUME Typed, NEW s \in Side
  PROVE  PairTyped(end[s], end[Peer(s)])
<1> DEFINE e == end[s]
           p == end[Peer(s)]
<1>1. /\ e.rbuf \in Seq(Packet) /\ e.wire \in Seq(Packet) /\ e.held \in Seq(Packet) /\ e.wq \in Seq(Packet)
      /\ e.wrote \in Nat /\ e.avail \in Nat /\ e.dec \in Nat /\ e.got \in Nat
  BY TypesOf DEF ReaderTyped, ProgramTyped
<1>2. /\ p.rbuf \in Seq(Packet) /\ p.wire \in Seq(Packet) /\ p.held \in Seq(Packet) /\ p.wq \in Seq(Packet)
      /\ p.wrote \in Nat /\ p.avail \in Nat /\ p.dec \in Nat /\ p.got \in Nat
  BY TwoEnds, TypesOf DEF ReaderTyped, ProgramTyped
<1> HIDE DEF e, p
<1>3. PairTyped(e, p) BY <1>1, <1>2 DEF PairTyped
<1> QED BY <1>3 DEF e, p

\* What is in flight is a queue of packets, and its finish packets can be counted.
LEMMA SentType ==
  ASSUME NEW e, NEW p, PairTyped(e, p)
  PROVE  /\ Sent(e, p) \in Seq(Packet) /\ Sent(p, e) \in Seq(Packet)
         /\ Occurrences(Sent(e, p), Finish) \in Nat /\ Occurrences(Sent(p, e), Finish) \in Nat
<1>1. Sent(e, p) \in Seq(Packet) BY ChainSeq DEF PairTyped, Sent
<1>2. Sent(p, e) \in Seq(Packet) BY ChainSeq DEF PairTyped, Sent
<1> QED BY <1>1, <1>2, OccurrencesType

\* If all that is in flight is of a kind, so is what each queue holds.
LEMMA SentOnly ==
  ASSUME NEW e, NEW p, PairTyped(e, p), NEW S, Only(Sent(e, p), S)
  PROVE  Only(p.rbuf, S) /\ Only(e.wire, S) /\ Only(e.held, S) /\ Only(e.wq, S)
<1>1. p.rbuf \in Seq(Packet) /\ e.wire \in Seq(Packet) /\ e.held \in Seq(Packet) /\ e.wq \in Seq(Packet)
  BY DEF PairTyped
<1>2. Only(Chain(p.rbuf, e.wire, e.held, e.wq), S) BY DEF Sent
<1> QED BY <1>1, <1>2, ChainOnly

\* An end holds a number of turns.
LEMMA HeldType == ASSUME NEW e PROVE Held(e) \in Nat
  BY DEF Held

\* What has arrived at an end is a number of cells.
LEMMA ArrivedType ==
  ASSUME NEW e, NEW p, PairTyped(e, p)
  PROVE  /\ e.wrote \in Nat /\ e.avail \in Nat /\ p.wrote \in Nat /\ p.avail \in Nat
         /\ e.dec + e.got \in Nat /\ p.dec + p.got \in Nat
<1>1. /\ e.wrote \in Nat /\ e.avail \in Nat /\ p.wrote \in Nat /\ p.avail \in Nat
      /\ e.dec \in Nat /\ e.got \in Nat /\ p.dec \in Nat /\ p.got \in Nat
  BY DEF PairTyped
<1>2. \A x, y \in Nat : x + y \in Nat OBVIOUS
<1> QED BY <1>1, <1>2, Zenon

\* What is counted in two queues.
LEMMA OccurrencesJoin ==
  ASSUME NEW q \in Seq(Packet), NEW r \in Seq(Packet), NEW S
  PROVE  Occurrences(Join(q, r), S) = Occurrences(q, S) + Occurrences(r, S)
  BY OccurrencesConcat DEF Join

\* A turn that one end gives up is in flight.
LEMMA BalanceMoved ==
  ASSUME NEW o \in Nat, NEW c \in Nat, NEW x \in Nat, NEW y \in Nat, NEW i \in Nat, NEW u \in Nat,
         NEW k \in Nat, NEW more \in Nat, Balance(o, x, i, u, k), y + c = x + more
  PROVE  Balance(o + c, y, i, u, k + more)
  BY DEF Balance

\* A burst goes to the end of what is in flight.
LEMMA SentAdd ==
  ASSUME NEW e, NEW p, NEW n, PairTyped(e, p), NEW b \in Seq(Packet),
         n.wq = Join(e.wq, b), n.held = e.held, n.wire = e.wire, n.rbuf = e.rbuf
  PROVE  Sent(n, p) = Join(Sent(e, p), b) /\ Sent(p, n) = Sent(p, e)
<1>1. /\ p.rbuf \in Seq(Packet) /\ e.wire \in Seq(Packet) /\ e.held \in Seq(Packet) /\ e.wq \in Seq(Packet)
  BY DEF PairTyped
<1>2. Chain(p.rbuf, e.wire, e.held, Join(e.wq, b)) = Join(Chain(p.rbuf, e.wire, e.held, e.wq), b)
  BY <1>1, ChainAdd
<1> QED BY <1>2 DEF Sent

\* A step that leaves what is in flight, and the turns, as they are.
LEMMA QuietKeeps ==
  ASSUME NEW e, NEW p, NEW n, NEW k, LiveFrom(e, p, k),
         n.canSend # <<"TearDown">>, n.rpc = e.rpc,
         Sent(n, p) = Sent(e, p), Sent(p, n) = Sent(p, e), n.wrote = e.wrote, n.avail = e.avail,
         n.dec + n.got = e.dec + e.got, Held(n) = Held(e)
  PROVE  LiveFrom(n, p, k)
  BY DEF LiveFrom

\* A step that queues a burst without payload, and gives up as many turns as the burst has
\* finish packets, if these are no keep-alive packets.
LEMMA QueueKeeps ==
  ASSUME NEW e, NEW p, NEW n, NEW k \in Nat, PairTyped(e, p), LiveFrom(e, p, k),
         NEW b \in Seq(Packet), Only(b, Plain \ {"Payload"}), NEW more \in Nat,
         n.canSend # <<"TearDown">>, n.rpc = e.rpc,
         n.wq = Join(e.wq, b), n.held = e.held, n.wire = e.wire, n.rbuf = e.rbuf,
         n.wrote = e.wrote, n.avail = e.avail, n.dec = e.dec, n.got = e.got,
         Held(n) + Occurrences(b, Finish) = Held(e) + more
  PROVE  LiveFrom(n, p, k + more)
<1>1. Sent(n, p) = Join(Sent(e, p), b) /\ Sent(p, n) = Sent(p, e) BY SentAdd
<1>2. Sent(e, p) \in Seq(Packet) BY SentType
<1>3. e.wrote \in Nat /\ e.avail \in Nat /\ p.dec + p.got \in Nat BY ArrivedType
<1>4. Sound(Sent(e, p), e.wrote, e.avail, p.dec + p.got) BY DEF LiveFrom
<1>5. Sound(Sent(n, p), e.wrote, e.avail, p.dec + p.got) BY <1>1, <1>2, <1>3, <1>4, SoundAdd DEF Join
<1>6. Occurrences(Sent(n, p), Finish) = Occurrences(Sent(e, p), Finish) + Occurrences(b, Finish)
  BY <1>1, <1>2, OccurrencesJoin
<1>7. Balance(Occurrences(Sent(n, p), Finish), Held(n), Occurrences(Sent(p, n), Finish), Held(p), k + more)
  <2> DEFINE o == Occurrences(Sent(e, p), Finish)
             i == Occurrences(Sent(p, e), Finish)
             x == Held(e)
             u == Held(p)
             y == Held(n)
             c == Occurrences(b, Finish)
  <2>1. Balance(o, x, i, u, k) BY DEF LiveFrom
  <2>2. o \in Nat /\ i \in Nat /\ x \in Nat /\ u \in Nat /\ y \in Nat BY SentType, HeldType
  <2>3. c \in Nat BY OccurrencesType
  <2>4. y + c = x + more /\ Occurrences(Sent(n, p), Finish) = o + c BY <1>6
  <2> HIDE DEF o, i, x, u, y, c
  <2>5. Balance(o + c, y, i, u, k + more) BY <2>1, <2>2, <2>3, <2>4, BalanceMoved
  <2> QED BY <1>1, <2>4, <2>5 DEF y, i, u
<1> QED BY <1>1, <1>5, <1>7 DEF LiveFrom

\* The program wrote.
LEMMA ArriveKeeps ==
  ASSUME NEW e, NEW p, NEW n, NEW k \in Nat, PairTyped(e, p), LiveFrom(e, p, k),
         e.avail = 0, NEW w \in Nat,
         n.canSend = e.canSend, n.rpc = e.rpc, n.mpc = e.mpc,
         n.wq = e.wq, n.held = e.held, n.wire = e.wire, n.rbuf = e.rbuf,
         n.dec = e.dec, n.got = e.got, n.wrote = e.wrote + w, n.avail = w
  PROVE  LiveFrom(n, p, k)
<1>2. Sent(e, p) \in Seq(Packet) BY SentType
<1>3. e.wrote \in Nat /\ p.dec + p.got \in Nat BY ArrivedType
<1>4. Sent(n, p) = Sent(e, p) /\ Sent(p, n) = Sent(p, e) BY DEF Sent
<1>5. Held(n) = Held(e) BY DEF Held
<1>6. Sound(Sent(e, p), e.wrote, 0, p.dec + p.got) BY DEF LiveFrom
<1>7. Sound(Sent(e, p), e.wrote + w, w, p.dec + p.got) BY <1>2, <1>3, <1>6, SoundArrive
<1> QED BY <1>4, <1>5, <1>7 DEF LiveFrom

\* main queues a real burst.
LEMMA BurstKeeps ==
  ASSUME NEW e, NEW p, NEW n, NEW k \in Nat, PairTyped(e, p), LiveFrom(e, p, k),
         NEW b \in Seq(Packet), Only(b, Plain), Behind(b),
         Occurrences(b, {"Payload"}) = e.avail, Occurrences(b, Finish) = 1,
         n.canSend = e.canSend, n.rpc = e.rpc, e.mpc \in InTurn, n.mpc = "select",
         n.wq = Join(e.wq, b), n.held = e.held, n.wire = e.wire, n.rbuf = e.rbuf,
         n.dec = e.dec, n.got = e.got, n.wrote = e.wrote, n.avail = 0
  PROVE  LiveFrom(n, p, k)
<1>1. Sent(n, p) = Join(Sent(e, p), b) /\ Sent(p, n) = Sent(p, e) BY SentAdd
<1>2. Sent(e, p) \in Seq(Packet) BY SentType
<1>3. e.wrote \in Nat /\ e.avail \in Nat /\ p.dec + p.got \in Nat BY ArrivedType
<1>4. Sound(Sent(e, p), e.wrote, e.avail, p.dec + p.got) BY DEF LiveFrom
<1>5. Sound(Sent(n, p), e.wrote, 0, p.dec + p.got) BY <1>1, <1>2, <1>3, <1>4, SoundBurst DEF Join
<1>6. Occurrences(Sent(n, p), Finish) = Occurrences(Sent(e, p), Finish) + 1
  BY <1>1, <1>2, OccurrencesJoin
<1>7. Held(n) + 1 = Held(e) /\ Held(n) \in Nat BY DEF Held, InTurn
<1>8. Balance(Occurrences(Sent(n, p), Finish), Held(n), Occurrences(Sent(p, n), Finish), Held(p), k)
  <2> DEFINE o == Occurrences(Sent(e, p), Finish)
             i == Occurrences(Sent(p, e), Finish)
             x == Held(e)
             u == Held(p)
             y == Held(n)
  <2>1. Balance(o, x, i, u, k) BY DEF LiveFrom
  <2>2. o \in Nat /\ i \in Nat /\ x \in Nat /\ u \in Nat /\ y \in Nat BY SentType, HeldType
  <2>3. y + 1 = x /\ Occurrences(Sent(n, p), Finish) = o + 1 BY <1>6, <1>7
  <2> HIDE DEF o, i, x, u, y
  <2>4. Balance(o + 1, y, i, u, k) BY <2>1, <2>2, <2>3 DEF Balance
  <2> QED BY <1>1, <2>3, <2>4 DEF y, i, u
<1> QED BY <1>1, <1>5, <1>8 DEF LiveFrom

\* The reader of n takes the packet h.
LEMMA PopKeeps ==
  ASSUME NEW e, NEW p, NEW n, NEW k \in Nat, PairTyped(e, p), LiveFrom(e, p, k),
         NEW h \in Packet, n.rbuf \in Seq(Packet), e.rbuf = Join(<<h>>, n.rbuf),
         n.canSend # <<"TearDown">>, n.rpc = e.rpc,
         n.wq = e.wq, n.held = e.held, n.wire = e.wire, n.wrote = e.wrote, n.avail = e.avail,
         n.dec + n.got = e.dec + e.got + (IF h = "Payload" THEN 1 ELSE 0),
         Held(n) = Held(e) + (IF h \in Finish THEN 1 ELSE 0)
  PROVE  h \in Plain /\ LiveFrom(n, p, k)
<1>1. /\ e.rbuf \in Seq(Packet) /\ p.wire \in Seq(Packet) /\ p.held \in Seq(Packet) /\ p.wq \in Seq(Packet)
      /\ p.wrote \in Nat /\ p.avail \in Nat /\ e.dec + e.got \in Nat
  BY ArrivedType DEF PairTyped
<1>3. Chain(e.rbuf, p.wire, p.held, p.wq) = Join(<<h>>, Chain(n.rbuf, p.wire, p.held, p.wq))
  BY <1>1, ChainPop
<1>4. Sent(p, e) = Join(<<h>>, Sent(p, n)) /\ Sent(n, p) = Sent(e, p) BY <1>3 DEF Sent
<1>5. Sent(p, n) \in Seq(Packet) BY <1>1, ChainSeq DEF Sent
<1>6. Sound(Sent(p, e), p.wrote, p.avail, e.dec + e.got) BY DEF LiveFrom
<1>7. h \in Plain /\ Sound(Sent(p, n), p.wrote, p.avail, n.dec + n.got)
  BY <1>1, <1>4, <1>5, <1>6, SoundPop DEF Join
<1>8. Occurrences(Sent(p, e), Finish) = (IF h \in Finish THEN 1 ELSE 0) + Occurrences(Sent(p, n), Finish)
  <2>1. <<h>> \in Seq(Packet) /\ Occurrences(<<h>>, Finish) = IF h \in Finish THEN 1 ELSE 0
    BY OccurrencesOne
  <2>2. PICK f \in Seq(Packet) : f = <<h>> BY <2>1
  <2>3. Occurrences(Join(f, Sent(p, n)), Finish) = Occurrences(f, Finish) + Occurrences(Sent(p, n), Finish)
    BY <1>5, OccurrencesJoin
  <2> QED BY <1>4, <2>1, <2>2, <2>3
<1>9. Balance(Occurrences(Sent(n, p), Finish), Held(n), Occurrences(Sent(p, n), Finish), Held(p), k)
  <2> DEFINE o == Occurrences(Sent(e, p), Finish)
             i == Occurrences(Sent(p, e), Finish)
             x == Held(e)
             u == Held(p)
             y == Held(n)
             j == Occurrences(Sent(p, n), Finish)
             c == IF h \in Finish THEN 1 ELSE 0
  <2>1. Balance(o, x, i, u, k) BY DEF LiveFrom
  <2>2. o \in Nat /\ i \in Nat /\ x \in Nat /\ u \in Nat /\ y \in Nat BY SentType, HeldType
  <2>3. j \in Nat /\ c \in Nat BY <1>5, OccurrencesType
  <2>4. y = x + c /\ i = c + j BY <1>8
  <2> HIDE DEF o, i, x, u, y, j, c
  <2>5. Balance(o, y, j, u, k) BY <2>1, <2>2, <2>3, <2>4 DEF Balance
  <2> QED BY <1>4, <2>5 DEF o, y, j, u
<1> QED BY <1>4, <1>7, <1>9 DEF LiveFrom

\* The same before and after a step.
Seen == Typed /\ ~Ending => \A s \in Side : (Live <=> LiveFrom(end[s], end[Peer(s)], kicks))
\* It always holds,
LEMMA AlwaysSeen == Seen
  BY LiveSeen DEF Seen
\* and so it holds in the next state.
LEMMA SeenNext == Seen'
  BY AlwaysSeen, PTL

\* A step of s, seen from there.
LEMMA LiveStep ==
  ASSUME Typed, Typed', Live, NEW s \in Side, end'[Peer(s)] = end[Peer(s)],
         ~Ending' => ~Ending /\ (LiveFrom(end[s], end[Peer(s)], kicks)
                                 => LiveFrom(end'[s], end[Peer(s)], kicks'))
  PROVE  Live'
<1>1. CASE Ending' BY <1>1 DEF Live
<1>2. CASE ~Ending'
  <2>1. LiveFrom(end[s], end[Peer(s)], kicks) BY <1>2, LiveSeen
  <2>2. LiveFrom(end'[s], end[Peer(s)], kicks') BY <1>2, <2>1
  <2> QED BY <1>2, <2>2, SeenNext DEF Seen
<1> QED BY <1>1, <1>2

-----------------------------------------------------------------------------
(* Every step of an end. *)

\* Groups of fields that a step leaves alone.
SameMain(n, e) == n.mpc = e.mpc /\ n.quit = e.quit /\ n.canSend = e.canSend
SameProgram(n, e) == n.avail = e.avail /\ n.wrote = e.wrote /\ n.toCome = e.toCome /\ n.ended = e.ended
SameQueues(n, e) == n.wq = e.wq /\ n.held = e.held /\ n.wire = e.wire
SameReader(n, e) == n.rbuf = e.rbuf /\ n.dec = e.dec /\ n.got = e.got /\ n.rpc = e.rpc /\ n.closed = e.closed

\* A step leaves the groups alone of which it names no field.
LEMMA Leaves ==
  ASSUME Typed, NEW s \in Side, NEW rec, Set(s, rec)
  PROVE  /\ DOMAIN rec \cap {"mpc", "quit", "canSend"} = {} => SameMain(end'[s], end[s])
         /\ DOMAIN rec \cap {"avail", "wrote", "toCome", "ended"} = {} => SameProgram(end'[s], end[s])
         /\ DOMAIN rec \cap {"wq", "held", "wire"} = {} => SameQueues(end'[s], end[s])
         /\ DOMAIN rec \cap {"rbuf", "dec", "got", "rpc", "closed"} = {} => SameReader(end'[s], end[s])
         /\ "err" \notin DOMAIN rec => end'[s].err = end[s].err
<1>1. SameMain(end'[s], end[s]) \/ DOMAIN rec \cap {"mpc", "quit", "canSend"} # {}
  BY Moves DEF SameMain, Now
<1>2. SameProgram(end'[s], end[s]) \/ DOMAIN rec \cap {"avail", "wrote", "toCome", "ended"} # {}
  BY Moves DEF SameProgram, Now
<1>3. SameQueues(end'[s], end[s]) \/ DOMAIN rec \cap {"wq", "held", "wire"} # {}
  BY Moves DEF SameQueues, Now
<1>4. SameReader(end'[s], end[s]) \/ DOMAIN rec \cap {"rbuf", "dec", "got", "rpc", "closed"} # {}
  BY Moves DEF SameReader, Now
<1>5. "err" \notin DOMAIN rec => end'[s].err = end[s].err BY Moves DEF Now
<1> QED BY <1>1, <1>2, <1>3, <1>4, <1>5

\* The types of the next state, from the groups that the step changed.
LEMMA TypedGroups ==
  ASSUME Typed, NEW s \in Side, NEW rec, Set(s, rec), env' = env, kicks' \in Nat,
         \/ SameMain(end'[s], end[s])
         \/ MainTyped(end'[s].mpc, end'[s].quit) /\ end'[s].canSend \in Signals,
         \/ SameProgram(end'[s], end[s])
         \/ /\ ProgramTyped(end'[s].avail, end'[s].wrote, end'[s].toCome, end'[s].ended)
            /\ end'[s].ended => s \in env.ends,
         \/ SameQueues(end'[s], end[s])
         \/ end'[s].wq \in Seq(Packet) /\ end'[s].held \in Seq(Packet) /\ end'[s].wire \in Seq(Packet),
         \/ SameReader(end'[s], end[s])
         \/ ReaderTyped(end'[s].rbuf, end'[s].dec, end'[s].got, end'[s].rpc, end'[s].closed)
  PROVE  Typed'
<1>1. MainTyped(end'[s].mpc, end'[s].quit) /\ end'[s].canSend \in Signals
  BY TypesOf DEF SameMain
<1>2. /\ ProgramTyped(end'[s].avail, end'[s].wrote, end'[s].toCome, end'[s].ended)
      /\ end'[s].ended => s \in env.ends
  BY TypesOf DEF SameProgram
<1>3. end'[s].wq \in Seq(Packet) /\ end'[s].held \in Seq(Packet) /\ end'[s].wire \in Seq(Packet)
  BY TypesOf DEF SameQueues
<1>4. ReaderTyped(end'[s].rbuf, end'[s].dec, end'[s].got, end'[s].rpc, end'[s].closed)
  BY TypesOf DEF SameReader
<1> QED BY <1>1, <1>2, <1>3, <1>4, TypedStep

\* The end is closing or closed.
Over(e) == e.err \/ e.closed \/ e.mpc \in Gone
\* The connection ends when one of its ends does.
LEMMA EndingOf == ASSUME NEW s \in Side PROVE Ending <=> Over(end[s]) \/ Over(end[Peer(s)])
<1>1. Ending <=> \E x \in Side : Over(end[x]) BY DEF Ending, Over, Gone
<1> QED BY <1>1, TwoEnds
EndingSeen == \A s \in Side : Ending <=> Over(end[s]) \/ Over(end[Peer(s)])
\* This always holds,
LEMMA EndingAlways == EndingSeen
  BY EndingOf DEF EndingSeen
\* and so it holds in the next state.
LEMMA EndingNext == EndingSeen'
  BY EndingAlways, PTL
\* A step of an end that stays over once it is.
LEMMA EndingStep ==
  ASSUME NEW s \in Side, end'[Peer(s)] = end[Peer(s)], Over(end[s]) => Over(end'[s])
  PROVE  (Ending => Ending') /\ (Ending' => Ending \/ Over(end'[s])) /\ (~Ending' => ~Over(end'[s]))
<1>1. Ending <=> Over(end[s]) \/ Over(end[Peer(s)]) BY EndingOf
<1>2. Ending' <=> Over(end'[s]) \/ Over(end[Peer(s)]) BY EndingNext DEF EndingSeen
<1> QED BY <1>1, <1>2

-----------------------------------------------------------------------------
(* The connection once somebody ends it. *)

\* What holds of the data still holds when less is promised.
LEMMA WordsLess ==
  ASSUME NEW e, NEW p, NEW kept, NEW less, Words(e, p, kept), less => kept
  PROVE  Words(e, p, less)
  BY DEF Words

\* The end whose program ended moves: it sends no data.
LEMMA WordsHere ==
  ASSUME NEW e, NEW p, NEW n, NEW kept, Words(e, p, kept),
         n.toCome = e.toCome, n.avail = e.avail, n.wrote = e.wrote,
         Only(n.wire, NoData), Only(n.held, NoData), Only(n.wq, NoData)
  PROVE  Words(n, p, kept)
  BY DEF Words

\* The other end moves, and its reader does not.
LEMMA WordsThere ==
  ASSUME NEW e, NEW p, NEW n, NEW kept, Words(e, p, kept), SameReader(n, p),
         n.canSend = <<"TearDown">> => p.canSend = <<"TearDown">>,
         n.mpc \in Gone => Quitting(p)
  PROVE  Words(e, n, kept)
<1>1. Quitting(n) => Quitting(p) BY DEF Quitting, SameReader
<1> QED BY <1>1 DEF Words, SameReader

\* A step of s, seen from there: it may begin the end of the connection only if its program
\* ended.
LEMMA EndedStep ==
  ASSUME Ended, NEW s \in Side, end'[Peer(s)] = end[Peer(s)], env' = env, early \subseteq early',
         kicks' = 0 => kicks = 0,
         Words(end[s], end[Peer(s)], Peer(s) \notin early)
           => Words(end'[s], end[Peer(s)], Peer(s) \notin early),
         env.ends = {Peer(s)} /\ Words(end[Peer(s)], end[s], s \notin early)
           => Words(end[Peer(s)], end'[s], s \notin early'),
         ~Ending /\ Ending' /\ kicks = 0 =>
           \A x \in Side : env.ends = {x} => x = s /\ Words(end'[s], end[Peer(s)], TRUE)
  PROVE  Ended'
<1> SUFFICES ASSUME NEW x \in Side, kicks' = 0, env.ends = {x}, Ending'
             PROVE  Words(end'[x], end'[Peer(x)], Peer(x) \notin early')
  BY DEF Ended, LastWords
<1>1. kicks = 0 OBVIOUS
<1>2. CASE Ending
  <2>1. Words(end[x], end[Peer(x)], Peer(x) \notin early) BY <1>1, <1>2 DEF Ended, LastWords
  <2>2. CASE x = s
    <3>1. Words(end'[s], end[Peer(s)], Peer(s) \notin early) BY <2>1, <2>2
    <3>2. Peer(s) \notin early' => Peer(s) \notin early OBVIOUS
    <3>3. Words(end'[s], end[Peer(s)], Peer(s) \notin early') BY <3>1, <3>2, WordsLess
    <3> QED BY <2>2, <3>3
  <2>3. CASE x = Peer(s)
    <3>1. Peer(x) = s BY <2>3, TwoEnds
    <3>2. Words(end[Peer(s)], end'[s], s \notin early') BY <2>1, <2>3, <3>1
    <3> QED BY <2>3, <3>1, <3>2
  <2> QED BY <2>2, <2>3, TwoEnds
<1>3. CASE ~Ending
  <2>1. x = s /\ Words(end'[s], end[Peer(s)], TRUE) BY <1>1, <1>3
  <2>2. Words(end'[s], end[Peer(s)], Peer(s) \notin early') BY <2>1, WordsLess
  <2> QED BY <2>1, <2>2
<1> QED BY <1>2, <1>3

\* The end has no data on its way.
SendsNoData(e) == Only(e.wire, NoData) /\ Only(e.held, NoData) /\ Only(e.wq, NoData)
\* Nothing the step changes matters to the last words.
LEMMA EndedSame ==
  ASSUME Ended, NEW s \in Side, end'[Peer(s)] = end[Peer(s)], env' = env, early' = early,
         kicks' = 0 => kicks = 0, Ending' => Ending,
         end'[s].toCome = end[s].toCome, end'[s].avail = end[s].avail, end'[s].wrote = end[s].wrote,
         SendsNoData(end[s]) => SendsNoData(end'[s]),
         SameReader(end'[s], end[s]),
         end'[s].canSend = <<"TearDown">> => end[s].canSend = <<"TearDown">>,
         end'[s].mpc \in Gone => Quitting(end[s])
  PROVE  Ended'
<1>1. ASSUME NEW kept, Words(end[s], end[Peer(s)], kept) PROVE Words(end'[s], end[Peer(s)], kept)
  <2>1. SendsNoData(end'[s]) BY <1>1 DEF Words, SendsNoData
  <2> QED BY <1>1, <2>1, WordsHere DEF SendsNoData
<1>2. ASSUME NEW kept, Words(end[Peer(s)], end[s], kept) PROVE Words(end[Peer(s)], end'[s], kept)
  BY <1>2, WordsThere
<1> QED BY <1>1, <1>2, EndedStep

\* A step of the reader, or one that closes the end, that does not begin the end.
LEMMA EndedReader ==
  ASSUME Ended, NEW s \in Side, end'[Peer(s)] = end[Peer(s)], env' = env, early' = early,
         kicks' = kicks, Ending' => Ending,
         SameProgram(end'[s], end[s]), SameQueues(end'[s], end[s]),
         Only(end[s].rbuf, NoData) => Only(end'[s].rbuf, NoData),
         Only(end[s].rbuf, NoData) /\ (Quitting(end[s]) => end[s].dec = 0)
           => /\ end'[s].dec + end'[s].got = end[s].dec + end[s].got
              /\ Quitting(end'[s]) => end'[s].dec = 0
  PROVE  Ended'
<1>1. ASSUME NEW kept, Words(end[s], end[Peer(s)], kept) PROVE Words(end'[s], end[Peer(s)], kept)
  BY <1>1, WordsHere DEF SameProgram, SameQueues, Words
<1>2. ASSUME NEW kept, Words(end[Peer(s)], end[s], kept) PROVE Words(end[Peer(s)], end'[s], kept)
  BY <1>2 DEF Words
<1> QED BY <1>1, <1>2, EndedStep

\* A step that ends the connection, or comes after its end.
LEMMA OverKeeps ==
  ASSUME NEW s \in Side, end'[Peer(s)] = end[Peer(s)], Over(end'[s])
  PROVE  Live'
<1>1. Ending' BY EndingNext DEF EndingSeen
<1> QED BY <1>1 DEF Live

\* A step that moves what is in flight on, or nothing.
QuietMove(n, e, p) ==
  /\ n.canSend # <<"TearDown">> /\ n.rpc = e.rpc
  /\ Sent(n, p) = Sent(e, p) /\ Sent(p, n) = Sent(p, e) /\ n.wrote = e.wrote /\ n.avail = e.avail
  /\ n.dec + n.got = e.dec + e.got /\ Held(n) = Held(e)
\* Such a step keeps the invariant.
LEMMA QuietLive ==
  ASSUME Typed, Typed', Live, NEW s \in Side, end'[Peer(s)] = end[Peer(s)], kicks' = kicks,
         Over(end[s]) => Over(end'[s]),
         ~Over(end'[s]) /\ end[s].canSend # <<"TearDown">> => QuietMove(end'[s], end[s], end[Peer(s)])
  PROVE  Live'
<1>1. ASSUME ~Ending' PROVE ~Ending /\ ~Over(end'[s]) BY <1>1, EndingStep
<1>2. ASSUME ~Ending', LiveFrom(end[s], end[Peer(s)], kicks)
      PROVE  LiveFrom(end'[s], end[Peer(s)], kicks)
  <2>1. end[s].canSend # <<"TearDown">> BY <1>2 DEF LiveFrom
  <2>2. QuietMove(end'[s], end[s], end[Peer(s)]) BY <1>1, <1>2, <2>1
  <2> QED BY <1>2, <2>2, QuietKeeps DEF QuietMove
<1> QED BY <1>1, <1>2, LiveStep

\* It changes neither the queues nor the reader.
LEMMA QuietMain ==
  ASSUME NEW n, NEW e, NEW p, SameQueues(n, e), SameReader(n, e),
         n.wrote = e.wrote, n.avail = e.avail, n.canSend # <<"TearDown">>, Held(n) = Held(e)
  PROVE  QuietMove(n, e, p)
  BY DEF QuietMove, SameQueues, SameReader, Sent

\* main keeps its turn.
MainOnly(rec) ==
  /\ DOMAIN rec \cap {"avail", "wrote", "toCome", "ended"} = {} /\ DOMAIN rec \cap {"wq", "held", "wire"} = {}
  /\ DOMAIN rec \cap {"rbuf", "dec", "got", "rpc", "closed"} = {} /\ "err" \notin DOMAIN rec
\* Nothing but main's place and its signal change, and the turns do not.
LEMMA MainLive ==
  ASSUME Typed, Live, Ended, NEW s \in Side, NEW rec, Set(s, rec), env' = env, kicks' = kicks, early' = early,
         MainOnly(rec), MainTyped(end'[s].mpc, end'[s].quit), end'[s].canSend \in Signals,
         end[s].mpc \in Gone <=> end'[s].mpc \in Gone,
         end[s].canSend # <<"TearDown">> => end'[s].canSend # <<"TearDown">>,
         Held(end'[s]) = Held(end[s])
  PROVE  Typed' /\ Live' /\ Ended'
<1>1. /\ SameProgram(end'[s], end[s]) /\ SameQueues(end'[s], end[s]) /\ SameReader(end'[s], end[s])
      /\ end'[s].err = end[s].err
  BY Leaves DEF MainOnly
<1>2. end'[Peer(s)] = end[Peer(s)] BY SetFields
<1>3. kicks' \in Nat BY TypesOf
<1>4. Typed' BY <1>1, <1>3, TypedGroups
<1>5. Over(end[s]) => Over(end'[s]) BY <1>1 DEF Over, SameReader
<1>6. end[s].canSend # <<"TearDown">> => QuietMove(end'[s], end[s], end[Peer(s)])
  BY <1>1, QuietMain DEF SameProgram
<1>7. Live' BY <1>2, <1>4, <1>5, <1>6, QuietLive
<1>8. Ending' => Ending
  <2>1. Over(end'[s]) => Over(end[s]) BY <1>1 DEF Over, SameReader
  <2> QED BY <1>2, <1>5, <2>1, EndingStep, EndingOf
<1>9. Ended'
  <2>1. end'[s].mpc \in Gone => Quitting(end[s]) BY DEF Quitting
  <2>2. SendsNoData(end[s]) => SendsNoData(end'[s]) BY <1>1 DEF SameQueues, SendsNoData
  <2> QED BY <1>1, <1>2, <1>8, <2>1, <2>2, EndedSame DEF SameProgram
<1> QED BY <1>4, <1>7, <1>9

\* main stores the next state and keeps its turn.
LEMMA StoreNextKeeps ==
  ASSUME Typed, Live, Ended, NEW s \in Side, StoreNext(s)
  PROVE  Typed' /\ Live' /\ Ended'
<1> DEFINE rec == [mpc |-> "burst", st |-> end[s].next]
<1>1. Set(s, rec) /\ env' = env /\ kicks' = kicks /\ early' = early /\ end[s].mpc = "store"
  BY DEF StoreNext, Step
<1>2. end'[s].mpc = "burst" /\ end'[s].quit = end[s].quit /\ end'[s].canSend = end[s].canSend
  BY <1>1, Moves DEF Now
<1>3. MainTyped(end'[s].mpc, end'[s].quit) /\ end'[s].canSend \in Signals /\ end[s].mpc \notin Gone /\ end'[s].mpc \notin Gone
  BY <1>1, <1>2, TypesOf DEF MainTyped, InTurn, Gone
<1>4. Held(end'[s]) = Held(end[s]) BY <1>1, <1>2 DEF Held, InTurn
<1>6. MainOnly(rec) BY DEF MainOnly
<1> HIDE DEF rec
<1> QED BY <1>1, <1>2, <1>3, <1>4, <1>6, MainLive

\* The client gives the signal back to itself.
LEMMA SkipKeeps ==
  ASSUME Typed, Live, Ended, NEW s \in Side, Skip(s)
  PROVE  Typed' /\ Live' /\ Ended'
<1> DEFINE rec == [mpc |-> "select", canSend |-> <<"Real">>]
<1>1. Set(s, rec) /\ env' = env /\ kicks' = kicks /\ early' = early /\ end[s].mpc = "skip" /\ end[s].canSend = <<>>
  BY DEF Skip, Step
<1>2. end'[s].mpc = "select" /\ end'[s].quit = end[s].quit /\ end'[s].canSend = <<"Real">>
  BY <1>1, Moves DEF Now
<1>3. MainTyped(end'[s].mpc, end'[s].quit) /\ end'[s].canSend \in Signals /\ end[s].mpc \notin Gone /\ end'[s].mpc \notin Gone
  BY <1>1, <1>2, TypesOf DEF MainTyped, InTurn, Gone, Signals
<1>4. Held(end'[s]) = Held(end[s]) BY <1>1, <1>2 DEF Held, InTurn
<1>6. MainOnly(rec) BY DEF MainOnly
<1> HIDE DEF rec
<1> QED BY <1>1, <1>2, <1>3, <1>4, <1>6, MainLive

\* A signal becomes main's turn.
LEMMA TakeRealKeeps ==
  ASSUME Typed, Live, Ended, NEW s \in Side, TakeReal(s)
  PROVE  Typed' /\ Live' /\ Ended'
<1> DEFINE rec == [mpc |-> "read", canSend |-> <<>>, fake |-> ~end[s].fake]
<1>1. Set(s, rec) /\ env' = env /\ kicks' = kicks /\ early' = early /\ end[s].mpc = "select"
      /\ end[s].canSend \notin {<<>>, <<"TearDown">>}
  BY DEF TakeReal, Step
<1>2. end'[s].mpc = "read" /\ end'[s].quit = end[s].quit /\ end'[s].canSend = <<>>
  BY <1>1, Moves DEF Now
<1>3. MainTyped(end'[s].mpc, end'[s].quit) /\ end'[s].canSend \in Signals /\ end[s].mpc \notin Gone /\ end'[s].mpc \notin Gone
  BY <1>1, <1>2, TypesOf DEF MainTyped, InTurn, Gone, Signals
<1>4. end[s].canSend \in {<<"Real">>, <<"Dummy">>} BY <1>1, TypesOf DEF Signals
<1>5. Held(end'[s]) = Held(end[s]) BY <1>1, <1>2, <1>4 DEF Held, InTurn
<1>6. MainOnly(rec) BY DEF MainOnly
<1>7. end'[s].canSend # <<"TearDown">> BY <1>2
<1> HIDE DEF rec
<1> QED BY <1>1, <1>3, <1>5, <1>6, <1>7, MainLive

\* A signal becomes a turn that main skips.
LEMMA TakeFakeAndSkipKeeps ==
  ASSUME Typed, Live, Ended, NEW s \in Side, TakeFakeAndSkip(s)
  PROVE  Typed' /\ Live' /\ Ended'
<1> DEFINE rec == [mpc |-> "skip", canSend |-> <<>>, fake |-> ~end[s].fake]
<1>1. Set(s, rec) /\ env' = env /\ kicks' = kicks /\ early' = early /\ end[s].mpc = "select"
      /\ end[s].canSend \notin {<<>>, <<"TearDown">>}
  BY DEF TakeFakeAndSkip, Step
<1>2. end'[s].mpc = "skip" /\ end'[s].quit = end[s].quit /\ end'[s].canSend = <<>>
  BY <1>1, Moves DEF Now
<1>3. MainTyped(end'[s].mpc, end'[s].quit) /\ end'[s].canSend \in Signals /\ end[s].mpc \notin Gone /\ end'[s].mpc \notin Gone
  BY <1>1, <1>2, TypesOf DEF MainTyped, InTurn, Gone, Signals
<1>4. end[s].canSend \in {<<"Real">>, <<"Dummy">>} BY <1>1, TypesOf DEF Signals
<1>5. Held(end'[s]) = Held(end[s]) BY <1>1, <1>2, <1>4 DEF Held, InTurn
<1>6. MainOnly(rec) BY DEF MainOnly
<1>7. end'[s].canSend # <<"TearDown">> BY <1>2
<1> HIDE DEF rec
<1> QED BY <1>1, <1>3, <1>5, <1>6, <1>7, MainLive

\* The ticker stores the state.
LEMMA TickStoreKeeps ==
  ASSUME Typed, Live, Ended, NEW s \in Side, TickStore(s)
  PROVE  Typed' /\ Live' /\ Ended'
<1> DEFINE rec == [tpc |-> "idle", st |-> "Stop", nseg |-> 0]
<1>1. Set(s, rec) /\ env' = env /\ kicks' = kicks /\ early' = early BY DEF TickStore, Step
<1>2. end'[s].mpc = end[s].mpc /\ end'[s].quit = end[s].quit /\ end'[s].canSend = end[s].canSend
  BY <1>1, Moves DEF Now
<1>3. MainTyped(end'[s].mpc, end'[s].quit) /\ end'[s].canSend \in Signals BY <1>2, TypesOf
<1>4. Held(end'[s]) = Held(end[s]) BY <1>2 DEF Held
<1>6. MainOnly(rec) BY DEF MainOnly
<1> HIDE DEF rec
<1> QED BY <1>1, <1>2, <1>3, <1>4, <1>6, MainLive

\* main goes on in its turn.
LEMMA InTurnKeeps ==
  ASSUME Typed, Live, Ended, NEW s \in Side, NEW rec, Step(s, rec), MainOnly(rec),
         end[s].mpc \in InTurn, end'[s].mpc \in InTurn, DOMAIN rec \cap {"quit", "canSend"} = {}
  PROVE  Typed' /\ Live' /\ Ended'
<1>1. Set(s, rec) /\ env' = env /\ kicks' = kicks /\ early' = early BY DEF Step
<1>2. end'[s].quit = end[s].quit /\ end'[s].canSend = end[s].canSend BY <1>1, Moves DEF Now
<1>3. end[s].mpc \notin Gone /\ end'[s].mpc \notin Gone /\ end[s].mpc \notin {"close", "done"}
  BY DEF InTurn, Gone
<1>4. MainTyped(end'[s].mpc, end'[s].quit) /\ end'[s].canSend \in Signals
  BY <1>1, <1>2, <1>3, TypesOf DEF MainTyped
<1>5. Held(end'[s]) = Held(end[s]) BY <1>2 DEF Held
<1> QED BY <1>1, <1>2, <1>3, <1>4, <1>5, MainLive

\* main read data from the program.
LEMMA ReadDataKeeps ==
  ASSUME Typed, Live, Ended, NEW s \in Side, ReadData(s)
  PROVE  Typed' /\ Live' /\ Ended'
<1>0. end[s].mpc \in InTurn BY DEF ReadData, InTurn
<1>1. ASSUME NEW rec, Step(s, rec), MainOnly(rec), DOMAIN rec \cap {"quit", "canSend"} = {},
             "mpc" \in DOMAIN rec, rec.mpc \in {"burst", "store", "signal"}
      PROVE  Typed' /\ Live' /\ Ended'
  <2>1. end'[s].mpc \in InTurn BY <1>1, Moves DEF Now, Step, InTurn
  <2> QED BY <1>0, <1>1, <2>1, InTurnKeeps
<1>2. CASE Step(s, [mpc |-> "burst"]) BY <1>1, <1>2 DEF MainOnly
<1>3. CASE Step(s, [mpc |-> "store", next |-> "Ready"]) BY <1>1, <1>3 DEF MainOnly
<1>4. CASE Step(s, [mpc |-> IF end[s].st = "Start" THEN "store" ELSE "signal", next |-> "Start"])
  <2> DEFINE rec == [mpc |-> IF end[s].st = "Start" THEN "store" ELSE "signal", next |-> "Start"]
  <2>1. /\ MainOnly(rec) /\ DOMAIN rec \cap {"quit", "canSend"} = {} /\ "mpc" \in DOMAIN rec
        /\ rec.mpc \in {"burst", "store", "signal"}
    BY DEF MainOnly
  <2>2. Step(s, rec) BY <1>4
  <2> HIDE DEF rec
  <2> QED BY <1>1, <2>1, <2>2
<1> QED BY <1>2, <1>3, <1>4 DEF ReadData

\* The program closes its connection.
LEMMA ProgramEndsKeeps ==
  ASSUME Typed, Live, Ended, NEW s \in Side, ProgramEnds(s)
  PROVE  Typed' /\ Live' /\ Ended'
<1> DEFINE rec == [ended |-> TRUE]
<1>1. /\ Set(s, rec) /\ env' = env /\ kicks' = kicks /\ early' = early
      /\ s \in env.ends /\ end[s].toCome = <<>> /\ end[s].avail = 0
  BY DEF ProgramEnds, Step
<1>2. /\ SameMain(end'[s], end[s]) /\ SameQueues(end'[s], end[s]) /\ SameReader(end'[s], end[s])
      /\ end'[s].err = end[s].err
  BY <1>1, Leaves
<1>3. end'[s].avail = end[s].avail /\ end'[s].wrote = end[s].wrote /\ end'[s].toCome = end[s].toCome
  BY <1>1, Moves DEF Now
<1>4. ProgramTyped(end'[s].avail, end'[s].wrote, end'[s].toCome, end'[s].ended)
  BY <1>1, <1>3, TypesOf DEF ProgramTyped
<1>5. Typed' BY <1>1, <1>2, <1>4, TypesOf, TypedGroups
<1>6. end'[Peer(s)] = end[Peer(s)] BY <1>1, SetFields
<1>7. Over(end[s]) => Over(end'[s]) BY <1>2 DEF Over, SameMain, SameReader
<1>8. end[s].canSend # <<"TearDown">> => QuietMove(end'[s], end[s], end[Peer(s)])
  BY <1>2, <1>3, QuietMain DEF SameMain, Held
<1>9. Live' BY <1>1, <1>5, <1>6, <1>7, <1>8, QuietLive
<1>10. Ended'
  <2>1. Over(end'[s]) => Over(end[s]) BY <1>2 DEF Over, SameMain, SameReader
  <2>2. Ending' => Ending BY <1>6, <1>7, <2>1, EndingStep, EndingOf
  <2>3. end'[s].mpc \in Gone => Quitting(end[s]) BY <1>2 DEF Quitting, SameMain
  <2>4. SendsNoData(end[s]) => SendsNoData(end'[s]) BY <1>2 DEF SameQueues, SendsNoData
  <2> QED BY <1>1, <1>2, <1>3, <1>6, <2>2, <2>3, <2>4, EndedSame DEF SameMain
<1> QED BY <1>5, <1>9, <1>10

\* send moves packets on.
LEMMA SendLive ==
  ASSUME Typed, Live, Ended, NEW s \in Side, NEW rec, Step(s, rec),
         DOMAIN rec \subseteq {"wq", "held", "wire", "nseg"},
         end'[s].wq \in Seq(Packet), end'[s].held \in Seq(Packet), end'[s].wire \in Seq(Packet),
         Sent(end'[s], end[Peer(s)]) = Sent(end[s], end[Peer(s)]),
         SendsNoData(end[s]) => SendsNoData(end'[s])
  PROVE  Typed' /\ Live' /\ Ended'
<1>1. Set(s, rec) /\ env' = env /\ kicks' = kicks /\ early' = early BY DEF Step
<1>2. /\ SameMain(end'[s], end[s]) /\ SameProgram(end'[s], end[s]) /\ SameReader(end'[s], end[s])
      /\ end'[s].err = end[s].err
  BY <1>1, Leaves
<1>3. Typed' BY <1>1, <1>2, TypesOf, TypedGroups
<1>4. end'[Peer(s)] = end[Peer(s)] BY <1>1, SetFields
<1>5. Over(end[s]) => Over(end'[s]) BY <1>2 DEF Over, SameMain, SameReader
<1>6. end[s].canSend # <<"TearDown">> => QuietMove(end'[s], end[s], end[Peer(s)])
  BY <1>2 DEF QuietMove, SameMain, SameProgram, SameReader, Held, Sent
<1>7. Live' BY <1>1, <1>3, <1>4, <1>5, <1>6, QuietLive
<1>8. Ended'
  <2>1. Over(end'[s]) => Over(end[s]) BY <1>2 DEF Over, SameMain, SameReader
  <2>2. Ending' => Ending BY <1>4, <1>5, <2>1, EndingStep, EndingOf
  <2>3. end'[s].mpc \in Gone => Quitting(end[s]) BY <1>2 DEF Quitting, SameMain
  <2> QED BY <1>1, <1>2, <1>4, <2>2, <2>3, EndedSame DEF SameMain, SameProgram
<1> QED BY <1>3, <1>7, <1>8

\* send takes a packet off writeChan.
LEMMA SendTakeKeeps ==
  ASSUME Typed, Live, Ended, NEW s \in Side, SendTake(s)
  PROVE  Typed' /\ Live' /\ Ended'
<1> DEFINE e == end[s]
           rec == [wq |-> Tail(e.wq), held |-> <<Head(e.wq)>>,
                   nseg |-> IF Head(e.wq) = "Payload" /\ e.nseg < 2 THEN e.nseg + 1 ELSE e.nseg]
<1>1. Step(s, rec) /\ e.wq # <<>> /\ e.held = <<>> BY DEF SendTake
<1>2. Set(s, rec) BY <1>1 DEF Step
<1>3. /\ DOMAIN rec = {"wq", "held", "nseg"} /\ rec["wq"] = Tail(e.wq) /\ rec["held"] = <<Head(e.wq)>>
      /\ DOMAIN rec \subseteq {"wq", "held", "wire", "nseg"}
  OBVIOUS
<1> HIDE DEF rec
<1>4. end'[s].wq = Tail(e.wq) /\ end'[s].held = <<Head(e.wq)>> /\ end'[s].wire = e.wire
  BY <1>2, <1>3, Moves DEF Now
<1>5. e.wq \in Seq(Packet) /\ e.wire \in Seq(Packet) /\ end[Peer(s)].rbuf \in Seq(Packet)
  BY TypesOf, TwoEnds DEF ReaderTyped
<1> HIDE DEF rec, e
<1>6. Tail(e.wq) \in Seq(Packet) /\ <<Head(e.wq)>> \in Seq(Packet) BY <1>1, <1>5
<1>7. Chain(end[Peer(s)].rbuf, e.wire, <<Head(e.wq)>>, Tail(e.wq)) = Chain(end[Peer(s)].rbuf, e.wire, <<>>, e.wq)
  BY <1>1, <1>5, ChainTake
<1>8. Sent(end'[s], end[Peer(s)]) = Sent(end[s], end[Peer(s)]) BY <1>1, <1>4, <1>7 DEF Sent, e
<1>9. SendsNoData(e) => SendsNoData(end'[s])
  <2> SUFFICES ASSUME SendsNoData(e) PROVE SendsNoData(end'[s]) OBVIOUS
  <2>1. Only(e.wq, NoData) /\ Only(e.wire, NoData) BY DEF SendsNoData
  <2>2. Only(Tail(e.wq), NoData) /\ Only(<<Head(e.wq)>>, NoData) BY <1>1, <1>5, <2>1 DEF Only
  <2> QED BY <1>4, <2>1, <2>2 DEF SendsNoData
<1>10. end'[s].wq \in Seq(Packet) /\ end'[s].held \in Seq(Packet) /\ end'[s].wire \in Seq(Packet)
  BY <1>4, <1>5, <1>6
<1> QED BY <1>1, <1>3, <1>8, <1>9, <1>10, SendLive DEF e

\* send writes the packet.
LEMMA SendWriteKeeps ==
  ASSUME Typed, Live, Ended, NEW s \in Side, SendWrite(s)
  PROVE  Typed' /\ Live' /\ Ended'
<1> DEFINE e == end[s]
           rec == [held |-> <<>>, wire |-> e.wire \o e.held]
<1>1. Step(s, rec) BY DEF SendWrite
<1>2. Set(s, rec) BY <1>1 DEF Step
<1>3. /\ DOMAIN rec = {"held", "wire"} /\ rec["held"] = <<>> /\ rec["wire"] = e.wire \o e.held
      /\ DOMAIN rec \subseteq {"wq", "held", "wire", "nseg"}
  OBVIOUS
<1> HIDE DEF rec
<1>4. end'[s].wq = e.wq /\ end'[s].held = <<>> /\ end'[s].wire = e.wire \o e.held
  BY <1>2, <1>3, Moves DEF Now
<1>5. /\ e.wq \in Seq(Packet) /\ e.wire \in Seq(Packet) /\ e.held \in Seq(Packet)
      /\ end[Peer(s)].rbuf \in Seq(Packet)
  BY TypesOf, TwoEnds DEF ReaderTyped
<1> HIDE DEF rec, e
<1>6. e.wire \o e.held \in Seq(Packet) BY <1>5
<1>7. Chain(end[Peer(s)].rbuf, e.wire \o e.held, <<>>, e.wq) = Chain(end[Peer(s)].rbuf, e.wire, e.held, e.wq)
  BY <1>5, ChainWrite
<1>8. Sent(end'[s], end[Peer(s)]) = Sent(end[s], end[Peer(s)]) BY <1>4, <1>7 DEF Sent, e
<1>9. end'[s].wq \in Seq(Packet) /\ end'[s].held \in Seq(Packet) /\ end'[s].wire \in Seq(Packet)
  BY <1>4, <1>5, <1>6
<1>10. SendsNoData(e) => SendsNoData(end'[s])
  <2> SUFFICES ASSUME SendsNoData(e) PROVE SendsNoData(end'[s]) OBVIOUS
  <2>1. Only(e.wire \o e.held, NoData) BY <1>5, OnlyConcat DEF SendsNoData
  <2>2. Only(<<>>, NoData) BY DEF Only
  <2> QED BY <1>4, <2>1, <2>2 DEF SendsNoData
<1> QED BY <1>1, <1>3, <1>8, <1>9, <1>10, SendLive DEF e

\* The reader gives what it decoded to the program, or fails to.
LEMMA ReaderDeliverKeeps ==
  ASSUME Typed, Live, Ended, NEW s \in Side, ReaderDeliver(s)
  PROVE  Typed' /\ Live' /\ Ended'
<1> DEFINE e == end[s]
           n == end'[s]
<1>0. /\ e.rpc # "done" /\ e.rbuf \in Seq(Packet) /\ e.dec \in Nat /\ e.got \in Nat
      /\ e.rpc \in {"run", "fail", "done"} /\ e.dec > 0
  BY TypesOf DEF ReaderDeliver, ReaderTyped
<1>1. ASSUME NEW rec, Step(s, rec), DOMAIN rec \subseteq {"dec", "got", "rpc"},
             n.dec = 0, n.got \in Nat, n.rpc \in {"run", "fail"}, ~e.closed => n.rpc = e.rpc /\ n.got = e.dec + e.got
      PROVE  Typed' /\ Live' /\ Ended'
  <2>1. Set(s, rec) /\ env' = env /\ kicks' = kicks /\ early' = early BY <1>1 DEF Step
  <2>2. /\ SameMain(n, e) /\ SameProgram(n, e) /\ SameQueues(n, e) /\ n.err = e.err
    BY <1>1, <2>1, Leaves
  <2>3. n.rbuf = e.rbuf /\ n.closed = e.closed BY <1>1, <2>1, Moves DEF Now
  <2>4. ReaderTyped(n.rbuf, n.dec, n.got, n.rpc, n.closed) BY <1>0, <1>1, <2>3 DEF ReaderTyped
  <2>5. Typed' BY <2>1, <2>2, <2>4, TypesOf, TypedGroups
  <2>6. end'[Peer(s)] = end[Peer(s)] BY <2>1, SetFields
  <2>7. Over(e) => Over(n) BY <2>2, <2>3 DEF Over, SameMain
  <2>8. ~Over(n) /\ e.canSend # <<"TearDown">> => QuietMove(n, e, end[Peer(s)])
    <3> HIDE DEF n, e
    <3>1. ~Over(n) => ~e.closed BY <2>3 DEF Over
    <3>2. ~e.closed => n.dec + n.got = e.dec + e.got BY <1>0, <1>1
    <3> QED BY <1>1, <2>2, <2>3, <3>1, <3>2 DEF QuietMove, SameMain, SameProgram, SameQueues, Held, Sent
  <2>9. Live' BY <2>1, <2>5, <2>6, <2>7, <2>8, QuietLive
  <2>10. Ended'
    <3>1. Over(n) => Over(e) BY <2>2, <2>3 DEF Over, SameMain
    <3>2. Ending' => Ending BY <2>6, <2>7, <3>1, EndingStep, EndingOf
    <3>3. ASSUME Quitting(e) => e.dec = 0 PROVE n.dec + n.got = e.dec + e.got
      <4> HIDE DEF n, e
      <4>1. ~e.closed BY <1>0, <3>3 DEF Quitting
      <4> QED BY <1>0, <1>1, <4>1
    <3> QED BY <1>1, <2>1, <2>2, <2>3, <2>6, <3>2, <3>3, EndedReader
  <2> QED BY <2>5, <2>9, <2>10
<1>2. CASE e.closed
  <2> DEFINE rec == [dec |-> 0, rpc |-> "fail"]
  <2>1. Step(s, rec) BY <1>2 DEF ReaderDeliver
  <2>2. n.dec = 0 /\ n.got = e.got /\ n.rpc = "fail" BY <2>1, Moves DEF Now, Step
  <2>3. DOMAIN rec \subseteq {"dec", "got", "rpc"} OBVIOUS
  <2> HIDE DEF rec, n, e
  <2> QED BY <1>0, <1>1, <1>2, <2>1, <2>2, <2>3
<1>3. CASE ~e.closed
  <2> DEFINE rec == [dec |-> 0, got |-> e.got + e.dec]
  <2>1. Step(s, rec) BY <1>3 DEF ReaderDeliver
  <2>2. n.dec = 0 /\ n.got = e.got + e.dec /\ n.rpc = e.rpc BY <2>1, Moves DEF Now, Step
  <2>3. DOMAIN rec \subseteq {"dec", "got", "rpc"} OBVIOUS
  <2> HIDE DEF rec, n, e
  <2>4. n.got \in Nat /\ n.got = e.dec + e.got BY <1>0, <2>2
  <2> QED BY <1>0, <1>1, <2>1, <2>2, <2>3, <2>4
<1> QED BY <1>2, <1>3

\* A program's end begins the end of the connection only in its turn, when all its data has
\* arrived.
LEMMA EndBegins ==
  ASSUME NEW e, NEW p, NEW n, PairTyped(e, p), LiveFrom(e, p, 0), e.mpc \in InTurn,
         e.toCome = <<>>, e.avail = 0, ~Over(p), SameProgram(n, e), SameQueues(n, e)
  PROVE  Words(n, p, TRUE)
<1> DEFINE o == Occurrences(Sent(e, p), Finish)
           i == Occurrences(Sent(p, e), Finish)
<1>1. o \in Nat /\ i \in Nat /\ Held(p) \in Nat BY SentType, HeldType
<1>2. Held(e) = 1 \/ Held(e) = 2 BY DEF Held
<1>3. o + Held(e) + i + Held(p) = 1 + 0 BY DEF LiveFrom, Balance
<1> HIDE DEF o, i
<1>4. o = 0 BY <1>1, <1>2, <1>3
<1>5. Sent(e, p) \in Seq(Packet) BY SentType
<1>6. Only(Sent(e, p), Plain) /\ Behind(Sent(e, p))
      /\ e.wrote = e.avail + Occurrences(Sent(e, p), {"Payload"}) + (p.dec + p.got)
  BY DEF LiveFrom, Sound
<1>7. Only(Sent(e, p), NoData) BY <1>4, <1>5, <1>6, NothingBehind DEF o, NoData
<1>8. Only(p.rbuf, NoData) /\ Only(e.wire, NoData) /\ Only(e.held, NoData) /\ Only(e.wq, NoData)
  BY <1>7, SentOnly
<1>9. Occurrences(Sent(e, p), {"Payload"}) = 0
  <2>1. \A j \in 1..Len(Sent(e, p)) : Sent(e, p)[j] \notin {"Payload"} BY <1>7 DEF Only, NoData
  <2> QED BY <1>5, <2>1, OccurrencesNone
<1>10. e.wrote = p.dec + p.got
  <2>1. p.dec + p.got \in Nat BY ArrivedType
  <2> QED BY <1>6, <1>9, <2>1
<1>11. Only(p.rbuf, Plain) BY <1>6, SentOnly
<1>12. ~Quitting(p) BY <1>11 DEF Quitting, Over, LiveFrom
<1> QED BY <1>8, <1>10, <1>12 DEF Words, SameProgram, SameQueues

\* main gives up: it was told to, or its program ended.
LEMMA GivesUp ==
  ASSUME Typed, Live, Ended, NEW s \in Side, NEW rec, Set(s, rec), env' = env, kicks' = kicks, MainOnly(rec),
         MainTyped(end'[s].mpc, end'[s].quit), end'[s].canSend \in Signals, end'[s].mpc \in Gone,
         end'[s].canSend = <<"TearDown">> => end[s].canSend = <<"TearDown">>, early \subseteq early',
         \/ end[s].dec = 0 \/ s \in early' \/ Quitting(end[s]) \/ s \in env.ends,
         \/ Ending
         \/ end[s].mpc \in InTurn /\ s \in env.ends /\ end[s].toCome = <<>> /\ end[s].avail = 0
  PROVE  Typed' /\ Live' /\ Ended'
<1> DEFINE e == end[s]
           n == end'[s]
           p == end[Peer(s)]
<1>1. SameProgram(n, e) /\ SameQueues(n, e) /\ SameReader(n, e) BY Leaves DEF MainOnly
<1>2. Typed' BY <1>1, TypesOf, TypedGroups
<1>3. end'[Peer(s)] = p /\ Over(n) BY SetFields DEF Over
<1>4. Live' BY <1>2, <1>3, OverKeeps
<1>5. Words(e, p, Peer(s) \notin early) => Words(n, p, Peer(s) \notin early)
  BY <1>1, WordsHere DEF SameProgram, SameQueues, Words
<1>6. ASSUME env.ends = {Peer(s)}, Words(p, e, s \notin early) PROVE Words(p, n, s \notin early')
  <2>1. s \notin env.ends BY <1>6, TwoEnds
  <2>2. s \notin early' => s \notin early OBVIOUS
  <2>3. s \notin early' => e.dec = 0 BY <1>6, <2>1, <2>2 DEF Words
  <2> HIDE DEF e, n, p
  <2> QED BY <1>1, <1>6, <2>2, <2>3 DEF Words, SameReader
<1>7. ASSUME ~Ending, kicks = 0, NEW x \in Side, env.ends = {x} PROVE x = s /\ Words(n, p, TRUE)
  <2>1. e.mpc \in InTurn /\ s \in env.ends /\ e.toCome = <<>> /\ e.avail = 0 BY <1>7
  <2>2. LiveFrom(e, p, 0) /\ ~Over(p) BY <1>7, LiveSeen, EndingOf
  <2>3. PairTyped(e, p) BY PairTypes
  <2> HIDE DEF e, n, p
  <2>4. Words(n, p, TRUE) BY <1>1, <2>1, <2>2, <2>3, EndBegins
  <2> QED BY <1>7, <2>1, <2>4
<1>8. kicks' = 0 => kicks = 0 OBVIOUS
<1>9. Ended' BY <1>3, <1>5, <1>6, <1>7, <1>8, EndedStep
<1> QED BY <1>2, <1>4, <1>9

\* main learns of a failed write: somebody closed.
LEMMA MainErrKeeps ==
  ASSUME Typed, Live, Ended, NEW s \in Side, MainErr(s)
  PROVE  Typed' /\ Live' /\ Ended'
<1> DEFINE rec == [mpc |-> "teardown"]
<1>1. /\ Set(s, rec) /\ env' = env /\ kicks' = kicks /\ end[s].mpc = "select" /\ end[s].err
      /\ early' = IF end[s].rpc = "done" THEN early ELSE early \cup {s}
  BY DEF MainErr
<1>2. end'[s].mpc = "teardown" /\ end'[s].quit = end[s].quit /\ end'[s].canSend = end[s].canSend
  BY <1>1, Moves DEF Now
<1>3. MainTyped(end'[s].mpc, end'[s].quit) /\ end'[s].canSend \in Signals /\ end'[s].mpc \in Gone
  BY <1>1, <1>2, TypesOf DEF MainTyped, Gone
<1>4. MainOnly(rec) BY DEF MainOnly
<1>5. early \subseteq early' /\ (end[s].dec = 0 \/ s \in early') BY <1>1, TypesOf DEF ReaderTyped
<1>6. Ending BY <1>1, EndingOf DEF Over
<1> HIDE DEF rec
<1> QED BY <1>1, <1>2, <1>3, <1>4, <1>5, <1>6, GivesUp

\* main learns that the other end tore down.
LEMMA TakeTearDownKeeps ==
  ASSUME Typed, Live, Ended, NEW s \in Side, TakeTearDown(s)
  PROVE  Typed' /\ Live' /\ Ended'
<1> DEFINE rec == [mpc |-> "teardown", canSend |-> <<>>]
<1>1. /\ Set(s, rec) /\ env' = env /\ kicks' = kicks /\ early' = early
      /\ end[s].mpc = "select" /\ end[s].canSend = <<"TearDown">>
  BY DEF TakeTearDown, Step
<1>2. end'[s].mpc = "teardown" /\ end'[s].quit = end[s].quit /\ end'[s].canSend = <<>>
  BY <1>1, Moves DEF Now
<1>3. MainTyped(end'[s].mpc, end'[s].quit) /\ end'[s].canSend \in Signals /\ end'[s].mpc \in Gone
  BY <1>1, <1>2, TypesOf DEF MainTyped, Gone, Signals
<1>4. MainOnly(rec) BY DEF MainOnly
<1>5. Quitting(end[s]) BY <1>1 DEF Quitting
<1>6. Ending BY <1>1, LiveSeen DEF LiveFrom
<1> HIDE DEF rec
<1> QED BY <1>1, <1>3, <1>4, <1>5, <1>6, GivesUp

\* main reads the end of the stream, in its turn: all data has arrived.
LEMMA ReadFailsKeeps ==
  ASSUME Typed, Live, Ended, NEW s \in Side, ReadFails(s)
  PROVE  Typed' /\ Live' /\ Ended'
<1> DEFINE rec == [mpc |-> "teardown"]
<1>1. /\ Set(s, rec) /\ env' = env /\ kicks' = kicks /\ early' = early /\ end[s].mpc = "read"
      /\ end[s].closed \/ (end[s].ended /\ end[s].avail = 0)
  BY DEF ReadFails, Step
<1>2. end'[s].mpc = "teardown" /\ end'[s].quit = end[s].quit /\ end'[s].canSend = end[s].canSend
  BY <1>1, Moves DEF Now
<1>3. MainTyped(end'[s].mpc, end'[s].quit) /\ end'[s].canSend \in Signals /\ end'[s].mpc \in Gone
  BY <1>1, <1>2, TypesOf DEF MainTyped, Gone
<1>4. MainOnly(rec) BY DEF MainOnly
<1>5. end[s].closed => Ending /\ Quitting(end[s]) BY EndingOf DEF Over, Quitting
<1>6. end[s].ended => s \in env.ends /\ end[s].toCome = <<>> BY TypesOf DEF ProgramTyped
<1>7. end[s].mpc \in InTurn BY <1>1 DEF InTurn
<1> HIDE DEF rec
<1> QED BY <1>1, <1>2, <1>3, <1>4, <1>5, <1>6, <1>7, GivesUp

\* tearDown writes its packet.
LEMMA TearDownKeeps ==
  ASSUME Typed, Live, Ended, NEW s \in Side, TearDown(s)
  PROVE  Typed' /\ Live' /\ Ended'
<1> DEFINE e == end[s]
           w == IF e.closed \/ end[Peer(s)].closed THEN e.wire
                ELSE Append(e.wire, IF e.held = <<>> THEN "TearDown" ELSE "Bad")
           rec == [mpc |-> "close", quit |-> TRUE, wire |-> w]
<1>1. Set(s, rec) /\ env' = env /\ kicks' = kicks /\ early' = early /\ e.mpc = "teardown"
  BY DEF TearDown, Step
<1>2. w \in Seq(Packet) BY TypesOf DEF Packet, Last
<1>3. /\ DOMAIN rec = {"mpc", "quit", "wire"} /\ rec["mpc"] = "close" /\ rec["wire"] = w
  OBVIOUS
<1> HIDE DEF rec, w
<1>4. SameProgram(end'[s], e) /\ SameReader(end'[s], e) BY <1>1, <1>3, Leaves
<1>5. /\ end'[s].mpc = "close" /\ end'[s].wire = w /\ end'[s].wq = e.wq /\ end'[s].held = e.held
      /\ end'[s].canSend = e.canSend
  BY <1>1, <1>3, Moves DEF Now
<1>6. MainTyped(end'[s].mpc, end'[s].quit) BY <1>5 DEF MainTyped, Gone
<1>7. Typed' BY <1>1, <1>2, <1>4, <1>5, <1>6, TypesOf, TypedGroups
<1>8. end'[Peer(s)] = end[Peer(s)] /\ Over(end'[s]) BY <1>1, <1>5, SetFields DEF Over, Gone
<1>9. Live' BY <1>7, <1>8, OverKeeps
<1>10. Ended'
  <2>1. Ending /\ Quitting(e) BY <1>1, EndingOf DEF Over, Quitting, Gone
  <2>2. SendsNoData(e) => SendsNoData(end'[s])
    <3>1. Only(e.wire, NoData) => Only(w, NoData) BY TypesOf DEF w, Only, NoData, Packet, Last
    <3> QED BY <1>5, <3>1 DEF SendsNoData
  <2> QED BY <1>1, <1>4, <1>5, <1>8, <2>1, <2>2, EndedSame DEF SameProgram
<1> QED BY <1>7, <1>9, <1>10

\* main closes the end, which was closing.
LEMMA MainCloseKeeps ==
  ASSUME Typed, Live, Ended, NEW s \in Side, MainClose(s)
  PROVE  Typed' /\ Live' /\ Ended'
<1> DEFINE e == end[s]
           rec == [mpc |-> "done", closed |-> TRUE]
<1>1. Set(s, rec) /\ env' = env /\ kicks' = kicks /\ early' = early /\ e.mpc = "close"
  BY DEF MainClose, Step
<1>2. SameProgram(end'[s], e) /\ SameQueues(end'[s], e) BY <1>1, Leaves
<1>3. /\ end'[s].mpc = "done" /\ end'[s].canSend = e.canSend /\ end'[s].closed = TRUE
      /\ end'[s].rbuf = e.rbuf /\ end'[s].dec = e.dec /\ end'[s].got = e.got /\ end'[s].rpc = e.rpc
  BY <1>1, Moves DEF Now
<1>4. MainTyped(end'[s].mpc, end'[s].quit) BY <1>3 DEF MainTyped, Gone
<1>5. ReaderTyped(end'[s].rbuf, end'[s].dec, end'[s].got, end'[s].rpc, end'[s].closed)
  BY <1>3, TypesOf DEF ReaderTyped
<1>6. Typed' BY <1>1, <1>2, <1>3, <1>4, <1>5, TypesOf, TypedGroups
<1>7. end'[Peer(s)] = end[Peer(s)] /\ Over(end'[s]) BY <1>1, <1>3, SetFields DEF Over
<1>8. Live' BY <1>6, <1>7, OverKeeps
<1>9. Ended'
  <2>1. Ending /\ Quitting(e) BY <1>1, EndingOf DEF Over, Quitting, Gone
  <2> QED BY <1>1, <1>2, <1>3, <1>7, <2>1, EndedReader
<1> QED BY <1>6, <1>8, <1>9

\* A write fails: somebody closed.
LEMMA SendFailsKeeps ==
  ASSUME Typed, Live, Ended, NEW s \in Side, SendFails(s)
  PROVE  Typed' /\ Live' /\ Ended'
<1> DEFINE e == end[s]
           rec == [held |-> <<>>, err |-> TRUE, spc |-> "done"]
<1>1. Set(s, rec) /\ env' = env /\ kicks' = kicks /\ early' = early /\ (e.closed \/ end[Peer(s)].closed)
  BY DEF SendFails, Step
<1>2. SameMain(end'[s], e) /\ SameProgram(end'[s], e) /\ SameReader(end'[s], e) BY <1>1, Leaves
<1>3. end'[s].wq = e.wq /\ end'[s].held = <<>> /\ end'[s].wire = e.wire /\ end'[s].err = TRUE
  BY <1>1, Moves DEF Now
<1>4. <<>> \in Seq(Packet) OBVIOUS
<1>5. Typed' BY <1>1, <1>2, <1>3, <1>4, TypesOf, TypedGroups
<1>6. end'[Peer(s)] = end[Peer(s)] /\ Over(end'[s]) BY <1>1, <1>3, SetFields DEF Over
<1>7. Live' BY <1>5, <1>6, OverKeeps
<1>8. Ended'
  <2>1. Ending BY <1>1, EndingOf DEF Over
  <2>2. SendsNoData(e) => SendsNoData(end'[s])
    <3>1. Only(<<>>, NoData) BY DEF Only
    <3> QED BY <1>3, <3>1 DEF SendsNoData
  <2>3. end'[s].mpc \in Gone => Quitting(e) BY <1>2 DEF Quitting, SameMain
  <2> QED BY <1>1, <1>2, <1>6, <2>1, <2>2, <2>3, EndedSame DEF SameProgram, SameMain
<1> QED BY <1>5, <1>7, <1>8

\* send stops with main.
LEMMA SendExitKeeps ==
  ASSUME Typed, Live, Ended, NEW s \in Side, SendExit(s)
  PROVE  Typed' /\ Live' /\ Ended'
<1> DEFINE e == end[s]
           rec == [spc |-> "done", wq |-> <<>>]
<1>1. Set(s, rec) /\ env' = env /\ kicks' = kicks /\ early' = early /\ e.quit BY DEF SendExit, Step
<1>2. SameMain(end'[s], e) /\ SameProgram(end'[s], e) /\ SameReader(end'[s], e) BY <1>1, Leaves
<1>3. end'[s].wq = <<>> /\ end'[s].held = e.held /\ end'[s].wire = e.wire BY <1>1, Moves DEF Now
<1>4. <<>> \in Seq(Packet) OBVIOUS
<1>5. Typed' BY <1>1, <1>2, <1>3, <1>4, TypesOf, TypedGroups
<1>6. e.mpc \in {"close", "done"} BY <1>1, TypesOf DEF MainTyped
<1>7. end'[Peer(s)] = end[Peer(s)] /\ Over(end'[s])
  BY <1>1, <1>2, <1>6, SetFields DEF Over, SameMain, Gone
<1>8. Live' BY <1>5, <1>7, OverKeeps
<1>9. Ended'
  <2>1. Ending /\ Quitting(e) BY <1>6, EndingOf DEF Over, Quitting, Gone
  <2>2. SendsNoData(e) => SendsNoData(end'[s])
    <3>1. Only(<<>>, NoData) BY DEF Only
    <3> QED BY <1>3, <3>1 DEF SendsNoData
  <2> QED BY <1>1, <1>2, <1>7, <2>1, <2>2, EndedSame DEF SameProgram, SameMain
<1> QED BY <1>5, <1>8, <1>9

\* The reader stops: somebody closed.
LEMMA ReaderEndKeeps ==
  ASSUME Typed, Live, Ended, NEW s \in Side, ReaderEnd(s)
  PROVE  Typed' /\ Live' /\ Ended'
<1> DEFINE e == end[s]
           rec == [rpc |-> "done", closed |-> TRUE]
<1>1. Set(s, rec) /\ env' = env /\ kicks' = kicks /\ early' = early /\ e.rbuf = <<>> /\ e.dec = 0
  BY DEF ReaderEnd, Step
<1>2. SameMain(end'[s], e) /\ SameProgram(end'[s], e) /\ SameQueues(end'[s], e) BY <1>1, Leaves
<1>3. /\ end'[s].closed = TRUE /\ end'[s].rpc = "done"
      /\ end'[s].rbuf = e.rbuf /\ end'[s].dec = e.dec /\ end'[s].got = e.got
  BY <1>1, Moves DEF Now
<1>4. ReaderTyped(end'[s].rbuf, end'[s].dec, end'[s].got, end'[s].rpc, end'[s].closed)
  BY <1>1, <1>3, TypesOf DEF ReaderTyped
<1>5. Typed' BY <1>1, <1>2, <1>4, TypesOf, TypedGroups
<1>6. end'[Peer(s)] = end[Peer(s)] /\ Over(end'[s]) BY <1>1, <1>3, SetFields DEF Over
<1>7. Live' BY <1>5, <1>6, OverKeeps
<1>8. Ended'
  <2>1. e.rpc = "fail" \/ e.closed \/ end[Peer(s)].closed BY DEF ReaderEnd
  <2>2. ASSUME ~Ending PROVE FALSE
    <3>1. e.rpc = "run" BY <2>2, LiveSeen DEF LiveFrom
    <3>2. ~e.closed /\ ~end[Peer(s)].closed BY <2>2, EndingOf DEF Over
    <3> QED BY <2>1, <3>1, <3>2
  <2> QED BY <1>1, <1>2, <1>3, <1>6, <2>2, EndedReader
<1> QED BY <1>5, <1>7, <1>8

\* main or the ticker queues packets that carry no data.
LEMMA QueueLive ==
  ASSUME Typed, Live, Ended, NEW s \in Side, NEW rec, Set(s, rec), env' = env, kicks' \in Nat,
         early' = early, kicks' = 0 => kicks = 0,
         DOMAIN rec \subseteq {"mpc", "canSend", "fake", "wq", "tpc"},
         NEW b \in Seq(Packet), Only(b, Plain \ {"Payload"}), end'[s].wq = Join(end[s].wq, b),
         MainTyped(end'[s].mpc, end'[s].quit), end'[s].canSend \in Signals,
         end[s].mpc \in Gone <=> end'[s].mpc \in Gone,
         end[s].canSend # <<"TearDown">> => end'[s].canSend # <<"TearDown">>,
         NEW more \in Nat,
         ~Ending => /\ kicks' = kicks + more
                    /\ Held(end'[s]) + Occurrences(b, Finish) = Held(end[s]) + more
  PROVE  Typed' /\ Live' /\ Ended'
<1> DEFINE e == end[s]
           n == end'[s]
           p == end[Peer(s)]
<1>1. SameProgram(n, e) /\ SameReader(n, e) /\ n.err = e.err BY Leaves
<1>2. n.held = e.held /\ n.wire = e.wire BY Moves DEF Now
<1>3. n.wq \in Seq(Packet) /\ n.held \in Seq(Packet) /\ n.wire \in Seq(Packet)
  <2>1. e.wq \in Seq(Packet) /\ e.held \in Seq(Packet) /\ e.wire \in Seq(Packet) BY TypesOf
  <2>2. Join(e.wq, b) \in Seq(Packet) BY <2>1 DEF Join
  <2> QED BY <1>2, <2>1, <2>2
<1>4. Typed' BY <1>1, <1>3, TypedGroups
<1>5. end'[Peer(s)] = p BY SetFields
<1>6. Over(e) => Over(n) BY <1>1 DEF Over, SameReader
<1>7. ~Ending' => ~Ending BY <1>5, <1>6, EndingStep
<1>8. PairTyped(e, p) /\ kicks \in Nat BY PairTypes, TypesOf
<1> HIDE DEF e, n, p
<1>9. ASSUME ~Ending, LiveFrom(e, p, kicks) PROVE LiveFrom(n, p, kicks')
  <2>1. n.canSend # <<"TearDown">> /\ Held(n) + Occurrences(b, Finish) = Held(e) + more /\ kicks' = kicks + more
    BY <1>9 DEF LiveFrom, n, e
  <2>2. n.wq = Join(e.wq, b) BY DEF n, e
  <2>3. /\ n.rpc = e.rpc /\ n.rbuf = e.rbuf /\ n.wrote = e.wrote /\ n.avail = e.avail
        /\ n.dec = e.dec /\ n.got = e.got
    BY <1>1 DEF SameProgram, SameReader
  <2>4. LiveFrom(n, p, kicks + more) BY <1>2, <1>8, <1>9, <2>1, <2>2, <2>3, QueueKeeps
  <2> QED BY <2>1, <2>4
<1>10. Live' BY <1>4, <1>5, <1>7, <1>9, LiveStep DEF e, n, p
<1>11. Ended'
  <2>1. Over(n) => Over(e) BY <1>1 DEF Over, SameReader, n, e
  <2>2. Ending' => Ending BY <1>5, <1>6, <2>1, EndingStep, EndingOf DEF e, n, p
  <2>3. end'[s].mpc \in Gone => Quitting(end[s]) BY DEF Quitting
  <2>4. SendsNoData(e) => SendsNoData(n)
    <3>1. Only(b, NoData) BY DEF Only, NoData, Packet
    <3>2. Only(e.wq, NoData) => Only(Join(e.wq, b), NoData)
      BY <1>8, <3>1, OnlyConcat DEF Join, PairTyped
    <3>3. n.wq = Join(e.wq, b) BY DEF n, e
    <3> QED BY <1>2, <3>2, <3>3 DEF SendsNoData
  <2> QED BY <1>1, <1>5, <2>2, <2>3, <2>4, EndedSame DEF SameProgram, e, n, p
<1> QED BY <1>4, <1>10, <1>11

\* The same, when it is no keep-alive packet.
LEMMA QueueSame ==
  ASSUME Typed, Live, Ended, NEW s \in Side, NEW rec, Set(s, rec), env' = env, kicks' = kicks, early' = early,
         DOMAIN rec \subseteq {"mpc", "canSend", "fake", "wq", "tpc"},
         NEW b \in Seq(Packet), Only(b, Plain \ {"Payload"}), end'[s].wq = Join(end[s].wq, b),
         MainTyped(end'[s].mpc, end'[s].quit), end'[s].canSend \in Signals,
         end[s].mpc \in Gone <=> end'[s].mpc \in Gone,
         end[s].canSend # <<"TearDown">> => end'[s].canSend # <<"TearDown">>,
         Held(end'[s]) + Occurrences(b, Finish) = Held(end[s])
  PROVE  Typed' /\ Live' /\ Ended'
<1>1. kicks' \in Nat /\ kicks' = kicks + 0 /\ (kicks' = 0 => kicks = 0) BY TypesOf
<1>2. Held(end[s]) = Held(end[s]) + 0 BY HeldType
<1> DEFINE more == 0
<1>3. /\ more \in Nat /\ kicks' = kicks + more
      /\ Held(end'[s]) + Occurrences(b, Finish) = Held(end[s]) + more
  BY <1>1, <1>2
<1> HIDE DEF more
<1> QED BY <1>1, <1>3, QueueLive

\* One packet without data.
LEMMA QueueOne ==
  ASSUME NEW q \in Seq(Packet), NEW p \in Plain \ {"Payload"}
  PROVE  /\ <<p>> \in Seq(Packet) /\ Only(<<p>>, Plain \ {"Payload"}) /\ Append(q, p) = Join(q, <<p>>)
         /\ Occurrences(<<p>>, Finish) = IF p \in Finish THEN 1 ELSE 0
<1>1. p \in Packet BY DEF Packet
<1>2. <<p>> \in Seq(Packet) BY <1>1
<1>3. Only(<<p>>, Plain \ {"Payload"}) BY <1>1, OnlyOne
<1>4. Append(q, p) = q \o <<p>> OBVIOUS
<1>5. Occurrences(<<p>>, Finish) = IF p \in Finish THEN 1 ELSE 0 BY <1>1, OccurrencesOne
<1> QED BY <1>2, <1>3, <1>4, <1>5 DEF Join

\* Dummies and a finish packet.
LEMMA QueueDummies ==
  ASSUME NEW q \in Seq(Packet), NEW d \in Seq(Packet), Only(d, {"Dummy"}), NEW f \in Finish
  PROVE  LET b == d \o <<f>> IN
         /\ b \in Seq(Packet) /\ Only(b, Plain \ {"Payload"}) /\ q \o d \o <<f>> = Join(q, b)
         /\ Occurrences(b, Finish) = 1
<1>1. f \in Packet /\ f \in Plain \ {"Payload"} BY DEF Packet, Plain, Finish
<1> DEFINE l == <<f>>
<1>2. l \in Seq(Packet) /\ Only(l, Plain \ {"Payload"}) /\ Occurrences(l, Finish) = 1
  BY <1>1, OnlyOne, OccurrencesOne
<1> HIDE DEF l
<1>3. (q \o d) \o l = q \o (d \o l) BY <1>2, Joined, Zenon
<1>4. Only(d, Plain \ {"Payload"}) BY DEF Only, Plain
<1>5. d \o l \in Seq(Packet) /\ Only(d \o l, Plain \ {"Payload"}) BY <1>2, <1>4, OnlyConcat
<1>6. \A i \in 1..Len(d) : d[i] \notin Finish BY DEF Only, Finish
<1>7. Occurrences(d, Finish) = 0 BY <1>6, OccurrencesNone
<1>8. Occurrences(d \o l, Finish) = Occurrences(d, Finish) + Occurrences(l, Finish)
  BY <1>2, OccurrencesConcat
<1>9. Occurrences(d \o l, Finish) = 1 BY <1>2, <1>7, <1>8
<1> QED BY <1>3, <1>5, <1>9 DEF Join, l

\* main tells the other end to defend.
LEMMA SignalStartKeeps ==
  ASSUME Typed, Live, Ended, NEW s \in Side, SignalStart(s)
  PROVE  Typed' /\ Live' /\ Ended'
<1> DEFINE e == end[s]
           b == <<"SignalStart">>
           rec == [mpc |-> "store", wq |-> Append(e.wq, "SignalStart")]
<1>1. Set(s, rec) /\ env' = env /\ kicks' = kicks /\ early' = early /\ e.mpc = "signal"
  BY DEF SignalStart, Step
<1>2. e.wq \in Seq(Packet) /\ kicks \in Nat /\ "SignalStart" \in Plain \ {"Payload"} /\ "SignalStart" \notin Finish
  BY TypesOf DEF Plain, Finish
<1>3. /\ b \in Seq(Packet) /\ Only(b, Plain \ {"Payload"}) /\ Append(e.wq, "SignalStart") = Join(e.wq, b)
      /\ Occurrences(b, Finish) = 0
  BY <1>2, QueueOne
<1>4. DOMAIN rec = {"mpc", "wq"} /\ rec["mpc"] = "store" /\ rec["wq"] = Join(e.wq, b) BY <1>3
<1> HIDE DEF rec, b
<1>5. /\ end'[s].mpc = "store" /\ end'[s].quit = e.quit /\ end'[s].canSend = e.canSend
      /\ end'[s].wq = Join(e.wq, b)
  BY <1>1, <1>4, Moves DEF Now
<1>6. MainTyped(end'[s].mpc, end'[s].quit) /\ end'[s].canSend \in Signals /\ e.mpc \notin Gone /\ end'[s].mpc \notin Gone
  BY <1>1, <1>5, TypesOf DEF MainTyped, InTurn, Gone
<1>7. Held(end'[s]) = Held(e) /\ Held(e) \in Nat BY <1>1, <1>5 DEF Held, InTurn
<1>8. Held(end'[s]) + Occurrences(b, Finish) = Held(e) BY <1>1, <1>2, <1>3, <1>7
<1>9. DOMAIN rec \subseteq {"mpc", "canSend", "fake", "wq", "tpc"} BY <1>4
<1> QED BY <1>1, <1>3, <1>5, <1>6, <1>8, <1>9, QueueSame

\* A signal becomes a fake burst.
LEMMA TakeFakeKeeps ==
  ASSUME Typed, Live, Ended, NEW s \in Side, TakeFake(s)
  PROVE  Typed' /\ Live' /\ Ended'
<1> DEFINE e == end[s]
<1>1. PICK d \in Dummies(e) :
        Step(s, [canSend |-> <<>>, fake |-> ~e.fake, wq |-> e.wq \o d \o <<"FakeFinish">>])
  BY DEF TakeFake
<1> DEFINE b == d \o <<"FakeFinish">>
           rec == [canSend |-> <<>>, fake |-> ~e.fake, wq |-> e.wq \o d \o <<"FakeFinish">>]
<1>2. /\ Set(s, rec) /\ env' = env /\ kicks' = kicks /\ early' = early /\ e.mpc = "select"
      /\ e.canSend \notin {<<>>, <<"TearDown">>}
  BY <1>1 DEF TakeFake, Step
<1>3. e.wq \in Seq(Packet) /\ "FakeFinish" \in Finish BY TypesOf DEF Finish
<1>4. d \in Seq(Packet) /\ Only(d, {"Dummy"}) BY DummiesSeq
<1>5. /\ b \in Seq(Packet) /\ Only(b, Plain \ {"Payload"}) /\ Occurrences(b, Finish) = 1
      /\ e.wq \o d \o <<"FakeFinish">> = Join(e.wq, b)
  BY <1>3, <1>4, QueueDummies
<1> HIDE DEF b
<1>6. /\ DOMAIN rec = {"canSend", "fake", "wq"} /\ rec["canSend"] = <<>> /\ rec["wq"] = Join(e.wq, b)
      /\ DOMAIN rec \subseteq {"mpc", "canSend", "fake", "wq", "tpc"}
  BY <1>5
<1> HIDE DEF rec
<1>7. /\ end'[s].mpc = "select" /\ end'[s].quit = e.quit /\ end'[s].canSend = <<>>
      /\ end'[s].wq = Join(e.wq, b)
  BY <1>2, <1>6, Moves DEF Now
<1>8. MainTyped(end'[s].mpc, end'[s].quit) /\ end'[s].canSend \in Signals /\ e.mpc \notin Gone /\ end'[s].mpc \notin Gone
  BY <1>2, <1>7, TypesOf DEF MainTyped, Gone, Signals
<1>9. e.canSend \in {<<"Real">>, <<"Dummy">>} BY <1>2, TypesOf DEF Signals
<1>10. Held(end'[s]) = 0 /\ Held(e) = 1 BY <1>2, <1>7, <1>9 DEF Held, InTurn
<1>11. Held(end'[s]) + Occurrences(b, Finish) = Held(e) BY <1>5, <1>10
<1>12. end'[s].canSend # <<"TearDown">> BY <1>7
<1> QED BY <1>2, <1>5, <1>6, <1>7, <1>8, <1>11, <1>12, QueueSame

\* A turn without data ends with a finish packet.
LEMMA ReadTimeoutKeeps ==
  ASSUME Typed, Live, Ended, NEW s \in Side, ReadTimeout(s)
  PROVE  Typed' /\ Live' /\ Ended'
<1> DEFINE e == end[s]
<1>1. PICK d \in Dummies(e) : Step(s, [mpc |-> "select", wq |-> e.wq \o d \o <<"RealFinish">>])
  BY DEF ReadTimeout
<1> DEFINE b == d \o <<"RealFinish">>
           rec == [mpc |-> "select", wq |-> e.wq \o d \o <<"RealFinish">>]
<1>2. Set(s, rec) /\ env' = env /\ kicks' = kicks /\ early' = early /\ e.mpc = "read"
  BY <1>1 DEF ReadTimeout, Step
<1>3. e.wq \in Seq(Packet) /\ "RealFinish" \in Finish BY TypesOf DEF Finish
<1>4. d \in Seq(Packet) /\ Only(d, {"Dummy"}) BY DummiesSeq
<1>5. /\ b \in Seq(Packet) /\ Only(b, Plain \ {"Payload"}) /\ Occurrences(b, Finish) = 1
      /\ e.wq \o d \o <<"RealFinish">> = Join(e.wq, b)
  BY <1>3, <1>4, QueueDummies
<1> HIDE DEF b
<1>6. /\ DOMAIN rec = {"mpc", "wq"} /\ rec["mpc"] = "select" /\ rec["wq"] = Join(e.wq, b)
      /\ DOMAIN rec \subseteq {"mpc", "canSend", "fake", "wq", "tpc"}
  BY <1>5
<1> HIDE DEF rec
<1>7. /\ end'[s].mpc = "select" /\ end'[s].quit = e.quit /\ end'[s].canSend = e.canSend
      /\ end'[s].wq = Join(e.wq, b)
  BY <1>2, <1>6, Moves DEF Now
<1>8. MainTyped(end'[s].mpc, end'[s].quit) /\ end'[s].canSend \in Signals /\ e.mpc \notin Gone /\ end'[s].mpc \notin Gone
  BY <1>2, <1>7, TypesOf DEF MainTyped, Gone
<1>9. Held(end'[s]) + 1 = Held(e) BY <1>2, <1>7 DEF Held, InTurn
<1>10. Held(end'[s]) + Occurrences(b, Finish) = Held(e) BY <1>5, <1>9
<1> QED BY <1>2, <1>5, <1>6, <1>7, <1>8, <1>10, QueueSame

\* The ticker tells the other end to stop, or does nothing.
LEMMA TickKeeps ==
  ASSUME Typed, Live, Ended, NEW s \in Side, Tick(s)
  PROVE  Typed' /\ Live' /\ Ended'
<1> DEFINE e == end[s]
<1>0. env' = env /\ kicks' = kicks /\ early' = early BY DEF Tick
<1>1. CASE Set(s, [wq |-> Append(e.wq, "SignalStop"), tpc |-> "store"])
  <2> DEFINE b == <<"SignalStop">>
             rec == [wq |-> Append(e.wq, "SignalStop"), tpc |-> "store"]
  <2>1. Set(s, rec) BY <1>1
  <2>2. e.wq \in Seq(Packet) /\ "SignalStop" \in Plain \ {"Payload"} /\ "SignalStop" \notin Finish
    BY TypesOf DEF Plain, Finish
  <2>3. /\ b \in Seq(Packet) /\ Only(b, Plain \ {"Payload"}) /\ Append(e.wq, "SignalStop") = Join(e.wq, b)
        /\ Occurrences(b, Finish) = 0
    BY <2>2, QueueOne
  <2>4. DOMAIN rec = {"wq", "tpc"} /\ rec["wq"] = Join(e.wq, b) BY <2>3
  <2> HIDE DEF rec, b
  <2>5. /\ end'[s].mpc = e.mpc /\ end'[s].quit = e.quit /\ end'[s].canSend = e.canSend
        /\ end'[s].wq = Join(e.wq, b)
    BY <2>1, <2>4, Moves DEF Now
  <2>6. MainTyped(end'[s].mpc, end'[s].quit) /\ end'[s].canSend \in Signals BY <2>5, TypesOf
  <2>7. Held(end'[s]) = Held(e) /\ Held(e) \in Nat BY <2>5 DEF Held
  <2>8. Held(end'[s]) + Occurrences(b, Finish) = Held(e) BY <2>3, <2>7
  <2>9. DOMAIN rec \subseteq {"mpc", "canSend", "fake", "wq", "tpc"} BY <2>4
  <2> QED BY <1>0, <2>1, <2>3, <2>5, <2>6, <2>8, <2>9, QueueSame
<1>2. CASE Set(s, [nseg |-> 0])
  <2> DEFINE rec == [nseg |-> 0]
  <2>1. Set(s, rec) BY <1>2
  <2>2. end'[s].mpc = end[s].mpc /\ end'[s].quit = end[s].quit /\ end'[s].canSend = end[s].canSend
    BY <2>1, Moves DEF Now
  <2>3. MainTyped(end'[s].mpc, end'[s].quit) /\ end'[s].canSend \in Signals BY <2>2, TypesOf
  <2>4. Held(end'[s]) = Held(end[s]) BY <2>2 DEF Held
  <2>5. MainOnly(rec) BY DEF MainOnly
  <2> HIDE DEF rec
  <2> QED BY <1>0, <2>1, <2>2, <2>3, <2>4, <2>5, MainLive
<1> QED BY <1>1, <1>2 DEF Tick

\* A keep-alive packet: one turn more while both ends live.
LEMMA KickKeeps ==
  ASSUME Typed, Live, Ended, NEW s \in Side, Kick(s)
  PROVE  Typed' /\ Live' /\ Ended'
<1> DEFINE e == end[s]
           b == <<"RealFinish">>
           rec == [wq |-> Append(e.wq, "RealFinish")]
<1>0. Set(s, rec) /\ env' = env /\ early' = early /\ e.mpc = "select" BY DEF Kick
<1>1. kicks \in Nat BY TypesOf
<1>2. e.wq \in Seq(Packet) /\ "RealFinish" \in Plain \ {"Payload"} /\ "RealFinish" \in Finish
  BY TypesOf DEF Plain, Finish
<1>3. /\ b \in Seq(Packet) /\ Only(b, Plain \ {"Payload"}) /\ Append(e.wq, "RealFinish") = Join(e.wq, b)
      /\ Occurrences(b, Finish) = 1
  BY <1>2, QueueOne
<1>4. DOMAIN rec = {"wq"} /\ rec["wq"] = Join(e.wq, b) BY <1>3
<1> HIDE DEF rec, b
<1>5. /\ end'[s].mpc = e.mpc /\ end'[s].quit = e.quit /\ end'[s].canSend = e.canSend
      /\ end'[s].wq = Join(e.wq, b)
  BY <1>0, <1>4, Moves DEF Now
<1>6. MainTyped(end'[s].mpc, end'[s].quit) /\ end'[s].canSend \in Signals BY <1>5, TypesOf
<1>7. Held(end'[s]) = Held(e) BY <1>5 DEF Held
<1>8. Held(end'[s]) + Occurrences(b, Finish) = Held(e) + 1 BY <1>3, <1>7
<1>9. DOMAIN rec \subseteq {"mpc", "canSend", "fake", "wq", "tpc"} BY <1>4
<1>10. kicks' \in Nat /\ (kicks' = 0 => kicks = 0) /\ (~Ending => kicks' = kicks + 1)
  <2>1. e.closed \/ end[Peer(s)].closed => Ending BY EndingOf DEF Over
  <2>2. CASE e.closed \/ end[Peer(s)].closed BY <1>1, <2>1, <2>2 DEF Kick
  <2>3. CASE ~(e.closed \/ end[Peer(s)].closed) BY <1>1, <2>3 DEF Kick
  <2> QED BY <2>2, <2>3
<1> DEFINE more == 1
<1>11. /\ more \in Nat
       /\ ~Ending => kicks' = kicks + more /\ Held(end'[s]) + Occurrences(b, Finish) = Held(e) + more
  BY <1>8, <1>10
<1> HIDE DEF more
<1> QED BY <1>0, <1>3, <1>5, <1>6, <1>9, <1>10, <1>11, QueueLive

\* What a write of the program changes.
LEMMA ArriveTyped ==
  ASSUME Typed, NEW s \in Side, Arrive(s)
  PROVE  /\ Typed' /\ end'[Peer(s)] = end[Peer(s)] /\ env' = env /\ kicks' = kicks /\ early' = early
         /\ SameMain(end'[s], end[s]) /\ SameQueues(end'[s], end[s]) /\ SameReader(end'[s], end[s])
         /\ end'[s].err = end[s].err
         /\ end[s].avail = 0 /\ end[s].toCome # <<>> /\ ~end[s].ended
         /\ end'[s].avail \in Nat /\ end'[s].wrote = end[s].wrote + end'[s].avail
<1> DEFINE e == end[s]
           rec == [avail |-> Head(e.toCome), toCome |-> Tail(e.toCome), wrote |-> e.wrote + Head(e.toCome)]
<1>1. Set(s, rec) /\ env' = env /\ kicks' = kicks /\ early' = early /\ e.toCome # <<>> /\ e.avail = 0
  BY DEF Arrive, Step
<1>2. e.toCome \in Seq(Nat \ {0}) /\ e.wrote \in Nat /\ ~e.ended BY <1>1, TypesOf DEF ProgramTyped
<1>3. Head(e.toCome) \in Nat /\ Tail(e.toCome) \in Seq(Nat \ {0}) /\ e.wrote + Head(e.toCome) \in Nat
  <2>1. Head(e.toCome) \in Nat \ {0} /\ Tail(e.toCome) \in Seq(Nat \ {0}) BY <1>1, <1>2
  <2>2. \A x, y \in Nat : x + y \in Nat OBVIOUS
  <2> QED BY <1>2, <2>1, <2>2, Zenon
<1>4. /\ DOMAIN rec = {"avail", "toCome", "wrote"} /\ rec["avail"] = Head(e.toCome)
      /\ rec["toCome"] = Tail(e.toCome) /\ rec["wrote"] = e.wrote + Head(e.toCome)
  OBVIOUS
<1> HIDE DEF rec
<1>5. /\ SameMain(end'[s], e) /\ SameQueues(end'[s], e) /\ SameReader(end'[s], e) /\ end'[s].err = e.err
  <2>1. /\ DOMAIN rec \cap {"mpc", "quit", "canSend"} = {} /\ DOMAIN rec \cap {"wq", "held", "wire"} = {}
        /\ DOMAIN rec \cap {"rbuf", "dec", "got", "rpc", "closed"} = {} /\ "err" \notin DOMAIN rec
    BY <1>4
  <2> QED BY <1>1, <2>1, Leaves
<1>6. /\ end'[s].avail = Head(e.toCome) /\ end'[s].toCome = Tail(e.toCome)
      /\ end'[s].wrote = e.wrote + Head(e.toCome) /\ end'[s].ended = e.ended
  BY <1>1, <1>4, Moves DEF Now
<1>7. ProgramTyped(end'[s].avail, end'[s].wrote, end'[s].toCome, end'[s].ended)
  BY <1>2, <1>3, <1>6 DEF ProgramTyped
<1>8. Typed' BY <1>1, <1>2, <1>5, <1>6, <1>7, TypesOf, TypedGroups
<1> QED BY <1>1, <1>2, <1>3, <1>5, <1>6, <1>8, SetFields

\* The program writes: no longer if its connection ends.
LEMMA ArriveKeepsAll ==
  ASSUME Typed, Live, Ended, NEW s \in Side, Arrive(s)
  PROVE  Typed' /\ Live' /\ Ended'
<1> DEFINE e == end[s]
           n == end'[s]
           p == end[Peer(s)]
<1>1. /\ Typed' /\ end'[Peer(s)] = p /\ env' = env /\ kicks' = kicks /\ early' = early
      /\ SameMain(n, e) /\ SameQueues(n, e) /\ SameReader(n, e) /\ n.err = e.err
      /\ e.toCome # <<>> /\ e.avail = 0 /\ n.avail \in Nat /\ n.wrote = e.wrote + n.avail
  BY ArriveTyped
<1>2. Over(e) => Over(n) BY <1>1 DEF Over, SameMain, SameReader
<1>3. ~Ending' => ~Ending BY <1>1, <1>2, EndingStep
<1>4. PairTyped(e, p) /\ kicks \in Nat BY PairTypes, TypesOf
<1> HIDE DEF e, n, p
<1>5. LiveFrom(e, p, kicks) => LiveFrom(n, p, kicks)
  BY <1>1, <1>4, ArriveKeeps DEF SameMain, SameQueues, SameReader
<1>6. Live' BY <1>1, <1>3, <1>5, LiveStep DEF e, n, p
<1>7. Ended'
  <2>1. Over(n) => Over(e) BY <1>1 DEF Over, SameMain, SameReader
  <2>2. Ending' => Ending BY <1>1, <1>2, <2>1, EndingStep, EndingOf DEF e, n, p
  <2>3. ASSUME NEW kept PROVE ~Words(e, p, kept) BY <1>1 DEF Words
  <2>4. ASSUME NEW kept, Words(p, e, kept) PROVE Words(p, n, kept)
    <3>1. n.mpc \in Gone => Quitting(e) BY <1>1 DEF Quitting, SameMain
    <3> QED BY <1>1, <2>4, <3>1, WordsThere DEF SameMain
  <2> QED BY <1>1, <2>2, <2>3, <2>4, EndedStep DEF e, n, p
<1> QED BY <1>1, <1>6, <1>7

\* A turn with data ends with a burst.
LEMMA RealBurstKeeps ==
  ASSUME Typed, Live, Ended, NEW s \in Side, RealBurst(s)
  PROVE  Typed' /\ Live' /\ Ended'
<1> DEFINE e == end[s]
           n == end'[s]
           p == end[Peer(s)]
           f == <<"RealFinish">>
<1>1. PICK d \in Dummies(e) :
        Step(s, [mpc |-> "select", avail |-> 0, wq |-> e.wq \o Cells(e.avail) \o d \o f])
  BY DEF RealBurst
<1> DEFINE c == Cells(e.avail)
           b == c \o d \o f
           rec == [mpc |-> "select", avail |-> 0, wq |-> e.wq \o c \o d \o f]
<1>2. Set(s, rec) /\ env' = env /\ kicks' = kicks /\ early' = early /\ e.mpc = "burst"
  BY <1>1 DEF RealBurst, Step
<1>3. e.wq \in Seq(Packet) /\ e.avail \in Nat BY TypesOf DEF ProgramTyped
<1>4. d \in Seq(Packet) /\ Only(d, {"Dummy"}) BY DummiesSeq
<1>5. /\ b \in Seq(Packet) /\ Only(b, Plain) /\ Behind(b)
      /\ Occurrences(b, {"Payload"}) = e.avail /\ Occurrences(b, Finish) = 1
  BY <1>3, <1>4, BurstParts
<1>6. c \in Seq(Packet) /\ f \in Seq(Packet) BY <1>3, CellsSeq DEF Packet, Plain
<1>7. ((e.wq \o c) \o d) \o f = Join(e.wq, b)
  <2> HIDE DEF c, f, e
  <2>1. (e.wq \o c) \o d = e.wq \o (c \o d) BY <1>3, <1>4, <1>6, Joined, Zenon
  <2>2. PICK x \in Seq(Packet) : x = c \o d
    <3>1. c \o d \in Seq(Packet) BY <1>4, <1>6, OnlyConcat
    <3> QED BY <3>1, Zenon
  <2>3. (e.wq \o x) \o f = e.wq \o (x \o f) BY <1>3, <1>6, Joined, Zenon
  <2> QED BY <2>1, <2>2, <2>3 DEF Join
<1>8. /\ DOMAIN rec = {"mpc", "avail", "wq"} /\ rec["mpc"] = "select" /\ rec["avail"] = 0
      /\ rec["wq"] = Join(e.wq, b)
  BY <1>7
<1> HIDE DEF rec, b
<1>9. /\ n.mpc = "select" /\ n.quit = e.quit /\ n.canSend = e.canSend
      /\ n.avail = 0 /\ n.wrote = e.wrote /\ n.toCome = e.toCome /\ n.ended = e.ended
      /\ n.wq = Join(e.wq, b) /\ n.held = e.held /\ n.wire = e.wire
  BY <1>2, <1>8, Moves DEF Now
<1>10. SameReader(n, e) /\ n.err = e.err /\ end'[Peer(s)] = p BY <1>2, <1>8, Leaves, SetFields
<1>11. Typed'
  <2>1. MainTyped(n.mpc, n.quit) /\ n.canSend \in Signals BY <1>2, <1>9, TypesOf DEF MainTyped
  <2>2. ProgramTyped(n.avail, n.wrote, n.toCome, n.ended) /\ (n.ended => s \in env.ends)
    BY <1>9, TypesOf DEF ProgramTyped
  <2>3. Join(e.wq, b) \in Seq(Packet) BY <1>3, <1>5 DEF Join
  <2>4. n.wq \in Seq(Packet) /\ n.held \in Seq(Packet) /\ n.wire \in Seq(Packet)
    BY <1>9, <2>3, TypesOf
  <2> QED BY <1>2, <1>10, <2>1, <2>2, <2>4, TypesOf, TypedGroups
<1>12. Over(e) => Over(n) BY <1>2, <1>10 DEF Over, SameReader, Gone
<1>13. ~Ending' => ~Ending BY <1>10, <1>12, EndingStep
<1>14. PairTyped(e, p) /\ kicks \in Nat /\ e.mpc \in InTurn BY <1>2, PairTypes, TypesOf DEF InTurn
<1> HIDE DEF e, n, p
<1>15. LiveFrom(e, p, kicks) => LiveFrom(n, p, kicks)
  BY <1>5, <1>9, <1>10, <1>14, BurstKeeps DEF SameReader
<1>16. Live' BY <1>2, <1>10, <1>11, <1>13, <1>15, LiveStep DEF e, n, p
<1>17. Ended'
  <2>1. Over(n) => Over(e) BY <1>9, <1>10 DEF Over, SameReader, Gone
  <2>2. Ending' => Ending BY <1>10, <1>12, <2>1, EndingStep, EndingOf DEF e, n, p
  <2>3. ASSUME NEW kept, Words(e, p, kept) PROVE Words(n, p, kept)
    <3>1. e.avail = 0 /\ SendsNoData(e) BY <2>3 DEF Words, SendsNoData
    <3>2. \A i \in 1..Len(b) : b[i] \notin {"Payload"} BY <1>5, <3>1, OccurrencesNone
    <3>3. Only(b, NoData) BY <1>5, <3>2 DEF Only, NoData
    <3>4. Only(Join(e.wq, b), NoData) BY <1>3, <1>5, <3>1, <3>3, OnlyConcat DEF Join, SendsNoData
    <3>5. Only(n.wire, NoData) /\ Only(n.held, NoData) /\ Only(n.wq, NoData)
      BY <1>9, <3>1, <3>4 DEF SendsNoData
    <3> QED BY <1>9, <2>3, <3>1, <3>5, WordsHere
  <2>4. ASSUME NEW kept, Words(p, e, kept) PROVE Words(p, n, kept)
    <3>1. n.mpc \notin Gone BY <1>9 DEF Gone
    <3> QED BY <1>9, <1>10, <2>4, <3>1, WordsThere
  <2> QED BY <1>2, <1>10, <2>2, <2>3, <2>4, EndedStep DEF e, n, p
<1> QED BY <1>11, <1>16, <1>17

\* While nobody ends, the reader finds no tearDown and can decode everything.
LEMMA PopPlain ==
  ASSUME NEW e, NEW p, NEW k, PairTyped(e, p), LiveFrom(e, p, k)
  PROVE  Only(e.rbuf, Plain)
<1>1. Only(Sent(p, e), Plain) BY DEF LiveFrom, Sound
<1>2. PairTyped(p, e) BY DEF PairTyped
<1> QED BY <1>1, <1>2, SentOnly

\* The reader takes the packet h.
LEMMA PopLive ==
  ASSUME Typed, Live, Ended, NEW s \in Side, NEW rec, Step(s, rec),
         DOMAIN rec \subseteq {"rbuf", "canSend", "dec", "st", "rpc"}, end[s].rpc = "run",
         NEW h \in Packet, NEW rest \in Seq(Packet), end[s].rbuf = Join(<<h>>, rest),
         end'[s].canSend \in Signals, end'[s].dec \in Nat, end'[s].rbuf \in Seq(Packet),
         end'[s].rpc \in {"run", "fail"}, end'[s].rbuf \in {rest, <<>>},
         h # "Payload" => end'[s].dec = end[s].dec,
         end'[s].canSend = <<"TearDown">> => end[s].canSend = <<"TearDown">> \/ h \notin Plain,
         h \in Plain =>
           /\ end'[s].rbuf = rest /\ end'[s].rpc = "run"
           /\ end[s].canSend # <<"TearDown">> => end'[s].canSend # <<"TearDown">>
           /\ end'[s].dec = end[s].dec + (IF h = "Payload" THEN 1 ELSE 0)
           /\ Held(end'[s]) = Held(end[s]) + (IF h \in Finish THEN 1 ELSE 0)
  PROVE  Typed' /\ Live' /\ Ended'
<1> DEFINE e == end[s]
           n == end'[s]
           p == end[Peer(s)]
           c == IF h = "Payload" THEN 1 ELSE 0
<1>1. Set(s, rec) /\ env' = env /\ kicks' = kicks /\ early' = early BY DEF Step
<1>2. SameProgram(n, e) /\ SameQueues(n, e) /\ n.err = e.err /\ end'[Peer(s)] = p
  <2>1. /\ DOMAIN rec \cap {"avail", "wrote", "toCome", "ended"} = {} /\ "err" \notin DOMAIN rec
        /\ DOMAIN rec \cap {"wq", "held", "wire"} = {}
    OBVIOUS
  <2>2. SameProgram(n, e) /\ SameQueues(n, e) /\ n.err = e.err BY <1>1, <2>1, Leaves
  <2> QED BY <1>1, <2>2, SetFields
<1>3. n.mpc = e.mpc /\ n.quit = e.quit /\ n.got = e.got /\ n.closed = e.closed BY <1>1, Moves DEF Now
<1>4. Typed'
  <2>1. MainTyped(n.mpc, n.quit) BY <1>3, TypesOf
  <2>2. ReaderTyped(n.rbuf, n.dec, n.got, n.rpc, n.closed) BY <1>3, TypesOf DEF ReaderTyped
  <2> QED BY <1>1, <1>2, <2>1, <2>2, TypesOf, TypedGroups
<1>5. Over(e) => Over(n) BY <1>2, <1>3 DEF Over
<1>6. ~Ending' => ~Ending BY <1>2, <1>5, EndingStep
<1>7. PairTyped(e, p) /\ kicks \in Nat BY PairTypes, TypesOf
<1>8. e.dec \in Nat /\ e.got \in Nat BY TypesOf DEF ReaderTyped
<1>9. e.rbuf = Join(<<h>>, rest) OBVIOUS
<1> HIDE DEF e, n, p
<1>10. ASSUME LiveFrom(e, p, kicks) PROVE LiveFrom(n, p, kicks)
  <2>1. Only(e.rbuf, Plain) BY <1>7, <1>10, PopPlain
  <2>2. h \in Plain
    <3>1. 1 \in 1..Len(<<h>> \o rest) /\ (<<h>> \o rest)[1] = h OBVIOUS
    <3> QED BY <1>9, <2>1, <3>1 DEF Only, Join
  <2>3. /\ n.rbuf = rest /\ n.rpc = e.rpc /\ n.canSend # <<"TearDown">> /\ n.dec = e.dec + c
        /\ Held(n) = Held(e) + (IF h \in Finish THEN 1 ELSE 0)
    BY <1>10, <2>2 DEF LiveFrom, e, n
  <2>4. n.dec + n.got = e.dec + e.got + c
    <3>1. c \in Nat OBVIOUS
    <3> HIDE DEF c
    <3> QED BY <1>3, <1>8, <2>3, <3>1 DEF e, n
  <2>5. e.rbuf = Join(<<h>>, n.rbuf) /\ n.rbuf \in Seq(Packet) BY <1>9, <2>3
  <2> QED BY <1>2, <1>7, <1>10, <2>3, <2>4, <2>5, PopKeeps DEF SameProgram, SameQueues
<1>11. Live' BY <1>1, <1>2, <1>4, <1>6, <1>10, LiveStep DEF e, n, p
<1>12. Ended'
  <2>1. Over(n) => Over(e) BY <1>2, <1>3 DEF Over, e, n
  <2>2. Ending' => Ending BY <1>2, <1>5, <2>1, EndingStep, EndingOf DEF e, n, p
  <2>3. ASSUME NEW S, Only(e.rbuf, S) PROVE h \in S /\ Only(n.rbuf, S)
    <3>1. <<h>> \in Seq(Packet) /\ (Only(<<h>>, S) <=> h \in S) BY OnlyOne
    <3>2. PICK f \in Seq(Packet) : f = <<h>> BY <3>1
    <3>3. Only(f \o rest, S) BY <1>9, <2>3, <3>2 DEF Join
    <3>4. Only(f, S) /\ Only(rest, S) BY <3>3, OnlyConcat
    <3>5. Only(<<>>, S) BY DEF Only
    <3> QED BY <3>1, <3>2, <3>4, <3>5 DEF n
  <2>4. ASSUME Only(e.rbuf, NoData), Quitting(e) => e.dec = 0
        PROVE  n.dec + n.got = e.dec + e.got /\ (Quitting(n) => n.dec = 0)
    <3>1. h # "Payload" BY <2>3, <2>4 DEF NoData
    <3>2. n.dec = e.dec BY <3>1 DEF n, e
    <3>3. Quitting(n) => Quitting(e)
      <4>1. Only(e.rbuf, Plain) => h \in Plain /\ Only(n.rbuf, Plain) BY <2>3
      <4>2. n.canSend = <<"TearDown">> => e.canSend = <<"TearDown">> \/ h \notin Plain BY DEF n, e
      <4>3. n.mpc = e.mpc /\ n.closed = e.closed BY <1>3
      <4> QED BY <4>1, <4>2, <4>3 DEF Quitting
    <3> QED BY <1>3, <2>4, <3>2, <3>3
  <2>5. Only(e.rbuf, NoData) => Only(n.rbuf, NoData) BY <2>3
  <2> QED BY <1>1, <1>2, <2>2, <2>4, <2>5, EndedReader DEF e, n, p
<1> QED BY <1>4, <1>11, <1>12

\* The reader takes a packet.
LEMMA ReaderPacketKeeps ==
  ASSUME Typed, Live, Ended, NEW s \in Side, ReaderPacket(s)
  PROVE  Typed' /\ Live' /\ Ended'
<1> DEFINE e == end[s]
           n == end'[s]
           h == Head(e.rbuf)
           rest == Tail(e.rbuf)
<1>1. e.rbuf \in Seq(Packet) /\ e.dec \in Nat /\ e.canSend \in Signals BY TypesOf DEF ReaderTyped
<1>2. e.rpc = "run" /\ e.rbuf # <<>> BY DEF ReaderPacket
<1>3. h \in Packet /\ rest \in Seq(Packet) /\ e.rbuf = Join(<<h>>, rest) BY <1>1, <1>2 DEF Join
<1>4. CASE SignalOf(h) # <<>> /\ e.canSend = <<>> /\ Step(s, [rbuf |-> rest, canSend |-> SignalOf(h)])
  <2> DEFINE rec == [rbuf |-> rest, canSend |-> SignalOf(h)]
  <2>1. Step(s, rec) BY <1>4
  <2>2. /\ DOMAIN rec = {"rbuf", "canSend"} /\ rec["rbuf"] = rest /\ rec["canSend"] = SignalOf(h)
        /\ DOMAIN rec \subseteq {"rbuf", "canSend", "dec", "st", "rpc"}
    OBVIOUS
  <2> HIDE DEF rec, h, rest
  <2>3. n.rbuf = rest /\ n.canSend = SignalOf(h) /\ n.dec = e.dec /\ n.rpc = e.rpc /\ n.mpc = e.mpc
    BY <2>1, <2>2, Moves DEF Now, Step
  <2>4. SignalOf(h) \in Signals /\ (h \in Plain => h \in Finish /\ SignalOf(h) \in {<<"Real">>, <<"Dummy">>})
    BY <1>4 DEF SignalOf, Signals, Plain, Finish
  <2>5. h \in Plain => n.canSend \in {<<"Real">>, <<"Dummy">>} /\ h \in Finish /\ h # "Payload"
    BY <2>3, <2>4 DEF Finish
  <2>6. h \in Plain => Held(n) = Held(e) + 1
    BY <1>4, <2>3, <2>5 DEF Held
  <2>7. h \in Plain => n.canSend # <<"TearDown">> BY <2>5
  <2>8. h \in Plain => /\ n.dec = e.dec + (IF h = "Payload" THEN 1 ELSE 0)
                       /\ Held(n) = Held(e) + (IF h \in Finish THEN 1 ELSE 0)
    BY <1>1, <2>3, <2>5, <2>6
  <2>9. n.canSend \in Signals /\ n.dec \in Nat /\ n.rbuf \in Seq(Packet) /\ n.rpc = "run"
    BY <1>1, <1>2, <1>3, <2>3, <2>4
  <2>10. n.rbuf \in {rest, <<>>} BY <2>3
  <2> QED BY <1>2, <1>3, <2>1, <2>2, <2>3, <2>7, <2>8, <2>9, <2>10, PopLive
<1>5. ASSUME NEW rec, Step(s, rec), DOMAIN rec \subseteq {"rbuf", "dec", "st"}, n.rbuf = rest,
             n.dec = e.dec + (IF h = "Payload" THEN 1 ELSE 0), h \notin Finish
      PROVE  Typed' /\ Live' /\ Ended'
  <2>1. DOMAIN rec \subseteq {"rbuf", "canSend", "dec", "st", "rpc"} BY <1>5
  <2>2. n.canSend = e.canSend /\ n.rpc = e.rpc /\ n.mpc = e.mpc BY <1>5, Moves DEF Now, Step
  <2>3. Held(n) = Held(e) /\ Held(e) \in Nat BY <2>2 DEF Held
  <2>4. n.dec \in Nat BY <1>1, <1>5
  <2> HIDE DEF h, rest
  <2>5. Held(n) = Held(e) + (IF h \in Finish THEN 1 ELSE 0) BY <1>5, <2>3
  <2>6. n.rbuf \in {rest, <<>>} /\ (h # "Payload" => n.dec = e.dec) BY <1>1, <1>5
  <2> QED BY <1>1, <1>2, <1>3, <1>5, <2>1, <2>2, <2>4, <2>5, <2>6, PopLive
<1>6. CASE h = "Payload" /\ Step(s, [rbuf |-> rest, dec |-> e.dec + 1])
  <2> DEFINE rec == [rbuf |-> rest, dec |-> e.dec + 1]
  <2>1. DOMAIN rec = {"rbuf", "dec"} /\ rec["rbuf"] = rest /\ rec["dec"] = e.dec + 1 /\ Step(s, rec)
    BY <1>6
  <2> HIDE DEF rec, h, rest
  <2>2. n.rbuf = rest /\ n.dec = e.dec + 1 BY <2>1, Moves DEF Now, Step
  <2>3. h \notin Finish BY <1>6 DEF Finish
  <2> QED BY <1>5, <1>6, <2>1, <2>2, <2>3
<1>7. ASSUME NEW rec, Step(s, rec), DOMAIN rec \subseteq {"rbuf", "st"}, "rbuf" \in DOMAIN rec,
             rec["rbuf"] = rest, h \in {"Dummy", "SignalStart", "SignalStop"}
      PROVE  Typed' /\ Live' /\ Ended'
  <2> HIDE DEF h, rest
  <2>1. n.rbuf = rest /\ n.dec = e.dec BY <1>7, Moves DEF Now, Step
  <2>2. h \notin Finish /\ n.dec = e.dec + (IF h = "Payload" THEN 1 ELSE 0)
    BY <1>1, <1>7, <2>1 DEF Finish
  <2> QED BY <1>5, <1>7, <2>1, <2>2
<1>8. CASE h = "Dummy" /\ Step(s, [rbuf |-> rest]) BY <1>7, <1>8
<1>9. CASE h = "SignalStart" /\ Step(s, [rbuf |-> rest, st |-> "Start"]) BY <1>7, <1>9
<1>10. CASE h = "SignalStop" /\ Step(s, [rbuf |-> rest, st |-> "Stop"]) BY <1>7, <1>10
<1>11. CASE h = "Bad" /\ Step(s, [rbuf |-> <<>>, rpc |-> "fail"])
  <2> DEFINE rec == [rbuf |-> <<>>, rpc |-> "fail"]
  <2>1. /\ DOMAIN rec \subseteq {"rbuf", "canSend", "dec", "st", "rpc"} /\ Step(s, rec) BY <1>11
  <2>2. n.rbuf = <<>> /\ n.rpc = "fail" /\ n.dec = e.dec /\ n.canSend = e.canSend
    BY <2>1, Moves DEF Now, Step
  <2>3. h \notin Plain /\ <<>> \in Seq(Packet) BY <1>11 DEF Plain
  <2> HIDE DEF rec, h, rest
  <2>4. n.rbuf \in Seq(Packet) /\ n.rbuf \in {rest, <<>>} BY <2>2, <2>3
  <2> QED BY <1>1, <1>2, <1>3, <2>1, <2>2, <2>3, <2>4, PopLive
<1> QED BY <1>4, <1>6, <1>8, <1>9, <1>10, <1>11 DEF ReaderPacket

\* The reader reads what is on the wire: the step changes one field of each end.
LEMMA ReadMoves ==
  ASSUME Typed, NEW s \in Side, ReaderRead(s)
  PROVE  /\ DOMAIN end' = Side /\ DOMAIN end'[s] = Fields /\ DOMAIN end'[Peer(s)] = Fields
         /\ env' = env /\ kicks' = kicks /\ early' = early
         /\ end[s].rbuf = <<>> /\ end[s].dec = 0 /\ end[s].rpc = "run" /\ ~end[s].closed
         /\ end'[s].rbuf = end[Peer(s)].wire /\ end'[Peer(s)].wire = <<>>
         /\ \A f \in Fields \ {"rbuf"} : end'[s][f] = end[s][f]
         /\ \A f \in Fields \ {"wire"} : end'[Peer(s)][f] = end[Peer(s)][f]
<1>1. /\ end' = [end EXCEPT ![s].rbuf = end[Peer(s)].wire, ![Peer(s)].wire = <<>>]
      /\ env' = env /\ kicks' = kicks /\ early' = early
      /\ end[s].rbuf = <<>> /\ end[s].dec = 0 /\ end[s].rpc = "run" /\ ~end[s].closed
  BY DEF ReaderRead
<1>2. DOMAIN end = Side /\ DOMAIN end[s] = Fields /\ DOMAIN end[Peer(s)] = Fields
  BY TwoEnds DEF Typed, EndTyped
<1>3. "rbuf" \in Fields /\ "wire" \in Fields BY DEF Fields
<1>4. s \in Side /\ Peer(s) \in Side /\ Peer(s) # s BY TwoEnds
<1>5. end'[s] = [end[s] EXCEPT !.rbuf = end[Peer(s)].wire] /\ DOMAIN end' = Side BY <1>1, <1>2, <1>4
<1>6. end'[Peer(s)] = [end[Peer(s)] EXCEPT !.wire = <<>>] BY <1>1, <1>2, <1>4
<1> QED BY <1>1, <1>2, <1>3, <1>5, <1>6

\* The types after a read.
LEMMA ReaderReadTyped ==
  ASSUME Typed, NEW s \in Side, ReaderRead(s)
  PROVE  Typed'
<1> DEFINE e == end[s]
           p == end[Peer(s)]
           n == end'[s]
           m == end'[Peer(s)]
<1>1. /\ DOMAIN end' = Side /\ DOMAIN n = Fields /\ DOMAIN m = Fields /\ env' = env /\ kicks' = kicks
      /\ e.rpc = "run" /\ n.rbuf = p.wire /\ m.wire = <<>>
      /\ \A f \in Fields \ {"rbuf"} : n[f] = e[f]
      /\ \A f \in Fields \ {"wire"} : m[f] = p[f]
  BY ReadMoves
<1>2. /\ SameMain(n, e) /\ SameProgram(n, e) /\ SameQueues(n, e)
      /\ n.dec = e.dec /\ n.got = e.got /\ n.rpc = e.rpc /\ n.closed = e.closed
  BY <1>1 DEF SameMain, SameProgram, SameQueues, Fields
<1>3. SameMain(m, p) /\ SameProgram(m, p) /\ SameReader(m, p) /\ m.wq = p.wq /\ m.held = p.held
  BY <1>1 DEF SameMain, SameProgram, SameReader, Fields
<1>4. EndTyped(e) /\ EndTyped(p) /\ (e.ended => s \in env.ends) /\ (p.ended => Peer(s) \in env.ends)
  BY TwoEnds DEF Typed
<1> HIDE DEF e, p, n, m
<1>5. EndTyped(n)
  <2>1. ReaderTyped(n.rbuf, n.dec, n.got, n.rpc, n.closed)
    BY <1>1, <1>2, <1>4 DEF EndTyped, ReaderTyped
  <2> QED BY <1>1, <1>2, <1>4, <2>1 DEF EndTyped, SameMain, SameProgram, SameQueues
<1>6. EndTyped(m)
  <2>1. <<>> \in Seq(Packet) OBVIOUS
  <2> QED BY <1>1, <1>3, <1>4, <2>1 DEF EndTyped, SameMain, SameProgram, SameReader
<1>7. ASSUME NEW x \in Side PROVE EndTyped(end'[x]) /\ (end'[x].ended => x \in env.ends)
  <2>1. CASE x = s BY <1>2, <1>4, <1>5, <2>1 DEF n, SameProgram
  <2>2. CASE x = Peer(s) BY <1>3, <1>4, <1>6, <2>2 DEF m, SameProgram
  <2> QED BY <2>1, <2>2, TwoEnds
<1>8. kicks' \in Nat BY <1>1, TypesOf
<1> QED BY <1>1, <1>7, <1>8 DEF Typed, EndTyped

\* What was on the wire is in receiveBuffer: nothing in flight changes.
LEMMA ReaderReadKeeps ==
  ASSUME Typed, Live, Ended, NEW s \in Side, ReaderRead(s)
  PROVE  Typed' /\ Live' /\ Ended'
<1> DEFINE e == end[s]
           p == end[Peer(s)]
           n == end'[s]
           m == end'[Peer(s)]
<1>1. Typed' BY ReaderReadTyped
<1>2. /\ kicks' = kicks /\ env' = env /\ early' = early /\ e.rbuf = <<>> /\ e.dec = 0 /\ n.rbuf = p.wire /\ m.wire = <<>>
      /\ \A f \in Fields \ {"rbuf"} : n[f] = e[f]
      /\ \A f \in Fields \ {"wire"} : m[f] = p[f]
  BY ReadMoves
<1>3. /\ n.toCome = e.toCome /\ n.canSend = e.canSend /\ n.rpc = e.rpc /\ n.mpc = e.mpc /\ n.err = e.err /\ n.closed = e.closed
      /\ n.wrote = e.wrote /\ n.avail = e.avail /\ n.dec = e.dec /\ n.got = e.got
      /\ n.wq = e.wq /\ n.held = e.held /\ n.wire = e.wire
  BY <1>2 DEF Fields
<1>4. /\ m.toCome = p.toCome /\ m.canSend = p.canSend /\ m.rpc = p.rpc /\ m.mpc = p.mpc /\ m.err = p.err /\ m.closed = p.closed
      /\ m.wrote = p.wrote /\ m.avail = p.avail /\ m.dec = p.dec /\ m.got = p.got
      /\ m.wq = p.wq /\ m.held = p.held /\ m.rbuf = p.rbuf
  BY <1>2 DEF Fields
<1>5. Ending' <=> Ending
  <2>1. Ending <=> Over(e) \/ Over(p) BY EndingOf
  <2>2. Ending' <=> Over(n) \/ Over(m) BY EndingNext DEF EndingSeen
  <2> QED BY <1>3, <1>4, <2>1, <2>2 DEF Over
<1>6. p.wire \in Seq(Packet) /\ p.held \in Seq(Packet) /\ p.wq \in Seq(Packet) BY TwoEnds, TypesOf
<1>7. Ended'
  <2>1. ASSUME NEW kept, Words(e, p, kept) PROVE Words(n, m, kept)
    <3> HIDE DEF e, p, n, m
    <3>1. Quitting(m) => Quitting(p) BY <1>4 DEF Quitting
    <3> QED BY <1>3, <1>4, <2>1, <3>1 DEF Words
  <2>2. ASSUME NEW kept, Words(p, e, kept) PROVE Words(m, n, kept)
    <3> HIDE DEF e, p, n, m
    <3>1. Only(<<>>, NoData) BY DEF Only
    <3> QED BY <1>2, <1>3, <1>4, <2>2, <3>1 DEF Words
  <2> SUFFICES ASSUME NEW x \in Side, kicks' = 0, env.ends = {x}, Ending'
               PROVE  Words(end'[x], end'[Peer(x)], Peer(x) \notin early)
    BY <1>2 DEF Ended, LastWords
  <2>3. Words(end[x], end[Peer(x)], Peer(x) \notin early) BY <1>2, <1>5 DEF Ended, LastWords
  <2>4. CASE x = s BY <2>1, <2>3, <2>4
  <2>5. CASE x = Peer(s)
    <3>1. Peer(x) = s BY <2>5, TwoEnds
    <3> QED BY <2>2, <2>3, <2>5, <3>1
  <2> QED BY <2>4, <2>5, TwoEnds
<1>8. CASE Ending' BY <1>1, <1>7, <1>8 DEF Live
<1>9. CASE ~Ending'
  <2>1. LiveFrom(e, p, kicks) BY <1>5, <1>9, LiveSeen
  <2>2. Chain(p.wire, <<>>, p.held, p.wq) = Chain(<<>>, p.wire, p.held, p.wq) BY <1>6, ChainRead
  <2> HIDE DEF e, p, n, m
  <2>3. Sent(n, m) = Sent(e, p) /\ Sent(m, n) = Sent(p, e) BY <1>2, <1>3, <1>4, <2>2 DEF Sent
  <2>4. Held(n) = Held(e) /\ Held(m) = Held(p) BY <1>3, <1>4 DEF Held
  <2>5. LiveFrom(n, m, kicks) BY <1>3, <1>4, <2>1, <2>3, <2>4 DEF LiveFrom
  <2>6. LiveFrom(end'[s], end'[Peer(s)], kicks') BY <1>2, <2>5 DEF n, m
  <2> QED BY <1>1, <1>7, <1>9, <2>6, SeenNext DEF Seen
<1> QED BY <1>8, <1>9

-----------------------------------------------------------------------------
(* The theorems. *)

\* At the start the client has the only signal.
LEMMA Starts == Init => IInv
<1> SUFFICES ASSUME Init PROVE Typed /\ Live /\ Ended BY DEF IInv
<1> DEFINE e == NewEnd(Client)
           p == NewEnd(Server)
<1>1. /\ end = [s \in Side |-> NewEnd(s)] /\ env \in Env /\ kicks = 0 BY DEF Init
<1>2. env.chunks \in [Side -> Seq(Nat \ {0})] BY <1>1, RandomWTAssumption
<1>3. <<>> \in Seq(Packet) OBVIOUS
<1>4. ASSUME NEW s \in Side PROVE EndTyped(NewEnd(s)) /\ ~NewEnd(s).ended
  <2> DEFINE n == NewEnd(s)
  <2>1. DOMAIN n = Fields BY DEF NewEnd, Fields
  <2>2. MainTyped(n.mpc, n.quit) BY DEF NewEnd, MainTyped
  <2>3. n.canSend \in Signals BY DEF NewEnd, Signals
  <2>4. ProgramTyped(n.avail, n.wrote, n.toCome, n.ended)
    <3>1. n.avail = 0 /\ n.wrote = 0 /\ n.toCome = env.chunks[s] /\ n.ended = FALSE BY DEF NewEnd
    <3>2. env.chunks[s] \in Seq(Nat \ {0}) BY <1>2
    <3> QED BY <3>1, <3>2 DEF ProgramTyped
  <2>5. n.wq \in Seq(Packet) /\ n.held \in Seq(Packet) /\ n.wire \in Seq(Packet) BY <1>3 DEF NewEnd
  <2>6. ReaderTyped(n.rbuf, n.dec, n.got, n.rpc, n.closed)
    <3>1. n.rbuf = <<>> /\ n.dec = 0 /\ n.got = 0 /\ n.rpc = "run" BY DEF NewEnd
    <3> QED BY <1>3, <3>1 DEF ReaderTyped
  <2>7. ~n.ended BY DEF NewEnd
  <2> HIDE DEF n
  <2>8. EndTyped(n) BY <2>1, <2>2, <2>3, <2>4, <2>5, <2>6 DEF EndTyped
  <2> QED BY <2>7, <2>8 DEF n
<1>5. Typed BY <1>1, <1>4 DEF Typed
<1>6. Client \in Side /\ Server \in Side /\ Peer(Client) = Server BY DEF Side, Peer
<1>7. end[Client] = e /\ end[Server] = p BY <1>1, <1>6
<1>8. /\ e.canSend = <<"Real">> /\ e.rpc = "run" /\ e.mpc = "select"
      /\ e.rbuf = <<>> /\ e.wire = <<>> /\ e.held = <<>> /\ e.wq = <<>>
      /\ e.wrote = 0 /\ e.avail = 0 /\ e.dec = 0 /\ e.got = 0
  BY DEF NewEnd
<1>9. /\ p.canSend = <<>> /\ p.rpc = "run" /\ p.mpc = "select"
      /\ p.rbuf = <<>> /\ p.wire = <<>> /\ p.held = <<>> /\ p.wq = <<>>
      /\ p.wrote = 0 /\ p.avail = 0 /\ p.dec = 0 /\ p.got = 0
  BY DEF NewEnd, Client, Server
<1> HIDE DEF e, p
<1>10. Sent(e, p) = <<>> /\ Sent(p, e) = <<>> BY <1>8, <1>9 DEF Sent, Chain
<1>11. Occurrences(<<>>, Finish) = 0 /\ Occurrences(<<>>, {"Payload"}) = 0 BY OccurrencesEmpty
<1>12. Only(<<>>, Plain) /\ Behind(<<>>) BY DEF Only, Behind
<1>13. Sound(<<>>, 0, 0, 0) BY <1>11, <1>12 DEF Sound
<1>14. Held(e) = 1 /\ Held(p) = 0 BY <1>8, <1>9 DEF Held, InTurn
<1>15. Balance(0, 1, 0, 0, 0) BY DEF Balance
<1>16. e.canSend # <<"TearDown">> /\ p.canSend # <<"TearDown">> BY <1>8, <1>9
<1>17. LiveFrom(e, p, 0)
  <2>1. p.dec + p.got = 0 /\ e.dec + e.got = 0 BY <1>8, <1>9
  <2>2. Sound(Sent(e, p), e.wrote, e.avail, p.dec + p.got) /\ Sound(Sent(p, e), p.wrote, p.avail, e.dec + e.got)
    BY <1>8, <1>9, <1>10, <1>13, <2>1
  <2>3. Balance(Occurrences(Sent(e, p), Finish), Held(e), Occurrences(Sent(p, e), Finish), Held(p), 0)
    BY <1>10, <1>11, <1>14, <1>15
  <2> QED BY <1>8, <1>9, <1>16, <2>2, <2>3 DEF LiveFrom
<1>18. LiveFrom(end[Client], end[Peer(Client)], kicks) BY <1>1, <1>6, <1>7, <1>17
<1>19. ~Ending
  <2>1. ~Over(e) /\ ~Over(p) BY DEF Over, Gone, NewEnd, e, p
  <2> QED BY <1>6, <1>7, <2>1, EndingOf
<1>20. Live BY <1>5, <1>6, <1>18, <1>19, LiveSeen
<1> QED BY <1>5, <1>19, <1>20 DEF Ended

\* Every step keeps the types and, while nobody ends the connection, the turns and the data.
LEMMA Keeps == IInv /\ [Next]_vars => IInv'
<1> SUFFICES ASSUME Typed, Live, Ended, [Next]_vars PROVE Typed' /\ Live' /\ Ended' BY DEF IInv
<1>1. CASE UNCHANGED vars
  <2>1. Typed' BY <1>1 DEF vars, Typed
  <2>2. end' = end /\ kicks' = kicks BY <1>1 DEF vars
  <2>3. Live' BY <2>2 DEF Live, Ending, LiveSide, OneTurn, Turns, Flight
  <2>4. Ended' BY <1>1, <2>2 DEF vars, Ended, Ending, LastWords
  <2> QED BY <2>1, <2>3, <2>4
<1>2. ASSUME NEW s \in Side, Main(s) PROVE Typed' /\ Live' /\ Ended'
  BY <1>2, MainErrKeeps, TakeTearDownKeeps, TakeRealKeeps, TakeFakeKeeps, TakeFakeAndSkipKeeps, SkipKeeps,
     ReadTimeoutKeeps, ReadFailsKeeps, ReadDataKeeps, SignalStartKeeps, StoreNextKeeps, RealBurstKeeps,
     TearDownKeeps, MainCloseKeeps DEF Main
<1>3. ASSUME NEW s \in Side, Send(s) PROVE Typed' /\ Live' /\ Ended'
  BY <1>3, SendTakeKeeps, SendWriteKeeps, SendFailsKeeps, SendExitKeeps DEF Send
<1>4. ASSUME NEW s \in Side, Reader(s) PROVE Typed' /\ Live' /\ Ended'
  BY <1>4, ReaderReadKeeps, ReaderPacketKeeps, ReaderDeliverKeeps, ReaderEndKeeps DEF Reader
<1>5. ASSUME NEW s \in Side, Arrive(s) \/ ProgramEnds(s) \/ Kick(s) \/ Tick(s) \/ TickStore(s)
      PROVE  Typed' /\ Live' /\ Ended'
  BY <1>5, ArriveKeepsAll, ProgramEndsKeeps, KickKeeps, TickKeeps, TickStoreKeeps
<1> QED BY <1>1, <1>2, <1>3, <1>4, <1>5 DEF Next

\* However the goroutines of the two ends interleave, the connection has one turn, and one
\* more for each keep-alive packet sent between live ends: for all data, dummies and ticks.
THEOREM TheTurn == Spec => []OneTurn
<1>1. IInv => OneTurn BY DEF IInv, Live, OneTurn
<1> QED BY Starts, Keeps, <1>1, PTL DEF Spec

\* A program that closes its connection after writing loses nothing: when the other end's
\* reader is done, all that was written was given to the other program, unless that end's
\* main acted on a failed write before.
THEOREM NothingLost == Spec => []EndLosesNothing
<1>1. IInv => EndLosesNothing
  <2> SUFFICES ASSUME IInv, NEW s \in Side, kicks = 0, env.ends = {s}, Peer(s) \notin early,
                      end[Peer(s)].rpc = "done"
               PROVE  AllGiven(s)
    BY DEF EndLosesNothing
  <2> DEFINE e == end[s]
             p == end[Peer(s)]
  <2>1. p.closed /\ p.dec = 0 /\ p.got \in Nat BY TwoEnds, TypesOf DEF IInv, ReaderTyped
  <2>2. Ending BY <2>1, EndingOf DEF Over
  <2>3. Words(e, p, TRUE) BY <2>2 DEF IInv, Ended, LastWords
  <2>4. e.toCome = <<>> /\ e.wrote = p.dec + p.got BY <2>3 DEF Words
  <2> HIDE DEF e, p
  <2>5. p.dec + p.got = p.got BY <2>1
  <2> QED BY <2>4, <2>5 DEF AllGiven, e, p
<1> QED BY Starts, Keeps, <1>1, PTL DEF Spec
=============================================================================
