----------------------- MODULE ServerHandshakeProofs -----------------------
(***************************************************************************)
(* Proofs about ServerHandshake and the replay filter, for any number of   *)
(* connections and messages, any hours in the messages, any length of an   *)
(* hour and any capacity of the filter, and without a bound on the clock   *)
(* or the stalls other than the constants: the filter's map and list stay  *)
(* in step, a message is refused as a replay only if another connection    *)
(* showed it, and no message is accepted twice unless the filter is full   *)
(* or the clock advances during an evaluation.                             *)
(***************************************************************************)
EXTENDS ServerHandshake, TLAPS, SequenceTheorems, WellFoundedInduction

-----------------------------------------------------------------------------
(* Natural numbers. *)

\* A set of natural numbers that is not empty has a least element.
LEMMA LeastNat ==
  ASSUME NEW T, T \subseteq Nat, T # {}
  PROVE  \E x \in T : \A y \in T : x <= y
<1> DEFINE R == {ss \in Nat \X Nat : ss[1] < ss[2]}
<1>1. IsWellFoundedOn(R, Nat)
  BY NatLessThanWellFounded DEF OpToRel
<1> HIDE DEF R
<1>2. PICK x \in T : \A y \in T : ~(<<y, x>> \in R)
  BY <1>1, WFMin
<1>3. ASSUME NEW y \in T PROVE x <= y
  <2>1. x \in Nat /\ y \in Nat OBVIOUS
  <2>2. y < x => <<y, x>> \in R BY <2>1 DEF R
  <2> QED BY <1>2, <2>1, <2>2
<1> QED BY <1>3

\* Where a lies between the multiples of t.
LEMMA DivBounds ==
  ASSUME NEW a \in Nat, NEW t \in Nat \ {0}
  PROVE  a \div t \in Int /\ t * (a \div t) <= a /\ a < t * (a \div t) + t
<1>1. a \div t \in Int OBVIOUS
<1>2. t * (a \div t) <= a OBVIOUS
<1>3. a < t * (a \div t) + t OBVIOUS
<1> QED BY <1>1, <1>2, <1>3

\* A positive factor can be cancelled.
LEMMA CancelFactor ==
  ASSUME NEW a \in Int, NEW b \in Int, NEW t \in Nat \ {0}, t * a < t * b
  PROVE  a < b
  OBVIOUS

\* Time that is k hours later, or more, falls into an hour that is k later, or more.
LEMMA HoursLater ==
  ASSUME NEW a \in Nat, NEW b \in Nat, NEW t \in Nat \ {0}, NEW k \in Nat, a + k * t <= b
  PROVE  a \div t + k <= b \div t
<1> DEFINE x == a \div t
           y == b \div t
<1>1. x \in Int /\ y \in Int /\ t * x <= a /\ b < t * y + t
  BY DivBounds
<1> HIDE DEF x, y
<1>2. t * (x + k) < t * (y + 1)
  BY <1>1
<1>3. x + k < y + 1
  BY <1>1, <1>2, CancelFactor
<1> QED BY <1>1, <1>3 DEF x, y

-----------------------------------------------------------------------------
(* What compactFilter removes. *)

Entry == [digest : Hello, firstSeen : Nat]

\* What compactFilter purges: a beginning of the list, all of it too old but for the one
\* entry that a full filter gives up; it stops at an entry that it keeps.
LEMMA PurgedPrefix ==
  ASSUME NEW q \in Seq(Entry), NEW now \in Nat
  PROVE  LET p == Filter!Purged(q, now) IN
         /\ p \in 0..Len(q)
         /\ p < Len(q) => Filter!Kept(q[p + 1], now)
         /\ \A i \in 1..p : (i = 1 /\ Filter!Full(q)) \/ ~Filter!Kept(q[i], now)
<1> DEFINE first == IF Filter!Full(q) THEN 1 ELSE 0
           stops == {i \in (first + 1)..Len(q) : Filter!Kept(q[i], now)}
<1>0. Len(q) \in Nat /\ first \in {0, 1} /\ (first = 1 => Filter!Full(q))
  OBVIOUS
<1>f. Filter!Full(q) => Len(q) > 0
  BY HandshakeAssumption DEF Filter!Full
<1>1. CASE stops = {}
  <2>1. Filter!Purged(q, now) = Len(q)
    BY <1>1 DEF Filter!Purged
  <2>2. ASSUME NEW i \in 1..Len(q) PROVE (i = 1 /\ Filter!Full(q)) \/ ~Filter!Kept(q[i], now)
    <3>1. CASE i > first BY <3>1, <1>0, <1>1
    <3>2. CASE ~(i > first) BY <3>2, <1>0
    <3> QED BY <3>1, <3>2
  <2> QED BY <1>0, <2>1, <2>2
<1>2. CASE stops # {}
  <2> DEFINE m == CHOOSE i \in stops : \A j \in stops : i <= j
  <2>1. stops \subseteq Nat BY <1>0
  <2>2. m \in stops /\ \A j \in stops : m <= j
    BY <1>2, <2>1, LeastNat
  <2>3. Filter!Purged(q, now) = m - 1
    BY <1>2 DEF Filter!Purged
  <2>4. m \in (first + 1)..Len(q) /\ Filter!Kept(q[m], now)
    BY <2>2
  <2> HIDE DEF m
  <2>5. ASSUME NEW i \in 1..(m - 1) PROVE (i = 1 /\ Filter!Full(q)) \/ ~Filter!Kept(q[i], now)
    <3>1. CASE i > first BY <3>1, <1>0, <2>2, <2>4
    <3>2. CASE ~(i > first) BY <3>2, <1>0
    <3> QED BY <3>1, <3>2
  <2> QED BY <1>0, <2>3, <2>4, <2>5
<1> QED BY <1>1, <1>2

Digests(q) == {q[i].digest : i \in 1..Len(q)}
Distinct(q) == \A i, j \in 1..Len(q) : i # j => q[i].digest # q[j].digest

\* The entries of a list are messages with times.
LEMMA EntryTypes ==
  ASSUME NEW q \in Seq(Entry)
  PROVE  \A i \in 1..Len(q) : q[i].digest \in Hello /\ q[i].firstSeen \in Nat
<1>1. \A i \in 1..Len(q) : q[i] \in Entry
  BY ElementOfSeq
<1>2. \A e \in Entry : e.digest \in Hello /\ e.firstSeen \in Nat
  BY DEF Entry
<1> QED BY <1>1, <1>2

\* So the digests of a list are messages.
LEMMA DigestsAreHellos ==
  ASSUME NEW q \in Seq(Entry)
  PROVE  Digests(q) \subseteq Hello
  BY EntryTypes DEF Digests

\* What compactFilter takes from the list it takes from the map.
LEMMA CompactedMatches ==
  ASSUME NEW q \in Seq(Entry), NEW now \in Nat, Distinct(q)
  PROVE  LET c == Filter!Compacted(q, now) IN
         c \in Seq(Entry) /\ Distinct(c) /\ Digests(c) = Digests(q) \ Filter!Deleted(q, now)
<1> DEFINE p == Filter!Purged(q, now)
           c == Filter!Compacted(q, now)
<1>0. p \in 0..Len(q) /\ Len(q) \in Nat
  BY PurgedPrefix
<1>1. CASE Filter!Jumped(q, now)
  <2>1. c = <<>> /\ Filter!Deleted(q, now) = Digests(q)
    BY <1>1 DEF Filter!Compacted, Filter!Deleted, Digests
  <2>2. c \in Seq(Entry) /\ Distinct(c) /\ Digests(c) = {}
    BY <2>1 DEF Distinct, Digests
  <2> QED BY <2>1, <2>2
<1>2. CASE ~Filter!Jumped(q, now)
  <2>1. c = SubSeq(q, p + 1, Len(q)) /\ Filter!Deleted(q, now) = {q[i].digest : i \in 1..p}
    BY <1>2 DEF Filter!Compacted, Filter!Deleted
  <2> HIDE DEF p, c
  <2>2. /\ c \in Seq(Entry) /\ Len(c) = Len(q) - p
        /\ \A i \in 1..(Len(q) - p) : c[i] = q[p + i]
    BY <1>0, <2>1, SubSeqProperties
  <2>3. Distinct(c)
    <3> SUFFICES ASSUME NEW i \in 1..Len(c), NEW j \in 1..Len(c), i # j
                 PROVE  c[i].digest # c[j].digest
      BY DEF Distinct
    <3>1. p + i \in 1..Len(q) /\ p + j \in 1..Len(q) /\ p + i # p + j
      BY <1>0, <2>2
    <3>2. c[i] = q[p + i] /\ c[j] = q[p + j]
      BY <2>2
    <3> QED BY <3>1, <3>2 DEF Distinct
  <2>4. ASSUME NEW d PROVE d \in Digests(c) <=> d \in Digests(q) \ Filter!Deleted(q, now)
    <3>1. d \in Digests(c) => d \in Digests(q) \ {q[i].digest : i \in 1..p}
      <4> SUFFICES ASSUME NEW i \in 1..Len(c), d = c[i].digest
                   PROVE  d \in Digests(q) \ {q[k].digest : k \in 1..p}
        BY DEF Digests
      <4>1. p + i \in 1..Len(q) /\ d = q[p + i].digest
        BY <1>0, <2>2
      <4>2. ASSUME NEW k \in 1..p PROVE q[k].digest # d
        BY <1>0, <4>1 DEF Distinct
      <4> QED BY <4>1, <4>2 DEF Digests
    <3>2. d \in Digests(q) \ {q[i].digest : i \in 1..p} => d \in Digests(c)
      <4> SUFFICES ASSUME NEW k \in 1..Len(q), d = q[k].digest, d \notin {q[i].digest : i \in 1..p}
                   PROVE  d \in Digests(c)
        BY DEF Digests
      <4>1. k > p BY <1>0
      <4>2. k - p \in 1..Len(c) /\ c[k - p] = q[k]
        BY <1>0, <2>2, <4>1
      <4> QED BY <4>2 DEF Digests
    <3> QED BY <2>1, <3>1, <3>2
  <2>5. Digests(c) = Digests(q) \ Filter!Deleted(q, now)
    BY <2>4, Zenon
  <2> QED BY <2>2, <2>3, <2>5 DEF c
<1> QED BY <1>1, <1>2

\* compactFilter makes no entries.
LEMMA CompactedEntries ==
  ASSUME NEW q \in Seq(Entry), NEW now \in Nat
  PROVE  \A i \in 1..Len(Filter!Compacted(q, now)) :
           \E j \in 1..Len(q) : Filter!Compacted(q, now)[i] = q[j]
<1> DEFINE p == Filter!Purged(q, now)
           c == Filter!Compacted(q, now)
<1>0. p \in 0..Len(q) /\ Len(q) \in Nat
  BY PurgedPrefix
<1>1. CASE Filter!Jumped(q, now)
  BY <1>1 DEF Filter!Compacted
<1>2. CASE ~Filter!Jumped(q, now)
  <2>1. c = SubSeq(q, p + 1, Len(q))
    BY <1>2 DEF Filter!Compacted
  <2> HIDE DEF p, c
  <2>2. Len(c) = Len(q) - p /\ \A i \in 1..(Len(q) - p) : c[i] = q[p + i]
    BY <1>0, <2>1, SubSeqProperties
  <2>3. ASSUME NEW i \in 1..Len(c) PROVE \E j \in 1..Len(q) : c[i] = q[j]
    <3>1. p + i \in 1..Len(q) /\ c[i] = q[p + i]
      BY <1>0, <2>2
    <3> QED BY <3>1
  <2> QED BY <2>3 DEF c
<1> QED BY <1>1, <1>2

\* TestAndSet keeps map and list in step.
LEMMA TestAndSetMatches ==
  ASSUME fifo \in Seq(Entry), Filter!MapMatchesList, NEW now \in Nat, NEW d \in Hello,
         Filter!TestAndSet(now, d)
  PROVE  fifo' \in Seq(Entry) /\ filter' \subseteq Hello /\ Filter!MapMatchesList'
<1> DEFINE c == Filter!Compacted(fifo, now)
           e == [digest |-> d, firstSeen |-> now]
<1>1. filter = Digests(fifo) /\ Distinct(fifo)
  BY DEF Filter!MapMatchesList, Digests, Distinct
<1>2. c \in Seq(Entry) /\ Distinct(c) /\ Digests(c) = filter \ Filter!Deleted(fifo, now)
  BY <1>1, CompactedMatches
<1>3. Filter!Seen(now, d) <=> d \in Digests(c)
  BY <1>2 DEF Filter!Seen
<1>4. filter' = Digests(c) \cup {d}
  BY <1>2 DEF Filter!TestAndSet
<1>5. fifo' = IF d \in Digests(c) THEN c ELSE Append(c, e)
  BY <1>3 DEF Filter!TestAndSet
<1>6. e \in Entry BY DEF Entry
<1> HIDE DEF c, e
<1>7. CASE d \in Digests(c)
  <2>1. fifo' = c /\ filter' = Digests(c) BY <1>4, <1>5, <1>7
  <2>2. Digests(c) \subseteq Hello BY <1>2, DigestsAreHellos
  <2> QED BY <1>2, <2>1, <2>2 DEF Filter!MapMatchesList, Digests, Distinct
<1>8. CASE d \notin Digests(c)
  <2>1. fifo' = Append(c, e) BY <1>5, <1>8
  <2>2. /\ fifo' \in Seq(Entry) /\ Len(fifo') = Len(c) + 1 /\ Len(c) \in Nat
        /\ \A i \in 1..Len(c) : fifo'[i] = c[i]
        /\ fifo'[Len(c) + 1] = e
    BY <1>2, <1>6, <2>1, AppendProperties
  <2>3. e.digest = d BY DEF e
  <2>4. \A i \in 1..Len(c) : c[i].digest # d
    BY <1>8 DEF Digests
  <2>5. \A i, j \in 1..Len(fifo') : i # j => fifo'[i].digest # fifo'[j].digest
    <3> SUFFICES ASSUME NEW i \in 1..Len(fifo'), NEW j \in 1..Len(fifo'), i # j
                 PROVE  fifo'[i].digest # fifo'[j].digest
      OBVIOUS
    <3>1. CASE i \in 1..Len(c) /\ j \in 1..Len(c) BY <1>2, <2>2, <3>1 DEF Distinct
    <3>2. CASE i = Len(c) + 1 BY <2>2, <2>3, <2>4, <3>2
    <3>3. CASE j = Len(c) + 1 BY <2>2, <2>3, <2>4, <3>3
    <3> QED BY <2>2, <3>1, <3>2, <3>3
  <2>6. filter' = {fifo'[i].digest : i \in 1..Len(fifo')}
    <3>1. Digests(c) = {c[i].digest : i \in 1..Len(c)} BY DEF Digests
    <3>2. ASSUME NEW x PROVE x \in filter' <=> \E i \in 1..Len(fifo') : x = fifo'[i].digest
      <4>1. x \in filter' => \E i \in 1..Len(fifo') : x = fifo'[i].digest
        <5>1. CASE x = d BY <2>2, <2>3, <5>1
        <5>2. CASE x \in Digests(c)
          <6>1. PICK i \in 1..Len(c) : x = c[i].digest BY <3>1, <5>2
          <6> QED BY <2>2, <6>1
        <5> QED BY <1>4, <5>1, <5>2
      <4>2. ASSUME NEW i \in 1..Len(fifo'), x = fifo'[i].digest PROVE x \in filter'
        <5>1. CASE i \in 1..Len(c) BY <1>4, <2>2, <3>1, <4>2, <5>1
        <5>2. CASE i = Len(c) + 1 BY <1>4, <2>2, <2>3, <4>2, <5>2
        <5> QED BY <2>2, <5>1, <5>2
      <4> QED BY <4>1, <4>2
    <3> QED BY <3>2
  <2>7. filter' \subseteq Hello
    BY <1>2, <1>4, DigestsAreHellos
  <2> QED BY <2>2, <2>5, <2>6, <2>7 DEF Filter!MapMatchesList
<1> QED BY <1>7, <1>8

-----------------------------------------------------------------------------
(* The inductive invariant. *)

Result == {"none", "invalid", "readError", "replayed", "ntorFailed", "writeError", "open"}
PC == {"read", "mac", "stamp", "test", "verdict", "keys", "respond", "linger", "done"}

\* The types, and what a connection has when it is at work on a message.
TypeOK ==
  /\ clock \in Nat /\ stalls \in Nat /\ forced \in BOOLEAN
  /\ pc \in [Conn -> PC]
  /\ hello \in [Conn -> Hello \cup {NoHello}]
  /\ iter \in [Conn -> 1..3]
  /\ stamp \in [Conn -> Nat]
  /\ found \in [Conn -> BOOLEAN]
  /\ res \in [Conn -> Result]
  /\ fifo \in Seq(Entry) /\ filter \subseteq Hello

\* A message is evaluated, found and refused as a replay only after it was read.
ReadFirst ==
  \A c \in Conn : /\ Evaluating(c) \/ found[c] => hello[c] \in Hello
                  /\ found[c] \/ res[c] = "replayed" => pc[c] # "read"

\* Every message in the filter got there by a connection that found its MAC to match.
ComesFrom(h) == \E d \in Conn : hello[d] = h /\ found[d]
Sources == \A h \in filter : ComesFrom(h)

\* Does the MAC of c's message match in iteration i?
Matches(c, i) == GetEpochHour + Offset[i] = Epoch[hello[c]]

\* While no tick falls into an evaluation, at most one of the three MACs matches, and the
\* filter is asked with the current time.
OneMatchAt(c) ==
  /\ pc[c] \in {"stamp", "test"} => ~found[c] /\ Matches(c, iter[c])
  /\ pc[c] = "mac" /\ found[c] => \E i \in 1..(iter[c] - 1) : Matches(c, i)
  /\ pc[c] = "test" => stamp[c] = clock
OneMatch == \A c \in Conn : OneMatchAt(c)

\* Then no entry comes from the future, nor from before the hours its message is valid for.
Dated ==
  \A i \in 1..Len(fifo) : /\ fifo[i].firstSeen <= clock
                          /\ Epoch[fifo[i].digest] <= fifo[i].firstSeen \div TicksPerHour + 1

\* If moreover the filter never was full, it remembers every message it let pass until its
\* MAC has expired, and let it pass once.
Remembered ==
  \A c \in Conn : found[c] => hello[c] \in filter \/ GetEpochHour > Epoch[hello[c]] + 1
FoundOnce ==
  \A c, d \in Conn : c # d /\ hello[c] = hello[d] => ~(found[c] /\ found[d])

IInv == /\ TypeOK /\ FilterInStep /\ ReadFirst /\ Sources
        /\ stalls = 0 => OneMatch /\ Dated /\ ReplayedOnlyIfSeen
        /\ stalls = 0 /\ ~forced => Remembered /\ FoundOnce


\* The initial state satisfies it.
LEMMA InitHolds == Init => IInv
<1> SUFFICES ASSUME Init PROVE IInv
  OBVIOUS
<1>1. TypeOK
  <2>1. forced \in BOOLEAN /\ found \in [Conn -> BOOLEAN]
    BY Zenon DEF Init
  <2>2. fifo \in Seq(Entry) /\ filter \subseteq Hello
    BY DEF Init, Filter!FilterInit
  <2> QED BY <2>1, <2>2 DEF Init, TypeOK, PC, Result
<1>2. FilterInStep
  BY DEF Init, Filter!FilterInit, FilterInStep, Filter!MapMatchesList
<1>3. ReadFirst /\ Sources
  BY DEF Init, Filter!FilterInit, ReadFirst, Sources, Evaluating
<1>4. OneMatch /\ Dated /\ ReplayedOnlyIfSeen
  BY DEF Init, Filter!FilterInit, OneMatch, OneMatchAt, Dated, ReplayedOnlyIfSeen
<1>5. Remembered /\ FoundOnce
  BY DEF Init, Remembered, FoundOnce
<1> QED BY <1>1, <1>2, <1>3, <1>4, <1>5 DEF IInv

-----------------------------------------------------------------------------
(* One lemma for each kind of step. *)

\* A tick: an evaluation that it falls into is a stall, the others are not affected; what
\* the filter has forgotten stays expired.
LEMMA TickKeeps == IInv /\ Tick => IInv'
<1> SUFFICES ASSUME IInv, Tick PROVE IInv'
  OBVIOUS
<1> USE DEF msgVars, loopVars, retVars, filterVars
<1>0. /\ UNCHANGED <<pc, hello, iter, stamp, found, res, filter, fifo, forced>>
      /\ clock' = clock + 1 /\ stalls' \in Nat /\ clock \in Nat
      /\ stalls' = 0 => stalls = 0 /\ \A c \in Conn : ~Evaluating(c)
  BY DEF Tick, IInv, TypeOK
<1>1. TypeOK'
  BY <1>0 DEF IInv, TypeOK
<1>2. FilterInStep' /\ ReadFirst' /\ Sources'
  BY <1>0 DEF IInv, FilterInStep, Filter!MapMatchesList, ReadFirst, Sources, ComesFrom, Evaluating
<1>3. ASSUME stalls' = 0 PROVE OneMatch' /\ Dated' /\ ReplayedOnlyIfSeen'
  <2>1. OneMatch'
    BY <1>0, <1>3 DEF OneMatch, OneMatchAt, Evaluating
  <2>2. Dated'
    <3> SUFFICES ASSUME NEW i \in 1..Len(fifo)
                 PROVE  /\ fifo[i].firstSeen <= clock + 1
                        /\ Epoch[fifo[i].digest] <= fifo[i].firstSeen \div TicksPerHour + 1
      BY <1>0 DEF Dated
    <3>1. fifo[i].firstSeen \in Nat
      BY EntryTypes DEF IInv, TypeOK
    <3> QED BY <1>0, <1>3, <3>1 DEF IInv, Dated
  <2>3. ReplayedOnlyIfSeen'
    BY <1>0, <1>3 DEF IInv, ReplayedOnlyIfSeen
  <2> QED BY <2>1, <2>2, <2>3
<1>4. ASSUME stalls' = 0, ~forced' PROVE Remembered' /\ FoundOnce'
  <2>1. Remembered /\ FoundOnce
    BY <1>0, <1>4 DEF IInv
  <2>2. GetEpochHour <= GetEpochHour' /\ GetEpochHour \in Int /\ GetEpochHour' \in Int
    <3>1. clock + 0 * TicksPerHour <= clock + 1 /\ clock + 1 \in Nat
      BY <1>0, HandshakeAssumption
    <3>2. clock \div TicksPerHour + 0 <= (clock + 1) \div TicksPerHour
      BY <1>0, <3>1, HoursLater, HandshakeAssumption
    <3>3. clock \div TicksPerHour \in Int /\ (clock + 1) \div TicksPerHour \in Int
      BY <1>0, <3>1, DivBounds, HandshakeAssumption
    <3> QED BY <1>0, <3>2, <3>3 DEF GetEpochHour
  <2>3. \A c \in Conn : found[c] => Epoch[hello[c]] \in Nat
    BY HandshakeAssumption DEF IInv, ReadFirst
  <2>4. Remembered'
    BY <1>0, <2>1, <2>2, <2>3 DEF Remembered
  <2> QED BY <1>0, <2>1, <2>4 DEF FoundOnce
<1> QED BY <1>1, <1>2, <1>3, <1>4 DEF IInv

\* A step after the evaluation, or one that ends the reading with an error.
Quiet(c) ==
  /\ UNCHANGED <<clock, stalls, hello, iter, stamp, found, filter, fifo, forced>>
  /\ \E p \in {"keys", "respond", "linger", "done"} : pc' = [pc EXCEPT ![c] = p]
  /\ \/ res' = res
     \/ \E r \in Result \ {"replayed"} : res' = [res EXCEPT ![c] = r]

\* Such a step touches nothing that the invariant speaks of.
LEMMA QuietKeeps == ASSUME IInv, NEW c \in Conn, Quiet(c) PROVE IInv'
<1>0. /\ UNCHANGED <<clock, stalls, hello, iter, stamp, found, filter, fifo, forced>>
      /\ \A d \in Conn : Evaluating(d)' => Evaluating(d) /\ pc'[d] = pc[d]
      /\ \A d \in Conn : pc'[d] = "read" => pc[d] = "read"
      /\ \A d \in Conn : res'[d] = "replayed" => res[d] = "replayed"
  BY DEF Quiet, Evaluating, IInv, TypeOK
<1>1. TypeOK'
  <2>1. pc' \in [Conn -> PC] BY DEF Quiet, IInv, TypeOK, PC
  <2>2. res' \in [Conn -> Result] BY DEF Quiet, IInv, TypeOK, Result
  <2> QED BY <1>0, <2>1, <2>2 DEF IInv, TypeOK, Result
<1>2. FilterInStep' /\ Sources'
  BY <1>0 DEF IInv, FilterInStep, Filter!MapMatchesList, Sources, ComesFrom
<1>3. ReadFirst'
  BY <1>0 DEF IInv, ReadFirst
<1>4. ASSUME stalls = 0 PROVE OneMatch' /\ Dated' /\ ReplayedOnlyIfSeen'
  <2>1. OneMatch' BY <1>0, <1>4 DEF IInv, OneMatch, OneMatchAt, Matches, GetEpochHour, Evaluating
  <2>2. Dated' BY <1>0, <1>4 DEF IInv, Dated
  <2>3. ReplayedOnlyIfSeen' BY <1>0, <1>4 DEF IInv, ReplayedOnlyIfSeen
  <2> QED BY <2>1, <2>2, <2>3
<1>5. ASSUME stalls = 0, ~forced PROVE Remembered' /\ FoundOnce'
  BY <1>0, <1>5 DEF IInv, Remembered, FoundOnce, GetEpochHour
<1> QED BY <1>0, <1>1, <1>2, <1>3, <1>4, <1>5 DEF IInv

\* Reading a message: the connection has not found anything yet, so that nothing depends on
\* the message it had.
LEMMA ReadHelloKeeps ==
  ASSUME IInv, NEW c \in Conn, NEW h \in Hello, ReadHello(c, h)
  PROVE  IInv'
<1> USE DEF loopVars, retVars, filterVars
<1>0. /\ UNCHANGED <<clock, stalls, iter, stamp, found, res, filter, fifo, forced>>
      /\ pc[c] = "read" /\ ~found[c] /\ res[c] # "replayed"
      /\ pc' = [pc EXCEPT ![c] = "mac"] /\ hello' = [hello EXCEPT ![c] = h]
  BY DEF ReadHello, IInv, ReadFirst
<1>1. TypeOK'
  BY <1>0 DEF IInv, TypeOK, PC
<1>2. /\ pc'[c] = "mac" /\ hello'[c] = h
      /\ \A d \in Conn \ {c} : pc'[d] = pc[d] /\ hello'[d] = hello[d]
  BY <1>0 DEF IInv, TypeOK
<1>3. FilterInStep'
  BY <1>0 DEF IInv, FilterInStep, Filter!MapMatchesList
<1>4. ReadFirst'
  BY <1>0, <1>2 DEF IInv, ReadFirst, Evaluating
<1>5. Sources'
  BY <1>0, <1>2 DEF IInv, Sources, ComesFrom
<1>6. ASSUME stalls = 0 PROVE OneMatch' /\ Dated' /\ ReplayedOnlyIfSeen'
  <2>1. OneMatch'
    BY <1>0, <1>2, <1>6 DEF IInv, OneMatch, OneMatchAt, Matches, GetEpochHour
  <2>2. Dated'
    BY <1>0, <1>6 DEF IInv, Dated
  <2>3. ReplayedOnlyIfSeen'
    BY <1>0, <1>2, <1>6 DEF IInv, ReplayedOnlyIfSeen
  <2> QED BY <2>1, <2>2, <2>3
<1>7. ASSUME stalls = 0, ~forced PROVE Remembered' /\ FoundOnce'
  BY <1>0, <1>2, <1>7 DEF IInv, Remembered, FoundOnce, GetEpochHour
<1> QED BY <1>0, <1>1, <1>3, <1>4, <1>5, <1>6, <1>7 DEF IInv

\* The three hours differ.
LEMMA OffsetsDiffer ==
  /\ Len(Offset) = 3
  /\ \A i \in 1..3 : Offset[i] \in Int /\ Offset[i] <= 1 /\ Offset[i] >= -1
  /\ \A i, j \in 1..3 : Offset[i] = Offset[j] => i = j
  BY DEF Offset

\* Comparing a MAC: after a match, no other one matches in the same hour.
LEMMA CompareMacKeeps ==
  ASSUME IInv, NEW c \in Conn, CompareMac(c)
  PROVE  IInv'
<1> USE DEF msgVars, retVars, filterVars
<1>0. /\ UNCHANGED <<clock, stalls, hello, stamp, found, res, filter, fifo, forced>>
      /\ pc[c] = "mac" /\ iter[c] \in 1..3 /\ hello[c] \in Hello
  BY DEF CompareMac, IInv, TypeOK, ReadFirst, Evaluating
<1>a. \/ Matches(c, iter[c]) /\ pc' = [pc EXCEPT ![c] = "stamp"] /\ iter' = iter
      \/ iter[c] < 3 /\ iter' = [iter EXCEPT ![c] = @ + 1] /\ pc' = [pc EXCEPT ![c] = "mac"]
      \/ iter' = iter /\ pc' = [pc EXCEPT ![c] = "verdict"]
  BY OffsetsDiffer DEF CompareMac, NextMac, Matches
<1>b. \A d \in Conn \ {c} : pc'[d] = pc[d] /\ iter'[d] = iter[d]
  BY <1>a DEF IInv, TypeOK
<1>c. pc'[c] \in {"stamp", "mac", "verdict"}
  BY <1>a DEF IInv, TypeOK
<1>1. TypeOK'
  <2>1. pc' \in [Conn -> PC] BY <1>a DEF IInv, TypeOK, PC
  <2>2. iter' \in [Conn -> 1..3]
    <3>1. iter[c] < 3 => iter[c] + 1 \in 1..3 BY <1>0
    <3>2. iter' = iter \/ (iter[c] < 3 /\ iter' = [iter EXCEPT ![c] = iter[c] + 1]) BY <1>a
    <3> QED BY <3>1, <3>2 DEF IInv, TypeOK
  <2> QED BY <1>0, <2>1, <2>2 DEF IInv, TypeOK
<1>2. FilterInStep' /\ Sources'
  BY <1>0 DEF IInv, FilterInStep, Filter!MapMatchesList, Sources, ComesFrom
<1>3. ReadFirst'
  BY <1>0, <1>b, <1>c DEF IInv, ReadFirst, Evaluating
<1>4. ASSUME stalls = 0 PROVE OneMatch' /\ Dated' /\ ReplayedOnlyIfSeen'
  <2>1. GetEpochHour \in Int /\ Epoch[hello[c]] \in Int
    BY <1>0, DivBounds, HandshakeAssumption DEF GetEpochHour, IInv, TypeOK
  <2>2. ASSUME NEW d \in Conn \ {c} PROVE OneMatchAt(d)'
    BY <1>0, <1>4, <1>b DEF IInv, OneMatch, OneMatchAt, Matches, GetEpochHour
  <2>3. OneMatchAt(c)'
    <3>1. CASE Matches(c, iter[c]) /\ pc' = [pc EXCEPT ![c] = "stamp"] /\ iter' = iter
      <4>1. ~found[c]
        <5> SUFFICES ASSUME found[c] PROVE FALSE
          OBVIOUS
        <5>1. PICK i \in 1..(iter[c] - 1) : Matches(c, i)
          BY <1>0, <1>4 DEF IInv, OneMatch, OneMatchAt
        <5>2. i \in 1..3 /\ i # iter[c] /\ Offset[i] = Offset[iter[c]]
          BY <1>0, <2>1, <3>1, <5>1, OffsetsDiffer DEF Matches
        <5> QED BY <1>0, <5>2, OffsetsDiffer
      <4>2. pc'[c] = "stamp" BY <3>1 DEF IInv, TypeOK
      <4> QED BY <1>0, <3>1, <4>1, <4>2 DEF OneMatchAt, Matches, GetEpochHour
    <3>2. CASE /\ iter[c] < 3 /\ iter' = [iter EXCEPT ![c] = @ + 1]
               /\ pc' = [pc EXCEPT ![c] = "mac"]
      <4>1. pc'[c] = "mac" /\ iter'[c] = iter[c] + 1
        BY <3>2 DEF IInv, TypeOK
      <4>2. ASSUME found[c] PROVE \E i \in 1..(iter'[c] - 1) : Matches(c, i)
        BY <1>0, <1>4, <4>1, <4>2 DEF IInv, OneMatch, OneMatchAt
      <4> QED BY <1>0, <4>1, <4>2 DEF OneMatchAt, Matches, GetEpochHour
    <3>3. CASE iter' = iter /\ pc' = [pc EXCEPT ![c] = "verdict"]
      <4>1. pc'[c] = "verdict" BY <3>3 DEF IInv, TypeOK
      <4> QED BY <4>1 DEF OneMatchAt
    <3> QED BY <1>a, <3>1, <3>2, <3>3
  <2>4. OneMatch' BY <2>2, <2>3 DEF OneMatch
  <2>5. Dated' BY <1>0, <1>4 DEF IInv, Dated
  <2>6. ReplayedOnlyIfSeen' BY <1>0, <1>4 DEF IInv, ReplayedOnlyIfSeen
  <2> QED BY <2>4, <2>5, <2>6
<1>5. ASSUME stalls = 0, ~forced PROVE Remembered' /\ FoundOnce'
  BY <1>0, <1>5 DEF IInv, Remembered, FoundOnce, GetEpochHour
<1> QED BY <1>0, <1>1, <1>2, <1>3, <1>4, <1>5 DEF IInv

\* Reading the clock for the filter.
LEMMA TakeStampKeeps ==
  ASSUME IInv, NEW c \in Conn, TakeStamp(c)
  PROVE  IInv'
<1> USE DEF msgVars, retVars, filterVars
<1>0. /\ UNCHANGED <<clock, stalls, hello, iter, found, res, filter, fifo, forced>>
      /\ pc[c] = "stamp" /\ clock \in Nat
      /\ pc' = [pc EXCEPT ![c] = "test"] /\ stamp' = [stamp EXCEPT ![c] = clock]
  BY DEF TakeStamp, IInv, TypeOK
<1>1. TypeOK'
  BY <1>0 DEF IInv, TypeOK, PC
<1>2. /\ pc'[c] = "test" /\ stamp'[c] = clock
      /\ \A d \in Conn \ {c} : pc'[d] = pc[d] /\ stamp'[d] = stamp[d]
  BY <1>0 DEF IInv, TypeOK
<1>3. FilterInStep' /\ Sources'
  BY <1>0 DEF IInv, FilterInStep, Filter!MapMatchesList, Sources, ComesFrom
<1>4. ReadFirst'
  BY <1>0, <1>2 DEF IInv, ReadFirst, Evaluating
<1>5. ASSUME stalls = 0 PROVE OneMatch' /\ Dated' /\ ReplayedOnlyIfSeen'
  <2>1. OneMatch'
    BY <1>0, <1>2, <1>5 DEF IInv, OneMatch, OneMatchAt, Matches, GetEpochHour
  <2>2. Dated' BY <1>0, <1>5 DEF IInv, Dated
  <2>3. ReplayedOnlyIfSeen' BY <1>0, <1>5 DEF IInv, ReplayedOnlyIfSeen
  <2> QED BY <2>1, <2>2, <2>3
<1>6. ASSUME stalls = 0, ~forced PROVE Remembered' /\ FoundOnce'
  BY <1>0, <1>6 DEF IInv, Remembered, FoundOnce, GetEpochHour
<1> QED BY <1>0, <1>1, <1>3, <1>4, <1>5, <1>6 DEF IInv

\* The heart of the argument.  Without stalls no entry is from the future, so that the
\* filter is not reset; and unless it was full, what compactFilter takes from it has been
\* there for ReplayTTL, three hours, from an hour no earlier than the one before the
\* message's own: by now its MAC does not match any more.
LEMMA ForgottenIsExpired ==
  ASSUME IInv, NEW c \in Conn, TestHello(c), stalls = 0, ~forced', NEW d \in Conn, found[d]
  PROVE  \/ hello[d] \in filter \ Filter!Deleted(fifo, stamp[c])
         \/ GetEpochHour > Epoch[hello[d]] + 1
<1> DEFINE now == stamp[c]
           p == Filter!Purged(fifo, now)
<1>0. /\ clock \in Nat /\ now = clock /\ fifo \in Seq(Entry) /\ Len(fifo) \in Nat
      /\ TicksPerHour \in Nat \ {0}
  BY HandshakeAssumption DEF IInv, TypeOK, OneMatch, OneMatchAt, TestHello
<1>1. ~forced /\ ~(Filter!Full(fifo) /\ Filter!Kept(fifo[1], now))
  BY DEF TestHello
<1>2. hello[d] \in filter \/ GetEpochHour > Epoch[hello[d]] + 1
  BY <1>1 DEF IInv, Remembered
<1>3. /\ p \in 0..Len(fifo)
      /\ \A i \in 1..p : (i = 1 /\ Filter!Full(fifo)) \/ ~Filter!Kept(fifo[i], now)
  BY <1>0, PurgedPrefix
<1>4. \A i \in 1..Len(fifo) : fifo[i].firstSeen \in Nat /\ fifo[i].digest \in Hello
  BY <1>0, EntryTypes
<1>5. ~Filter!Jumped(fifo, now)
  <2> SUFFICES ASSUME Filter!Jumped(fifo, now) PROVE FALSE
    OBVIOUS
  <2>1. p + 1 \in 1..Len(fifo) /\ fifo[p + 1].firstSeen > now
    BY <1>0, <1>3 DEF Filter!Jumped
  <2>2. fifo[p + 1].firstSeen <= clock
    BY <2>1 DEF IInv, Dated
  <2> QED BY <1>0, <1>4, <2>1, <2>2
<1>6. ASSUME hello[d] \in Filter!Deleted(fifo, now) PROVE GetEpochHour > Epoch[hello[d]] + 1
  <2>1. PICK i \in 1..p : hello[d] = fifo[i].digest
    BY <1>5, <1>6 DEF Filter!Deleted
  <2>2. i \in 1..Len(fifo) BY <1>0, <1>3
  <2>3. ~Filter!Kept(fifo[i], now)
    BY <1>1, <1>3
  <2> DEFINE f == fifo[i].firstSeen
  <2>4. f \in Nat /\ f + 3 * TicksPerHour <= clock
    BY <1>0, <1>4, <2>2, <2>3 DEF Filter!Kept, ReplayTTL
  <2>5. Epoch[hello[d]] <= f \div TicksPerHour + 1
    BY <2>1, <2>2 DEF IInv, Dated
  <2>6. f \div TicksPerHour + 3 <= GetEpochHour
    BY <1>0, <2>4, HoursLater DEF GetEpochHour
  <2>7. f \div TicksPerHour \in Int /\ GetEpochHour \in Int /\ Epoch[hello[d]] \in Nat
    BY <1>0, <1>4, <2>1, <2>2, <2>4, DivBounds, HandshakeAssumption DEF GetEpochHour
  <2> HIDE DEF f
  <2> QED BY <2>5, <2>6, <2>7
<1> QED BY <1>2, <1>6

\* The test of the replay filter.
LEMMA TestHelloKeeps ==
  ASSUME IInv, NEW c \in Conn, TestHello(c)
  PROVE  IInv'
<1> USE DEF msgVars, retVars
<1> DEFINE now == stamp[c]
           h == hello[c]
           kept == filter \ Filter!Deleted(fifo, now)
<1>0. /\ UNCHANGED <<clock, stalls, hello, stamp>>
      /\ pc[c] = "test" /\ iter[c] \in 1..3 /\ now \in Nat /\ h \in Hello
      /\ clock \in Nat /\ fifo \in Seq(Entry) /\ Filter!MapMatchesList
      /\ Filter!TestAndSet(now, h) /\ filter' = kept \cup {h} /\ forced' \in BOOLEAN
      /\ ~forced' => ~forced
  BY DEF TestHello, IInv, TypeOK, ReadFirst, Evaluating, FilterInStep, Filter!TestAndSet
<1>1. \/ /\ h \in kept /\ found' = found /\ iter' = iter
         /\ res' = [res EXCEPT ![c] = "replayed"] /\ pc' = [pc EXCEPT ![c] = "linger"]
      \/ /\ h \notin kept /\ found' = [found EXCEPT ![c] = TRUE] /\ res' = res
         /\ \/ /\ iter[c] < 3 /\ iter' = [iter EXCEPT ![c] = iter[c] + 1]
               /\ pc' = [pc EXCEPT ![c] = "mac"]
            \/ iter' = iter /\ pc' = [pc EXCEPT ![c] = "verdict"]
  BY OffsetsDiffer DEF TestHello, Fail, NextMac, Filter!Seen
<1>2. /\ \A d \in Conn \ {c} : /\ pc'[d] = pc[d] /\ iter'[d] = iter[d]
                               /\ found'[d] = found[d] /\ res'[d] = res[d]
      /\ pc'[c] \in {"mac", "verdict", "linger"}
      /\ \A d \in Conn : found[d] => found'[d]
  BY <1>1 DEF IInv, TypeOK
<1>3. h \notin kept => found'[c]
  BY <1>1 DEF IInv, TypeOK
<1>4. fifo' \in Seq(Entry) /\ filter' \subseteq Hello /\ FilterInStep'
  BY <1>0, TestAndSetMatches DEF FilterInStep
<1>5. TypeOK'
  <2>1. pc' \in [Conn -> PC] BY <1>1 DEF IInv, TypeOK, PC
  <2>2. iter' \in [Conn -> 1..3]
    <3>1. iter[c] < 3 => iter[c] + 1 \in 1..3 BY <1>0
    <3> QED BY <1>1, <3>1 DEF IInv, TypeOK
  <2>3. found' \in [Conn -> BOOLEAN] BY <1>1, Zenon DEF IInv, TypeOK
  <2>4. res' \in [Conn -> Result] BY <1>1 DEF IInv, TypeOK, Result
  <2> QED BY <1>0, <1>4, <2>1, <2>2, <2>3, <2>4 DEF IInv, TypeOK
<1>6. ReadFirst'
  BY <1>0, <1>2 DEF IInv, ReadFirst, Evaluating
<1>7. Sources'
  <2>1. ASSUME NEW x \in filter PROVE ComesFrom(x)'
    BY <1>0, <1>2 DEF IInv, Sources, ComesFrom
  <2>2. ComesFrom(h)'
    <3>1. CASE h \in kept
      BY <1>0, <1>2, <3>1 DEF IInv, Sources, ComesFrom
    <3>2. CASE h \notin kept BY <1>0, <1>3, <3>2 DEF ComesFrom
    <3> QED BY <3>1, <3>2
  <2> QED BY <1>0, <2>1, <2>2 DEF Sources
<1>8. ASSUME stalls = 0
      PROVE  /\ Matches(c, iter[c]) /\ ~found[c] /\ now = clock
             /\ Epoch[h] \in Nat /\ GetEpochHour \in Int
             /\ Epoch[h] <= GetEpochHour + 1 /\ GetEpochHour <= Epoch[h] + 1
  <2>1. Matches(c, iter[c]) /\ ~found[c] /\ now = clock
    BY <1>0, <1>8 DEF IInv, OneMatch, OneMatchAt
  <2>2. Epoch[h] \in Nat /\ GetEpochHour \in Int
    BY <1>0, DivBounds, HandshakeAssumption DEF GetEpochHour
  <2>3. iter[c] \in 1..3 BY <1>0 DEF IInv, TypeOK
  <2>4. Offset[iter[c]] \in Int /\ Offset[iter[c]] <= 1 /\ Offset[iter[c]] >= -1
    BY <2>3, OffsetsDiffer
  <2>5. GetEpochHour + Offset[iter[c]] = Epoch[h] BY <2>1 DEF Matches
  <2>6. Epoch[h] <= GetEpochHour + 1 /\ GetEpochHour <= Epoch[h] + 1
    BY <2>2, <2>4, <2>5
  <2> QED BY <2>1, <2>2, <2>6
<1>9. ASSUME stalls = 0 PROVE OneMatch' /\ Dated' /\ ReplayedOnlyIfSeen'
  <2>1. OneMatch'
    <3>1. ASSUME NEW d \in Conn \ {c} PROVE OneMatchAt(d)'
      BY <1>0, <1>2, <1>9 DEF IInv, OneMatch, OneMatchAt, Matches, GetEpochHour
    <3>2. OneMatchAt(c)'
      <4>1. pc'[c] = "mac" => iter'[c] = iter[c] + 1
        BY <1>1 DEF IInv, TypeOK
      <4>2. pc'[c] = "mac" => \E i \in 1..(iter'[c] - 1) : Matches(c, i)
        BY <1>0, <1>8, <1>9, <4>1
      <4> QED BY <1>0, <1>2, <4>2 DEF OneMatchAt, Matches, GetEpochHour
    <3> QED BY <3>1, <3>2 DEF OneMatch
  <2>2. Dated'
    <3> DEFINE q == Filter!Compacted(fifo, now)
               e == [digest |-> h, firstSeen |-> now]
               InDate(x) == /\ x.firstSeen <= clock
                            /\ Epoch[x.digest] <= x.firstSeen \div TicksPerHour + 1
    <3>1. \A i \in 1..Len(fifo) : InDate(fifo[i])
      BY <1>9 DEF IInv, Dated
    <3>2. InDate(e)
      BY <1>0, <1>8, <1>9 DEF GetEpochHour
    <3>3. q \in Seq(Entry)
      BY <1>0, CompactedMatches DEF Filter!MapMatchesList, Distinct
    <3> HIDE DEF InDate
    <3>4. \A i \in 1..Len(q) : InDate(q[i])
      BY <1>0, <3>1, CompactedEntries
    <3>5. fifo' = q \/ fifo' = Append(q, e)
      BY <1>0 DEF Filter!TestAndSet
    <3>6. e \in Entry
      BY <1>0 DEF Entry
    <3> HIDE DEF q, e
    <3>7. \A i \in 1..Len(fifo') : InDate(fifo'[i])
      <4>1. CASE fifo' = q BY <3>4, <4>1
      <4>2. CASE fifo' = Append(q, e)
        <5>1. /\ Len(fifo') = Len(q) + 1 /\ Len(q) \in Nat /\ fifo'[Len(q) + 1] = e
              /\ \A i \in 1..Len(q) : fifo'[i] = q[i]
          BY <3>3, <3>6, <4>2, AppendProperties
        <5> QED BY <3>2, <3>4, <5>1
      <4> QED BY <3>5, <4>1, <4>2
    <3> QED BY <1>0, <3>7 DEF Dated, InDate
  <2>3. ReplayedOnlyIfSeen'
    <3> SUFFICES ASSUME NEW d \in Conn, res'[d] = "replayed"
                 PROVE  \E x \in Conn \ {d} : hello[x] = hello[d] /\ found'[x]
      BY <1>0 DEF ReplayedOnlyIfSeen
    <3>1. CASE res[d] = "replayed"
      BY <1>2, <1>9, <3>1 DEF IInv, ReplayedOnlyIfSeen
    <3>2. CASE res[d] # "replayed"
      <4>1. d = c /\ h \in kept
        BY <1>1, <1>2, <3>2
      <4>2. PICK x \in Conn : hello[x] = h /\ found[x]
        BY <4>1 DEF IInv, Sources, ComesFrom
      <4> QED BY <1>2, <1>8, <1>9, <4>1, <4>2
    <3> QED BY <3>1, <3>2
  <2> QED BY <2>1, <2>2, <2>3
<1>10. ASSUME stalls = 0, ~forced' PROVE Remembered' /\ FoundOnce'
  <2>1. \A d \in Conn : found[d] => hello[d] \in kept \/ GetEpochHour > Epoch[hello[d]] + 1
    BY <1>10, ForgottenIsExpired
  <2>2. Remembered'
    <3> SUFFICES ASSUME NEW d \in Conn, found'[d]
                 PROVE  hello[d] \in kept \cup {h} \/ GetEpochHour > Epoch[hello[d]] + 1
      BY <1>0 DEF Remembered, GetEpochHour
    <3> QED BY <1>2, <2>1
  <2>3. FoundOnce'
    <3>1. FoundOnce BY <1>0, <1>10 DEF IInv
    <3>2. ASSUME NEW d \in Conn \ {c}, hello[d] = h, found[d] PROVE ~found'[c]
      <4>1. h \in kept
        BY <1>8, <1>10, <2>1, <3>2
      <4> QED BY <1>1, <1>8, <1>10, <4>1
    <3> SUFFICES ASSUME NEW a \in Conn, NEW b \in Conn, a # b, hello[a] = hello[b],
                        found'[a], found'[b]
                 PROVE  FALSE
      BY <1>0 DEF FoundOnce
    <3>3. CASE a = c BY <1>2, <3>2, <3>3
    <3>4. CASE b = c BY <1>2, <3>2, <3>4
    <3>5. CASE a # c /\ b # c BY <1>2, <3>1, <3>5 DEF FoundOnce
    <3> QED BY <3>3, <3>4, <3>5
  <2> QED BY <2>2, <2>3
<1> QED BY <1>0, <1>4, <1>5, <1>6, <1>7, <1>9, <1>10 DEF IInv

-----------------------------------------------------------------------------
(* The theorems. *)

\* Every step keeps the invariant.
LEMMA NextHolds == IInv /\ [Next]_vars => IInv'
<1> SUFFICES ASSUME IInv, [Next]_vars PROVE IInv'
  OBVIOUS
<1>1. CASE Tick BY <1>1, TickKeeps
<1>2. ASSUME NEW c \in Conn, Handle(c) PROVE IInv'
  <2>1. ASSUME NEW h \in Hello, ReadHello(c, h) PROVE IInv' BY <2>1, ReadHelloKeeps
  <2>2. CASE CompareMac(c) BY <2>2, CompareMacKeeps
  <2>3. CASE TakeStamp(c) BY <2>3, TakeStampKeeps
  <2>4. CASE TestHello(c) BY <2>4, TestHelloKeeps
  <2>5. CASE ReadTooMuch(c) \/ ReadFail(c) \/ Verdict(c) \/ SetKeys(c) \/ Respond(c) \/ Linger(c)
    <3>1. Quiet(c)
      BY <2>5 DEF ReadTooMuch, ReadFail, Verdict, SetKeys, Respond, Linger, Fail, Quiet, Result,
                  msgVars, loopVars, retVars, filterVars
    <3> QED BY <3>1, QuietKeeps
  <2> QED BY <1>2, <2>1, <2>2, <2>3, <2>4, <2>5 DEF Handle
<1>3. CASE UNCHANGED vars
  <2>1. UNCHANGED <<clock, pc, hello, iter, stamp, found, res, filter, fifo, stalls, forced>>
    BY <1>3 DEF vars
  <2> QED BY <2>1 DEF IInv, TypeOK, FilterInStep, Filter!MapMatchesList, ReadFirst, Evaluating,
               Sources, ComesFrom, OneMatch, OneMatchAt, Matches, GetEpochHour, Dated,
               ReplayedOnlyIfSeen, Remembered, FoundOnce
<1> QED BY <1>1, <1>2, <1>3 DEF Next

\* The invariant always holds.
LEMMA IInvAlways == Spec => []IInv
<1>1. Init => IInv BY InitHolds
<1>2. IInv /\ [Next]_vars => IInv' BY NextHolds
<1> QED BY <1>1, <1>2, PTL DEF Spec

\* The map and the list of the replay filter hold the same messages, each once, whatever the
\* times with which TestAndSet is called, the capacity and the connections.
THEOREM FilterMatches == Spec => []FilterInStep
<1>1. IInv => FilterInStep BY DEF IInv
<1> QED BY <1>1, IInvAlways, PTL

\* While no tick falls into an evaluation, a message is refused as a replay only if another
\* connection showed it before.
THEOREM HonestNotRefused == Spec => []RefusedOnlyIfSeen
<1>1. IInv => RefusedOnlyIfSeen BY DEF IInv, TypeOK, RefusedOnlyIfSeen
<1> QED BY <1>1, IInvAlways, PTL

\* While no tick falls into an evaluation and the filter gave up no entry for lack of room,
\* no message gets past the filter twice: three hours are enough for a MAC that is tried for
\* the current hour and its neighbours.
THEOREM ReplayRefused == Spec => []AcceptedOnceUnlessForgotten
<1>1. IInv => AcceptedOnceUnlessForgotten
  <2> SUFFICES ASSUME IInv, stalls = 0, ~forced PROVE AcceptedOnce
    BY DEF AcceptedOnceUnlessForgotten, IInv, TypeOK
  <2> QED BY DEF IInv, FoundOnce, AcceptedOnce, Passed
<1> QED BY <1>1, IInvAlways, PTL
=============================================================================
