---------------------------- MODULE QueueProofs ----------------------------
(***************************************************************************)
(* Lemmas about Queues: what appending a packet to a queue and taking one  *)
(* from it does to the segments it carries and to the state it announces.  *)
(* P is the set of packets of the connection.                              *)
(***************************************************************************)
EXTENDS Queues, TLAPS, SequenceTheorems, FiniteSetTheorems, FunctionTheorems

\* The first packet of a queue is a packet, the rest a shorter queue.
LEMMA HeadTailTypes ==
  ASSUME NEW S, NEW q \in Seq(S), q # <<>>
  PROVE  Head(q) \in S /\ Tail(q) \in Seq(S) /\ Len(Tail(q)) = Len(q) - 1 /\ Len(q) > 0
  BY HeadTailProperties, EmptySeq

\* An appended packet comes last, after what was there before.
LEMMA AppendAt ==
  ASSUME NEW S, NEW q \in Seq(S), NEW e \in S
  PROVE  /\ Append(q, e) \in Seq(S) /\ Len(q) \in Nat
         /\ Len(Append(q, e)) = Len(q) + 1
         /\ \A i \in 1..Len(q) : Append(q, e)[i] = q[i] /\ q[i] \in S
         /\ Append(q, e)[Len(q) + 1] = e
  BY AppendProperties, LenProperties, ElementOfSeq

\* The packets left after the first move up by one.
LEMMA TailAt ==
  ASSUME NEW S, NEW q \in Seq(S), q # <<>>
  PROVE  /\ Tail(q) \in Seq(S) /\ Len(q) \in Nat /\ Len(q) > 0
         /\ Len(Tail(q)) = Len(q) - 1
         /\ \A i \in 1..Len(Tail(q)) : i + 1 \in 1..Len(q) /\ Tail(q)[i] = q[i + 1]
         /\ Head(q) = q[1] /\ Head(q) \in S
         /\ \A i \in 1..Len(q) : q[i] \in S
  BY HeadTailProperties, EmptySeq, LenProperties, ElementOfSeq

\* A queue is its first packet followed by the rest.
LEMMA SplitFirst ==
  ASSUME NEW S, NEW q \in Seq(S), q # <<>>
  PROVE  /\ <<Head(q)>> \in Seq(S) /\ Tail(q) \in Seq(S)
         /\ q = <<Head(q)>> \o Tail(q)
<1> DEFINE h == <<Head(q)>>
           r == h \o Tail(q)
<1>1. /\ Tail(q) \in Seq(S) /\ Len(Tail(q)) = Len(q) - 1 /\ Len(q) \in Nat /\ Len(q) > 0
      /\ \A i \in 1..Len(Tail(q)) : Tail(q)[i] = q[i + 1]
      /\ Head(q) = q[1] /\ Head(q) \in S
  BY TailAt
<1>2. h \in Seq(S) /\ Len(h) = 1 /\ h[1] = Head(q)
  BY <1>1
<1> HIDE DEF h
<1>3. /\ r \in Seq(S) /\ Len(r) = Len(q)
      /\ \A i \in 1..Len(q) : r[i] = IF i <= 1 THEN h[i] ELSE Tail(q)[i - 1]
  <2>1. /\ r \in Seq(S) /\ Len(r) = Len(h) + Len(Tail(q))
        /\ \A i \in 1..(Len(h) + Len(Tail(q))) :
             r[i] = IF i <= Len(h) THEN h[i] ELSE Tail(q)[i - Len(h)]
    <3> DEFINE t == Tail(q)
    <3>1. h \in Seq(S) /\ t \in Seq(S) BY <1>1, <1>2
    <3> HIDE DEF t
    <3>2. /\ h \o t \in Seq(S) /\ Len(h \o t) = Len(h) + Len(t)
          /\ \A i \in 1..(Len(h) + Len(t)) :
               (h \o t)[i] = IF i <= Len(h) THEN h[i] ELSE t[i - Len(h)]
      BY <3>1, ConcatProperties
    <3> QED BY <3>2 DEF t
  <2>2. Len(h) + Len(Tail(q)) = Len(q)
    BY <1>1, <1>2
  <2> QED BY <1>2, <2>1, <2>2
<1> HIDE DEF r
<1>4. ASSUME NEW i \in 1..Len(q) PROVE r[i] = q[i]
  <2>1. CASE i = 1 BY <1>1, <1>2, <1>3, <2>1
  <2>2. CASE i # 1
    <3>1. i - 1 \in 1..Len(Tail(q)) /\ i - 1 + 1 = i BY <1>1, <2>2
    <3> QED BY <1>1, <1>3, <2>2, <3>1
  <2> QED BY <2>1, <2>2
<1>5. r = q
  BY <1>3, <1>4, SeqEqual
<1> QED BY <1>1, <1>2, <1>5 DEF r, h

\* Taking the first packet of two queues in a row takes it from the first of them.
LEMMA ConcatFirst ==
  ASSUME NEW S, NEW q \in Seq(S), NEW u \in Seq(S), q # <<>>
  PROVE  /\ q \o u # <<>> /\ Head(q \o u) = Head(q)
         /\ Tail(q \o u) = Tail(q) \o u
<1> DEFINE r == q \o u
           v == Tail(q) \o u
<1>1. /\ Tail(q) \in Seq(S) /\ Len(Tail(q)) = Len(q) - 1 /\ Len(q) \in Nat /\ Len(q) > 0
      /\ \A i \in 1..Len(Tail(q)) : Tail(q)[i] = q[i + 1]
      /\ Head(q) = q[1] /\ Len(u) \in Nat
  BY TailAt, LenProperties
<1>2. /\ r \in Seq(S) /\ Len(r) = Len(q) + Len(u)
      /\ \A i \in 1..(Len(q) + Len(u)) : r[i] = IF i <= Len(q) THEN q[i] ELSE u[i - Len(q)]
  BY ConcatProperties
<1>3. /\ v \in Seq(S) /\ Len(v) = Len(Tail(q)) + Len(u)
      /\ \A i \in 1..(Len(Tail(q)) + Len(u)) :
           v[i] = IF i <= Len(Tail(q)) THEN Tail(q)[i] ELSE u[i - Len(Tail(q))]
  BY <1>1, ConcatProperties
<1> HIDE DEF r, v
<1>4. r # <<>>
  <2>1. Len(r) # 0 /\ Len(<<>>) = 0 BY <1>1, <1>2
  <2> QED BY <2>1
<1>5. /\ Head(r) = r[1] /\ Tail(r) \in Seq(S) /\ Len(Tail(r)) = Len(r) - 1
      /\ \A i \in 1..Len(Tail(r)) : Tail(r)[i] = r[i + 1]
  BY <1>2, <1>4, TailAt
<1>6. Head(r) = Head(q)
  BY <1>1, <1>2, <1>5
<1>7. ASSUME NEW i \in 1..Len(Tail(r)) PROVE Tail(r)[i] = v[i]
  <2>1. i + 1 \in 1..(Len(q) + Len(u)) /\ i \in 1..(Len(Tail(q)) + Len(u))
    BY <1>1, <1>2, <1>5
  <2>2. CASE i <= Len(Tail(q))
    BY <1>1, <1>2, <1>3, <1>5, <2>1, <2>2
  <2>3. CASE ~(i <= Len(Tail(q)))
    <3>1. i + 1 - Len(q) = i - Len(Tail(q)) /\ ~(i + 1 <= Len(q))
      BY <1>1, <2>3
    <3> QED BY <1>2, <1>3, <1>5, <2>1, <2>3, <3>1, SMTT(20)
  <2> QED BY <2>2, <2>3
<1>8. Len(Tail(r)) = Len(v)
  BY <1>1, <1>2, <1>3, <1>5
<1>9. Tail(r) = v
  BY <1>3, <1>5, <1>7, <1>8, SeqEqual
<1> QED BY <1>4, <1>6, <1>9 DEF r, v

-----------------------------------------------------------------------------
(* The segments a queue carries.                                           *)

\* The packets of P have segment numbers (in payload packets they mean something).
Numbered(P) == \A p \in P : p.seg \in Nat

\* An empty queue carries nothing.
LEMMA CarriesEmpty ==
  ASSUME NEW lo \in Nat, NEW hi \in Nat
  PROVE  Carries(<<>>, lo, hi) <=> lo = hi
  BY DEF Carries

\* A queue of one packet carries its segment, or nothing if it is no payload packet.
LEMMA CarriesOne ==
  ASSUME NEW n \in Nat, NEW e
  PROVE  /\ e.type = "Payload" /\ e.seg = n + 1 => Carries(<<e>>, n, n + 1)
         /\ e.type # "Payload" => Carries(<<e>>, n, n)
<1>1. ASSUME e.type = "Payload", e.seg = n + 1 PROVE Carries(<<e>>, n, n + 1)
  BY <1>1 DEF Carries
<1>2. ASSUME e.type # "Payload" PROVE Carries(<<e>>, n, n)
  BY <1>2 DEF Carries
<1> QED BY <1>1, <1>2

\* Appending the next segment extends the stretch a queue carries.
LEMMA CarriesNext ==
  ASSUME NEW P, Numbered(P),
         NEW q \in Seq(P), NEW lo \in Nat, NEW hi \in Nat, Carries(q, lo, hi),
         NEW e \in P, e.type = "Payload", e.seg = hi + 1
  PROVE  Carries(Append(q, e), lo, hi + 1)
<1> DEFINE r == Append(q, e)
<1>1. /\ Len(r) = Len(q) + 1 /\ Len(q) \in Nat
      /\ \A i \in 1..Len(q) : r[i] = q[i] /\ q[i] \in P
      /\ r[Len(q) + 1] = e
  BY AppendAt
<1>3. \A i \in 1..Len(q) : q[i].seg \in Nat
  BY <1>1 DEF Numbered
<1> HIDE DEF r
<1>0. lo <= hi + 1
  BY DEF Carries
<1>4. ASSUME NEW i \in 1..Len(r), r[i].type = "Payload"
      PROVE  lo < r[i].seg /\ r[i].seg <= hi + 1
  <2>1. CASE i = Len(q) + 1 BY <1>0, <1>1, <2>1 DEF Carries
  <2>2. CASE i \in 1..Len(q)
    <3>1. lo < q[i].seg /\ q[i].seg <= hi
      BY <1>1, <1>4, <2>2 DEF Carries
    <3> QED BY <1>1, <1>3, <2>2, <3>1
  <2> QED BY <1>1, <2>1, <2>2
<1>5. \A i, j \in 1..Len(r) :
        i < j /\ r[i].type = "Payload" /\ r[j].type = "Payload" => r[i].seg < r[j].seg
  <2> SUFFICES ASSUME NEW i \in 1..Len(r), NEW j \in 1..Len(r), i < j,
                      r[i].type = "Payload", r[j].type = "Payload"
               PROVE  r[i].seg < r[j].seg
    OBVIOUS
  <2>0. i \in 1..Len(q) /\ r[i] = q[i] BY <1>1
  <2>1. CASE j = Len(q) + 1
    <3>1. q[i].seg <= hi BY <2>0 DEF Carries
    <3> QED BY <1>1, <1>3, <2>0, <2>1, <3>1
  <2>2. CASE j \in 1..Len(q)
    BY <1>1, <2>0, <2>2 DEF Carries
  <2> QED BY <1>1, <2>1, <2>2
<1>6. ASSUME NEW n \in (lo + 1)..(hi + 1)
      PROVE  \E i \in 1..Len(r) : r[i].type = "Payload" /\ r[i].seg = n
  <2>1. CASE n = hi + 1 BY <1>1, <2>1
  <2>2. CASE n # hi + 1
    <3>0. n \in (lo + 1)..hi
      BY <2>2
    <3>1. PICK i \in 1..Len(q) : q[i].type = "Payload" /\ q[i].seg = n
      BY <3>0 DEF Carries
    <3> QED BY <1>1, <3>1
  <2> QED BY <2>1, <2>2
<1>7. Carries(r, lo, hi + 1)
  BY <1>0, <1>4, <1>5, <1>6 DEF Carries
<1> QED BY <1>7 DEF r

\* Appending a packet without payload changes nothing.
LEMMA CarriesSignal ==
  ASSUME NEW P, NEW q \in Seq(P), NEW lo \in Nat, NEW hi \in Nat, Carries(q, lo, hi),
         NEW e \in P, e.type # "Payload"
  PROVE  Carries(Append(q, e), lo, hi)
<1> DEFINE r == Append(q, e)
<1>1. /\ Len(r) = Len(q) + 1 /\ Len(q) \in Nat
      /\ \A i \in 1..Len(q) : r[i] = q[i]
      /\ r[Len(q) + 1] = e
  BY AppendAt
<1> HIDE DEF r
<1>2. \A i \in 1..Len(r) : r[i].type = "Payload" => i \in 1..Len(q) /\ r[i] = q[i]
  BY <1>1
<1>3. \A n \in (lo + 1)..hi : \E i \in 1..Len(r) : r[i].type = "Payload" /\ r[i].seg = n
  BY <1>1 DEF Carries
<1> QED BY <1>2, <1>3 DEF Carries, r

\* The first payload packet of a queue is the first segment it carries.
LEMMA CarriesHead ==
  ASSUME NEW P, Numbered(P),
         NEW q \in Seq(P), NEW lo \in Nat, NEW hi \in Nat, Carries(q, lo, hi),
         q # <<>>, Head(q).type = "Payload"
  PROVE  /\ Head(q).seg = lo + 1 /\ lo + 1 <= hi
         /\ Carries(Tail(q), lo + 1, hi)
<1> DEFINE r == Tail(q)
<1>1. /\ Len(r) = Len(q) - 1 /\ Len(q) \in Nat /\ Len(q) > 0
      /\ \A i \in 1..Len(r) : r[i] = q[i + 1]
      /\ Head(q) = q[1]
      /\ \A i \in 1..Len(q) : q[i] \in P
  BY TailAt
<1>2. \A i \in 1..Len(q) : q[i].seg \in Nat
  BY <1>1 DEF Numbered
<1> HIDE DEF r
<1>3. lo < q[1].seg /\ q[1].seg <= hi
  <2>1. 1 \in 1..Len(q) /\ q[1].type = "Payload"
    BY <1>1
  <2> QED BY <2>1 DEF Carries
<1>4. q[1].seg = lo + 1
  <2>1. PICK i \in 1..Len(q) : q[i].type = "Payload" /\ q[i].seg = lo + 1
    <3>1. lo + 1 \in (lo + 1)..hi
      BY <1>1, <1>2, <1>3
    <3> QED BY <3>1 DEF Carries
  <2>2. i # 1 => q[1].seg < lo + 1
    BY <1>1, <2>1 DEF Carries
  <2> QED BY <1>1, <1>2, <1>3, <2>1, <2>2
<1>6. \A i \in 1..Len(r) : r[i].type = "Payload" => lo + 1 < r[i].seg /\ r[i].seg <= hi
  BY <1>1, <1>2, <1>4, SMTT(20) DEF Carries
<1>7. \A i, j \in 1..Len(r) :
        i < j /\ r[i].type = "Payload" /\ r[j].type = "Payload" => r[i].seg < r[j].seg
  BY <1>1 DEF Carries
<1>8. ASSUME NEW n \in (lo + 2)..hi
      PROVE  \E i \in 1..Len(r) : r[i].type = "Payload" /\ r[i].seg = n
  <2>1. PICK i \in 1..Len(q) : q[i].type = "Payload" /\ q[i].seg = n
    BY DEF Carries
  <2>2. i # 1 BY <1>4, <2>1
  <2>3. i - 1 \in 1..Len(r) /\ r[i - 1] = q[i]
    BY <1>1, <2>2
  <2> QED BY <2>1, <2>3
<1> QED BY <1>1, <1>3, <1>4, <1>6, <1>7, <1>8 DEF Carries, r

\* A packet without payload at the head carries nothing.
LEMMA CarriesSkip ==
  ASSUME NEW P, NEW q \in Seq(P), NEW lo \in Nat, NEW hi \in Nat, Carries(q, lo, hi),
         q # <<>>, Head(q).type # "Payload"
  PROVE  Carries(Tail(q), lo, hi)
<1> DEFINE r == Tail(q)
<1>1. /\ Len(r) = Len(q) - 1 /\ Len(q) \in Nat /\ Len(q) > 0
      /\ \A i \in 1..Len(r) : r[i] = q[i + 1]
      /\ Head(q) = q[1]
  BY TailAt
<1> HIDE DEF r
<1>2. \A i \in 1..Len(r) : i + 1 \in 1..Len(q) /\ r[i] = q[i + 1]
  BY <1>1
<1>3. ASSUME NEW n \in (lo + 1)..hi
      PROVE  \E i \in 1..Len(r) : r[i].type = "Payload" /\ r[i].seg = n
  <2>1. PICK i \in 1..Len(q) : q[i].type = "Payload" /\ q[i].seg = n
    BY DEF Carries
  <2>2. i - 1 \in 1..Len(r) /\ r[i - 1] = q[i]
    BY <1>1, <2>1
  <2> QED BY <2>1, <2>2
<1> QED BY <1>2, <1>3, SMTT(20) DEF Carries, r

-----------------------------------------------------------------------------
(* The state a queue announces.                                            *)

\* A queue without signals stays one when another packet comes.
LEMMA NoSignalAppend ==
  ASSUME NEW P, NEW on, NEW off, NEW q \in Seq(P), NoSignal(q, on, off),
         NEW e \in P, e \notin {on, off}
  PROVE  NoSignal(Append(q, e), on, off)
<1> DEFINE r == Append(q, e)
<1>1. /\ Len(r) = Len(q) + 1 /\ Len(q) \in Nat /\ r[Len(q) + 1] = e
      /\ \A i \in 1..Len(q) : r[i] = q[i]
  BY AppendAt
<1> HIDE DEF r
<1>2. NoSignal(r, on, off)
  BY <1>1 DEF NoSignal
<1> QED BY <1>2 DEF r

\* A queue without signals gives none and stays one.
LEMMA NoSignalTaken ==
  ASSUME NEW P, NEW on, NEW off, NEW q \in Seq(P), NoSignal(q, on, off), q # <<>>
  PROVE  NoSignal(Tail(q), on, off) /\ Head(q) \notin {on, off}
<1> DEFINE r == Tail(q)
<1>1. /\ Len(q) \in Nat /\ Len(q) > 0 /\ Head(q) = q[1]
      /\ \A i \in 1..Len(r) : i + 1 \in 1..Len(q) /\ r[i] = q[i + 1]
  BY TailAt
<1> HIDE DEF r
<1>2. NoSignal(r, on, off) /\ q[1] \notin {on, off}
  BY <1>1 DEF NoSignal
<1> QED BY <1>1, <1>2 DEF r

\* An empty queue announces that nothing changes.
LEMMA AnnouncesEmpty ==
  ASSUME NEW on, NEW off, NEW was \in BOOLEAN, NEW is \in BOOLEAN, was <=> is
  PROVE  Announces(<<>>, on, off, was, is)
  BY DEF Announces

\* An appended signal is the announcement of the state it stands for.
LEMMA AnnouncesSignal ==
  ASSUME NEW P, NEW on, NEW off, NEW q \in Seq(P), NEW e \in P, e \in {on, off},
         NEW was \in BOOLEAN, NEW is \in BOOLEAN, is <=> e = on
  PROVE  Announces(Append(q, e), on, off, was, is)
<1> DEFINE r == Append(q, e)
<1>1. /\ Len(r) = Len(q) + 1 /\ Len(q) \in Nat /\ r[Len(q) + 1] = e
  BY AppendAt
<1> HIDE DEF r
<1>2. ~NoSignal(r, on, off)
  BY <1>1 DEF NoSignal
<1>3. ASSUME NEW i \in 1..Len(r), \A j \in (i + 1)..Len(r) : r[j] \notin {on, off}
      PROVE  i = Len(q) + 1
  <2>1. Len(q) + 1 \notin (i + 1)..Len(r) BY <1>1, <1>3
  <2> QED BY <1>1, <2>1
<1>4. Announces(r, on, off, was, is)
  BY <1>1, <1>2, <1>3 DEF Announces
<1> QED BY <1>4 DEF r

\* Any other packet leaves the announcement as it is.
LEMMA AnnouncesOther ==
  ASSUME NEW P, NEW on, NEW off, NEW q \in Seq(P), NEW e \in P, e \notin {on, off},
         NEW was \in BOOLEAN, NEW is \in BOOLEAN, Announces(q, on, off, was, is)
  PROVE  Announces(Append(q, e), on, off, was, is)
<1> DEFINE r == Append(q, e)
<1>1. /\ Len(r) = Len(q) + 1 /\ Len(q) \in Nat /\ r[Len(q) + 1] = e
      /\ \A i \in 1..Len(q) : r[i] = q[i]
  BY AppendAt
<1> HIDE DEF r
<1>2. NoSignal(r, on, off) => NoSignal(q, on, off)
  BY <1>1 DEF NoSignal
<1>3. ASSUME NEW i \in 1..Len(r), r[i] \in {on, off},
             \A j \in (i + 1)..Len(r) : r[j] \notin {on, off}
      PROVE  is <=> r[i] = on
  <2>1. i \in 1..Len(q) /\ r[i] = q[i]
    BY <1>1, <1>3
  <2>2. \A j \in (i + 1)..Len(q) : q[j] \notin {on, off}
    BY <1>1, <1>3
  <2> QED BY <1>3, <2>1, <2>2 DEF Announces
<1>4. Announces(r, on, off, was, is)
  BY <1>2, <1>3 DEF Announces
<1> QED BY <1>4 DEF r

\* Whoever takes the first packet and follows it if it is a signal is still told the same.
LEMMA AnnouncesTaken ==
  ASSUME NEW P, NEW on, NEW off, NEW q \in Seq(P), q # <<>>,
         NEW was \in BOOLEAN, NEW is \in BOOLEAN, NEW then \in BOOLEAN,
         Announces(q, on, off, was, is),
         Head(q) \in {on, off} => (then <=> Head(q) = on),
         Head(q) \notin {on, off} => (then <=> was)
  PROVE  Announces(Tail(q), on, off, then, is)
<1> DEFINE r == Tail(q)
<1>1. /\ Len(r) = Len(q) - 1 /\ Len(q) \in Nat /\ Len(q) > 0 /\ Head(q) = q[1]
      /\ \A i \in 1..Len(r) : i + 1 \in 1..Len(q) /\ r[i] = q[i + 1]
  BY TailAt
<1> HIDE DEF r
<1>2. ASSUME NoSignal(r, on, off) PROVE then <=> is
  <2>1. \A i \in 2..Len(q) : q[i] \notin {on, off}
    <3> TAKE i \in 2..Len(q)
    <3>1. i - 1 \in 1..Len(r) /\ r[i - 1] = q[i]
      BY <1>1
    <3> QED BY <1>2, <3>1 DEF NoSignal
  <2>2. CASE q[1] \in {on, off}
    BY <1>1, <2>1, <2>2 DEF Announces
  <2>3. CASE q[1] \notin {on, off}
    <3>1. NoSignal(q, on, off)
      BY <1>1, <2>1, <2>3 DEF NoSignal
    <3> QED BY <1>1, <2>3, <3>1 DEF Announces
  <2> QED BY <2>2, <2>3
<1>3. ASSUME NEW i \in 1..Len(r), r[i] \in {on, off},
             \A j \in (i + 1)..Len(r) : r[j] \notin {on, off}
      PROVE  is <=> r[i] = on
  <2>1. i + 1 \in 1..Len(q) /\ r[i] = q[i + 1]
    BY <1>1
  <2>2. \A j \in ((i + 1) + 1)..Len(q) : q[j] \notin {on, off}
    <3> TAKE j \in ((i + 1) + 1)..Len(q)
    <3>1. j - 1 \in (i + 1)..Len(r) /\ j - 1 \in 1..Len(r) /\ r[j - 1] = q[j]
      BY <1>1
    <3> QED BY <1>3, <3>1
  <2> QED BY <1>3, <2>1, <2>2 DEF Announces
<1>4. Announces(r, on, off, then, is)
  BY <1>2, <1>3 DEF Announces
<1> QED BY <1>4 DEF r

-----------------------------------------------------------------------------
(* Counting packets. *)

\* The places of the packets of q that are in S.
Places(q, S) == {i \in 1..Len(q) : q[i] \in S}

\* A queue has finitely many places.
LEMMA PlacesFinite ==
  ASSUME NEW T, NEW q \in Seq(T), NEW S
  PROVE  IsFiniteSet(Places(q, S)) /\ Cardinality(Places(q, S)) \in Nat
<1>1. IsFiniteSet(1..Len(q)) BY FS_Interval
<1>2. Places(q, S) \in SUBSET (1..Len(q)) BY DEF Places
<1>3. IsFiniteSet(Places(q, S)) BY <1>1, <1>2, FS_Subset
<1> QED BY <1>3, FS_CardinalityType

\* A count is a natural number.
LEMMA OccurrencesType ==
  ASSUME NEW T, NEW q \in Seq(T), NEW S
  PROVE  Occurrences(q, S) \in Nat
  BY PlacesFinite DEF Occurrences, Places

\* A queue without a packet of S counts none, and the other way round.
LEMMA OccurrencesNone ==
  ASSUME NEW T, NEW q \in Seq(T), NEW S
  PROVE  Occurrences(q, S) = 0 <=> \A i \in 1..Len(q) : q[i] \notin S
<1>1. Places(q, S) = {} <=> \A i \in 1..Len(q) : q[i] \notin S BY DEF Places
<1>2. Occurrences(q, S) = Cardinality(Places(q, S)) BY DEF Occurrences, Places
<1>3. IsFiniteSet(Places(q, S)) BY PlacesFinite
<1> QED BY <1>1, <1>2, <1>3, FS_EmptySet

\* There are n numbers from 1 to n.
LEMMA UpTo == ASSUME NEW n \in Nat PROVE Cardinality(1..n) = n
<1>1. \A a, b \in Int : Cardinality(a..b) = IF a > b THEN 0 ELSE b - a + 1 BY FS_Interval
<1>2. 1 \in Int /\ n \in Int OBVIOUS
<1>3. Cardinality(1..n) = IF 1 > n THEN 0 ELSE n - 1 + 1 BY <1>1, <1>2, Zenon
<1>4. (IF 1 > n THEN 0 ELSE n - 1 + 1) = n OBVIOUS
<1> QED BY <1>3, <1>4

\* A queue of packets of S alone counts all of them.
LEMMA OccurrencesAll ==
  ASSUME NEW T, NEW q \in Seq(T), NEW S, \A i \in 1..Len(q) : q[i] \in S
  PROVE  Occurrences(q, S) = Len(q)
<1>1. Places(q, S) = 1..Len(q) BY DEF Places
<1>2. Occurrences(q, S) = Cardinality(1..Len(q)) BY <1>1 DEF Occurrences, Places
<1>3. Len(q) \in Nat BY LenProperties
<1>4. Cardinality(1..Len(q)) = Len(q) BY <1>3, UpTo
<1> QED BY <1>2, <1>4

\* The empty queue counts nothing.
LEMMA OccurrencesEmpty ==
  ASSUME NEW S PROVE Occurrences(<<>>, S) = 0
<1>1. <<>> \in Seq({}) /\ Len(<<>>) = 0 OBVIOUS
<1>2. \A i \in 1..Len(<<>>) : <<>>[i] \notin S BY <1>1
<1> QED BY <1>1, <1>2, OccurrencesNone

\* One packet counts once if it is in S.
LEMMA OccurrencesOne ==
  ASSUME NEW T, NEW p \in T, NEW S
  PROVE  Occurrences(<<p>>, S) = IF p \in S THEN 1 ELSE 0
<1>1. <<p>> \in Seq(T) /\ Len(<<p>>) = 1 /\ \A i \in 1..Len(<<p>>) : <<p>>[i] = p OBVIOUS
<1>2. CASE p \in S BY <1>1, <1>2, OccurrencesAll
<1>3. CASE p \notin S
  <2>1. \A i \in 1..Len(<<p>>) : <<p>>[i] \notin S BY <1>1, <1>3
  <2>2. Occurrences(<<p>>, S) = 0 BY <1>1, <2>1, OccurrencesNone
  <2> QED BY <1>3, <2>2
<1> QED BY <1>2, <1>3

\* The counts of two queues add up.
LEMMA OccurrencesConcat ==
  ASSUME NEW T, NEW q \in Seq(T), NEW r \in Seq(T), NEW S
  PROVE  Occurrences(q \o r, S) = Occurrences(q, S) + Occurrences(r, S)
<1> DEFINE n == Len(q)
           P == Places(q, S)
           R == Places(r, S)
           M == {i + n : i \in R}
<1>1. /\ n \in Nat /\ Len(r) \in Nat /\ Len(q \o r) = n + Len(r)
      /\ \A i \in 1..n : (q \o r)[i] = q[i]
      /\ \A i \in 1..Len(r) : (q \o r)[i + n] = r[i]
  BY ConcatProperties, LenProperties
<1> HIDE DEF n
<1>2. Places(q \o r, S) = P \cup M
  <2>1. ASSUME NEW i \in Places(q \o r, S) PROVE i \in P \cup M
    <3>1. i \in 1..(n + Len(r)) /\ (q \o r)[i] \in S BY <1>1, <2>1 DEF Places
    <3>2. CASE i <= n BY <1>1, <3>1, <3>2 DEF Places, n
    <3>3. CASE i > n
      <4>1. i - n \in 1..Len(r) /\ (i - n) + n = i BY <1>1, <3>1, <3>3
      <4>2. i - n \in R BY <1>1, <3>1, <4>1 DEF Places
      <4> QED BY <4>1, <4>2
    <3> QED BY <1>1, <3>1, <3>2, <3>3
  <2>2. ASSUME NEW i \in P PROVE i \in Places(q \o r, S)
    BY <1>1, <2>2 DEF Places, n
  <2>3. ASSUME NEW i \in R PROVE i + n \in Places(q \o r, S)
    BY <1>1, <2>3 DEF Places
  <2> QED BY <2>1, <2>2, <2>3
<1>3. P \cap M = {} BY <1>1 DEF Places, n
<1>4. IsFiniteSet(M) /\ Cardinality(M) = Cardinality(R)
  <2> DEFINE f == [i \in R |-> i + n]
  <2>0. /\ R \subseteq Nat /\ f \in [R -> M]
        /\ \A i \in R : f[i] = i + n
        /\ \A t \in M : \E i \in R : f[i] = t
    BY <1>1 DEF Places
  <2> HIDE DEF f, R, M
  <2>1. f \in Bijection(R, M)
    <3>1. \A i, j \in R : f[i] = f[j] => i = j BY <1>1, <2>0
    <3>2. IsInjective(f) BY <2>0, <3>1 DEF IsInjective
    <3> QED BY <2>0, <3>2 DEF Bijection, Injection, Surjection
  <2>2. ExistsBijection(R, M) BY <2>1 DEF ExistsBijection
  <2>3. IsFiniteSet(R) BY PlacesFinite DEF R
  <2> QED BY <2>2, <2>3, FS_Bijection
<1>5. IsFiniteSet(P) /\ IsFiniteSet(R) /\ Cardinality(P) \in Nat /\ Cardinality(R) \in Nat
  BY PlacesFinite
<1> HIDE DEF P, R, M
<1>6. Cardinality(P \cup M) = Cardinality(P) + Cardinality(R)
  <2>1. Cardinality(P \cup M) = Cardinality(P) + Cardinality(M) - Cardinality(P \cap M)
    BY <1>4, <1>5, FS_Union
  <2>2. Cardinality(P \cap M) = 0 BY <1>3, FS_EmptySet
  <2> QED BY <1>4, <1>5, <2>1, <2>2
<1>7. /\ Occurrences(q \o r, S) = Cardinality(Places(q \o r, S))
      /\ Occurrences(q, S) = Cardinality(P) /\ Occurrences(r, S) = Cardinality(R)
  BY DEF Occurrences, Places, P, R
<1> QED BY <1>2, <1>6, <1>7
=============================================================================
