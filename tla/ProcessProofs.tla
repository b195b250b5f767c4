--------------------------- MODULE ProcessProofs ---------------------------
(***************************************************************************)
(* Proofs about the process and the parts that stand alone.  Proxy: the    *)
(* termination monitor's count is right, and a process that ends as idle   *)
(* cuts off no registered handler, for any number of transports,           *)
(* connections and signals.  Parts: no session ticket of ScrambleSuit is   *)
(* sent twice, a bridge keeps its identity, no nonce of obfs4 is used      *)
(* twice, and the handshake over ntor ends in equal keys and refuses only  *)
(* clients whose clock is wrong.                                           *)
(***************************************************************************)
EXTENDS Proxy, Parts, FiniteSetTheorems, TLAPS

(* The proxy process. *)

\* Every variable keeps its type, num \in Nat apart: that needs the count.
Types ==
  /\ mpc \in {"setup", "select", "check", "close", "exited"}
  /\ graceful \in BOOLEAN /\ launched \in BOOLEAN
  /\ pending \subseteq Method /\ open \subseteq Method
  /\ hpc \in [Conn -> {"none", "starting", "running", "finishing", "gone"}]
  /\ watch \in {"watching", "telling", "gone"}
  /\ why \in {"none", "setup", "signal", "idle"}
  /\ nsig \in 0..MaxSignals

\* The inductive invariant: an idle process has exited, and from then on no handler
\* changes its state.
Inv == Types /\ CountMatches /\ IdleExit /\ (why = "idle" => mpc = "exited")

\* The registered handlers are finitely many.
LEMMA RegisteredFinite ==
  IsFiniteSet(Registered) /\ Cardinality(Registered) \in Nat
<1>1. Registered \subseteq Conn
  BY DEF Registered
<1>2. IsFiniteSet(Registered)
  BY <1>1, FS_Subset, ProxyAssumption
<1> QED
  BY <1>2, FS_CardinalityType

\* A handler that starts is one more registered handler.
LEMMA OneMore ==
  ASSUME Types, NEW c \in Conn, hpc[c] = "starting",
         hpc' = [hpc EXCEPT ![c] = "running"]
  PROVE  Cardinality(Registered') = Cardinality(Registered) + 1
<1>1. c \notin Registered
  BY DEF Registered
<1>2. Registered' = Registered \cup {c}
  BY DEF Registered, Types
<1> QED
  BY <1>1, <1>2, RegisteredFinite, FS_AddElement

\* A handler that signs off is one less.
LEMMA OneLess ==
  ASSUME Types, NEW c \in Conn, hpc[c] = "finishing",
         hpc' = [hpc EXCEPT ![c] = "gone"]
  PROVE  Cardinality(Registered') = Cardinality(Registered) - 1
<1>1. c \in Registered
  BY DEF Registered
<1>2. Registered' = Registered \ {c}
  BY DEF Registered, Types
<1> QED
  BY <1>1, <1>2, RegisteredFinite, FS_RemoveElement

\* Accepting a connection and returning from a handler's work register nobody.
LEMMA SameRegistered ==
  ASSUME Types, NEW c \in Conn, NEW t \in {"starting", "finishing"},
         hpc[c] = (IF t = "starting" THEN "none" ELSE "running"),
         hpc' = [hpc EXCEPT ![c] = t]
  PROVE  Registered' = Registered
BY DEF Registered, Types

LEMMA InitInv == Init => Inv
<1> SUFFICES ASSUME Init PROVE Inv
  OBVIOUS
<1>1. Types
  <2>1. nsig \in 0..MaxSignals
    BY ProxyAssumption DEF Init
  <2>2. hpc \in [Conn -> {"none", "starting", "running", "finishing", "gone"}]
    BY DEF Init
  <2>3. /\ mpc \in {"setup", "select", "check", "close", "exited"}
        /\ why \in {"none", "setup", "signal", "idle"}
        /\ watch \in {"watching", "telling", "gone"}
    BY DEF Init
  <2>4. graceful \in BOOLEAN /\ launched \in BOOLEAN
        /\ pending \subseteq Method /\ open \subseteq Method
    BY Zenon DEF Init
  <2> QED
    BY <2>1, <2>2, <2>3, <2>4 DEF Types
<1>2. Registered = {}
  BY DEF Init, Registered
<1>3. CountMatches
  BY <1>2, FS_EmptySet DEF Init, CountMatches
<1> QED
  BY <1>1, <1>3 DEF Init, Inv, IdleExit

\* Every step keeps the types.
LEMMA StepTypes == Types /\ [Next]_vars => Types'
<1> SUFFICES ASSUME Types, [Next]_vars PROVE Types'
  OBVIOUS
<1> USE ProxyAssumption DEF Types, setupVars, Exit, WaitReturns, SIGINT, SIGTERM
<1>1. CASE MainStep
  BY <1>1 DEF MainStep, SetupMethod, SetupDone, Check, CloseListeners
<1>2. CASE WatcherTells \/ ParentDies
  BY <1>2 DEF WatcherTells, ParentDies
<1>3. CASE \E c \in Conn : Accept(c) \/ Rendezvous(c) \/ HandlerReturn(c)
  BY <1>3 DEF Accept, Rendezvous, HandlerStart, HandlerFinish, HandlerReturn
<1>4. CASE \E m \in Method : AcceptFail(m)
  BY <1>4 DEF AcceptFail
<1>5. CASE \E s \in {SIGINT, SIGTERM} : Signal(s)
  BY <1>5 DEF Signal
<1>6. CASE UNCHANGED vars
  BY <1>6 DEF vars
<1> QED
  BY <1>1, <1>2, <1>3, <1>4, <1>5, <1>6 DEF Next

\* A step that changes neither the handlers nor the count keeps the invariant, if it
\* ends the process only for another reason than being idle, and only once.
LEMMA QuietStep ==
  ASSUME Inv, Types', UNCHANGED <<hpc, num>>,
         \/ UNCHANGED <<mpc, why>>
         \/ mpc # "exited" /\ (why' = why \/ why' \in {"setup", "signal"})
  PROVE  Inv'
<1>1. Registered' = Registered
  BY DEF Registered
<1> QED
  BY <1>1 DEF Inv, CountMatches, IdleExit

LEMMA StepInv == Inv /\ [Next]_vars => Inv'
<1> SUFFICES ASSUME Inv, [Next]_vars PROVE Inv'
  OBVIOUS
<1>0. Types /\ Types'
  BY StepTypes DEF Inv
<1>1. CASE \E m \in Method : SetupMethod(m) \/ AcceptFail(m)
  BY <1>0, <1>1, QuietStep DEF SetupMethod, AcceptFail
<1>2. CASE SetupDone \/ CloseListeners
  BY <1>0, <1>2, QuietStep DEF SetupDone, CloseListeners, Exit
<1>3. CASE Check
  <2>1. Registered' = Registered /\ num' = num
    BY <1>3 DEF Check, Registered
  <2>2. num = 0 => Registered = {}
    BY RegisteredFinite, FS_EmptySet DEF Inv, CountMatches
  <2> QED
    BY <1>0, <1>3, <2>1, <2>2 DEF Check, Exit, Inv, CountMatches, IdleExit
<1>4. CASE WatcherTells \/ ParentDies
  BY <1>0, <1>4, QuietStep DEF WatcherTells, ParentDies, WaitReturns, Exit
<1>5. CASE \E s \in {SIGINT, SIGTERM} : Signal(s)
  BY <1>0, <1>5, QuietStep DEF Signal, WaitReturns, Exit
<1>6. CASE \E c \in Conn : HandlerStart(c)
  <2> PICK c \in Conn : HandlerStart(c)
    BY <1>6
  <2>1. Cardinality(Registered') = Cardinality(Registered) + 1
    BY <1>0, OneMore DEF HandlerStart
  <2> QED
    BY <1>0, <2>1 DEF HandlerStart, Inv, CountMatches, IdleExit
<1>7. CASE \E c \in Conn : HandlerFinish(c)
  <2> PICK c \in Conn : HandlerFinish(c)
    BY <1>7
  <2>1. Cardinality(Registered') = Cardinality(Registered) - 1
    BY <1>0, OneLess DEF HandlerFinish
  <2> QED
    BY <1>0, <2>1 DEF HandlerFinish, Inv, CountMatches, IdleExit
<1>8. CASE \E c \in Conn : Accept(c) \/ HandlerReturn(c)
  <2> PICK c \in Conn : Accept(c) \/ HandlerReturn(c)
    BY <1>8
  <2>1. Registered' = Registered
    BY <1>0, SameRegistered DEF Accept, HandlerReturn
  <2> QED
    BY <1>0, <2>1 DEF Accept, HandlerReturn, Inv, CountMatches, IdleExit
<1>9. CASE UNCHANGED vars
  BY <1>0, <1>9, QuietStep DEF vars
<1> QED
  BY <1>1, <1>2, <1>3, <1>4, <1>5, <1>6, <1>7, <1>8, <1>9 DEF Next, MainStep, Rendezvous

\* numHandlers is the number of registered handlers, so it is never negative and every
\* variable keeps its type.
THEOREM CountRight == Spec => [](TypeOK /\ CountMatches)
<1>1. Inv => TypeOK /\ CountMatches
  BY RegisteredFinite DEF Inv, Types, TypeOK, CountMatches
<1> QED
  BY <1>1, InitInv, StepInv, PTL DEF Spec

\* termMonitor.wait ends an idle process only when no registered handler is left.
THEOREM IdleExitSafe == Spec => []IdleExit
<1>1. Inv => IdleExit
  BY DEF Inv
<1> QED
  BY <1>1, InitInv, StepInv, PTL DEF Spec

-----------------------------------------------------------------------------
(* The session tickets: which = "tickets". *)

TicketsFields == {"up", "store", "file", "lock", "conns", "now", "issued", "crashes", "errors", "sent"}
PC == {"dial", "remove", "send", "store", "udh", "up", "failed"}

\* Where a connection holds a ticket that it may still send.
Holding == {"remove", "send"}

\* What is in conns, and how many tickets were issued.
Shape(conns, issued, sent) ==
  /\ issued \in Nat /\ sent \in Seq(Nat)
  /\ conns \in [1..env.conns -> [pc : PC, t : [id : Nat, issuedAt : Int]]]

\* The lock: a connection that rewrites the file holds it, and the store is empty while
\* the taken ticket is removed from the file; without a process nobody is under way.
Locking(up, lock, store, conns) ==
  /\ \A c \in 1..env.conns :
       /\ conns[c].pc \in {"remove", "store"} => lock = c
       /\ conns[c].pc = "remove" => store = TK!NoTicket
       /\ up # "up" => conns[c].pc \in {"dial", "failed"}

\* Ticket t was issued, and neither sent nor taken.
Unused(t, conns, issued, sent) ==
  /\ t \in [id : Nat, issuedAt : Int] /\ t.id <= issued
  /\ t # TK!NoTicket =>
       /\ t.id > 0
       /\ \A k \in 1..Len(sent) : sent[k] # t.id
       /\ \A c \in 1..env.conns : conns[c].pc \in Holding => conns[c].t.id # t.id

\* A ticket that a connection holds was not sent, and no other connection holds it.
Held(conns, issued, sent) ==
  \A c \in 1..env.conns : conns[c].pc \in Holding =>
    /\ conns[c].t.id <= issued
    /\ \A k \in 1..Len(sent) : sent[k] # conns[c].t.id
    /\ \A d \in 1..env.conns : d # c /\ conns[d].pc \in Holding => conns[d].t.id # conns[c].t.id

\* The tickets sent were issued, and are distinct.
Distinct(issued, sent) ==
  /\ \A k \in 1..Len(sent) : sent[k] <= issued
  /\ \A i, j \in 1..Len(sent) : i # j => sent[i] # sent[j]

TicketsInv ==
  /\ DOMAIN sys = TicketsFields
  /\ Shape(sys.conns, sys.issued, sys.sent) /\ sys.now \in Int
  /\ Locking(sys.up, sys.lock, sys.store, sys.conns)
  /\ Unused(sys.store, sys.conns, sys.issued, sys.sent)
  /\ Unused(sys.file.t, sys.conns, sys.issued, sys.sent)
  /\ Held(sys.conns, sys.issued, sys.sent)
  /\ Distinct(sys.issued, sys.sent)

\* A connection has a number above 0, the lock's value when nobody holds it.
LEMMA ConnNumber == ASSUME NEW c \in 1..env.conns PROVE c # 0
  OBVIOUS

\* A step changes the fields it names.
LEMMA StepFields ==
  ASSUME TicketsInv, NEW rec, TK!Step(rec)
  PROVE  /\ DOMAIN sys' = TicketsFields /\ env' = env
         /\ \A f \in TicketsFields : sys'[f] = IF f \in DOMAIN rec THEN rec[f] ELSE sys[f]
  BY DEF TicketsInv, TK!Step, TK!With

\* A connection that moves on keeps the ticket it took.
LEMMA Moved ==
  ASSUME TicketsInv, NEW c \in 1..env.conns, NEW pc \in PC
  PROVE  /\ TK!Goto(c, pc) \in [1..env.conns -> [pc : PC, t : [id : Nat, issuedAt : Int]]]
         /\ TK!Goto(c, pc)[c].pc = pc
         /\ \A d \in 1..env.conns : /\ TK!Goto(c, pc)[d].t = sys.conns[d].t
                                    /\ d # c => TK!Goto(c, pc)[d] = sys.conns[d]
  BY DEF TicketsInv, Shape, TK!Goto

\* A connection that takes a ticket has the one of the store.
LEMMA Took ==
  ASSUME TicketsInv, NEW c \in 1..env.conns, NEW pc \in PC
  PROVE  /\ TK!Take(c, pc) \in [1..env.conns -> [pc : PC, t : [id : Nat, issuedAt : Int]]]
         /\ TK!Take(c, pc)[c] = [pc |-> pc, t |-> sys.store]
         /\ \A d \in 1..env.conns : d # c => TK!Take(c, pc)[d] = sys.conns[d]
  BY DEF TicketsInv, Shape, TK!Take, Unused

\* A connection that moves on, and did not come to hold a ticket by it, leaves every
\* ticket where it was.
LEMMA MoveKeeps ==
  ASSUME TicketsInv, NEW c \in 1..env.conns, NEW pc \in PC,
         pc \in Holding => sys.conns[c].pc \in Holding
  PROVE  /\ Shape(TK!Goto(c, pc), sys.issued, sys.sent)
         /\ Unused(sys.store, TK!Goto(c, pc), sys.issued, sys.sent)
         /\ Unused(sys.file.t, TK!Goto(c, pc), sys.issued, sys.sent)
         /\ Held(TK!Goto(c, pc), sys.issued, sys.sent)
<1> DEFINE n == TK!Goto(c, pc)
<1>0. /\ n \in [1..env.conns -> [pc : PC, t : [id : Nat, issuedAt : Int]]]
      /\ n[c].pc = pc
      /\ \A d \in 1..env.conns : n[d].t = sys.conns[d].t /\ (d # c => n[d] = sys.conns[d])
  BY Moved
<1> HIDE DEF n
<1>1. /\ n \in [1..env.conns -> [pc : PC, t : [id : Nat, issuedAt : Int]]]
      /\ \A d \in 1..env.conns : n[d].t = sys.conns[d].t
      /\ \A d \in 1..env.conns : n[d].pc \in Holding => sys.conns[d].pc \in Holding
  BY <1>0
<1>2. Shape(n, sys.issued, sys.sent) BY <1>1 DEF TicketsInv, Shape
<1>3. /\ Unused(sys.store, n, sys.issued, sys.sent)
      /\ Unused(sys.file.t, n, sys.issued, sys.sent)
  BY <1>1 DEF TicketsInv, Unused
<1>4. Held(n, sys.issued, sys.sent) BY <1>1 DEF TicketsInv, Held
<1> QED BY <1>2, <1>3, <1>4 DEF n

\* An empty place holds no ticket.
LEMMA NoneUnused ==
  ASSUME TicketsInv, NEW conns, NEW issued \in Nat, NEW sent
  PROVE  Unused(TK!NoTicket, conns, issued, sent)
  BY DEF Unused, TK!NoTicket

\* The invariant of the next state, from what it says of its parts.
LEMMA Rebuilt ==
  ASSUME NEW n, NEW i, NEW s, NEW t, NEW f, env' = env, DOMAIN sys' = TicketsFields,
         sys'.now \in Int, sys'.conns = n, sys'.issued = i, sys'.sent = s,
         sys'.store = t, sys'.file.t = f,
         Shape(n, i, s), Unused(t, n, i, s), Unused(f, n, i, s), Held(n, i, s), Distinct(i, s),
         Locking(sys.up, sys.lock, sys.store, sys.conns)'
  PROVE  TicketsInv'
  BY DEF TicketsInv, Shape, Unused, Held, Distinct

\* The process starts: what the file holds is in the store, or nothing.
LEMMA LoadKeeps == ASSUME TicketsInv, TK!Load PROVE TicketsInv'
<1>1. CASE TK!Step([up |-> "refused"])
  <2>1. /\ DOMAIN sys' = TicketsFields /\ env' = env /\ sys.up = "down"
        /\ sys'.conns = sys.conns /\ sys'.issued = sys.issued /\ sys'.sent = sys.sent
        /\ sys'.now = sys.now /\ sys'.store = sys.store /\ sys'.file = sys.file
        /\ sys'.lock = sys.lock
    BY <1>1, StepFields DEF TicketsFields, TK!Load
  <2> QED BY <2>1 DEF TicketsInv, Shape, Locking, Unused, Held, Distinct
<1>2. CASE TK!Step([up |-> "up", store |-> IF TK!IsValid(sys.file.t) THEN sys.file.t ELSE TK!NoTicket])
  <2>1. /\ DOMAIN sys' = TicketsFields /\ env' = env /\ sys.up = "down"
        /\ sys'.conns = sys.conns /\ sys'.issued = sys.issued /\ sys'.sent = sys.sent
        /\ sys'.now = sys.now /\ sys'.file = sys.file /\ sys'.lock = sys.lock
        /\ sys'.store = sys.file.t \/ sys'.store = TK!NoTicket
    BY <1>2, StepFields DEF TicketsFields, TK!Load
  <2>2. \A c \in 1..env.conns : sys.conns[c].pc \in {"dial", "failed"}
    BY <2>1 DEF TicketsInv, Locking
  <2>3. Unused(sys'.store, sys.conns, sys.issued, sys.sent)
    BY <2>1, NoneUnused DEF TicketsInv, Shape
  <2>4. Locking(sys.up, sys.lock, sys.store, sys.conns)'
    BY <2>1, <2>2 DEF Locking
  <2> QED BY <2>1, <2>3, <2>4 DEF TicketsInv, Shape, Unused, Held, Distinct
<1> QED BY <1>1, <1>2 DEF TK!Load

\* The process crashes: store and connections are gone, the file is not.
LEMMA CrashKeeps == ASSUME TicketsInv, TK!Crash PROVE TicketsInv'
<1> DEFINE n == [c \in 1..env.conns |-> IF sys.conns[c].pc = "dial" THEN TK!Conn
                                        ELSE [TK!Conn EXCEPT !.pc = "failed"]]
<1>1. TK!Step([up |-> "down", store |-> TK!NoTicket, lock |-> 0, crashes |-> sys.crashes + 1,
             conns |-> n])
  BY DEF TK!Crash
<1>2. /\ n \in [1..env.conns -> [pc : PC, t : [id : Nat, issuedAt : Int]]]
      /\ \A c \in 1..env.conns : n[c].pc \in {"dial", "failed"}
  BY DEF TK!Conn, TK!NoTicket, PC
<1> HIDE DEF n
<1>3. /\ DOMAIN sys' = TicketsFields /\ env' = env
      /\ sys'.conns = n /\ sys'.issued = sys.issued /\ sys'.sent = sys.sent
      /\ sys'.now = sys.now /\ sys'.file = sys.file /\ sys'.lock = 0
      /\ sys'.store = TK!NoTicket
  BY <1>1, StepFields DEF TicketsFields
<1>4. \A c \in 1..env.conns : n[c].pc \notin Holding BY <1>2 DEF Holding
<1>5. Shape(n, sys.issued, sys.sent) /\ Held(n, sys.issued, sys.sent)
  BY <1>2, <1>4 DEF TicketsInv, Shape, Held
<1>6. /\ Unused(TK!NoTicket, n, sys.issued, sys.sent)
      /\ Unused(sys.file.t, n, sys.issued, sys.sent)
  BY <1>4, <1>5, NoneUnused DEF TicketsInv, Shape, Unused
<1>7. Locking(sys.up, sys.lock, sys.store, sys.conns)' BY <1>3, <1>2 DEF Locking
<1> QED BY <1>3, <1>5, <1>6, <1>7 DEF TicketsInv, Shape, Unused, Held, Distinct

\* An hour passes.
LEMMA HourKeeps == ASSUME TicketsInv, TK!HourPasses PROVE TicketsInv'
<1>1. /\ DOMAIN sys' = TicketsFields /\ env' = env /\ sys'.up = sys.up
      /\ sys'.conns = sys.conns /\ sys'.issued = sys.issued /\ sys'.sent = sys.sent
      /\ sys'.now = sys.now + 1 /\ sys'.store = sys.store /\ sys'.file = sys.file
      /\ sys'.lock = sys.lock
  BY StepFields DEF TicketsFields, TK!HourPasses
<1> QED BY <1>1 DEF TicketsInv, Shape, Locking, Unused, Held, Distinct

\* A connection moves on without touching store, lock and file: it ends up neither with
\* a ticket it did not have, nor rewriting the file.
LEMMA GotoKeeps ==
  ASSUME TicketsInv, NEW c \in 1..env.conns, NEW pc \in {"udh", "up", "failed"},
         sys.up = "up", TK!Step([conns |-> TK!Goto(c, pc)])
  PROVE  TicketsInv'
<1>1. /\ DOMAIN sys' = TicketsFields /\ env' = env /\ sys'.up = "up"
      /\ sys'.conns = TK!Goto(c, pc) /\ sys'.issued = sys.issued /\ sys'.sent = sys.sent
      /\ sys'.now = sys.now /\ sys'.store = sys.store /\ sys'.file = sys.file
      /\ sys'.lock = sys.lock
  BY StepFields DEF TicketsFields
<1>2. pc \in PC /\ pc \notin Holding BY DEF PC, Holding
<1>3. /\ Shape(TK!Goto(c, pc), sys.issued, sys.sent)
      /\ Unused(sys.store, TK!Goto(c, pc), sys.issued, sys.sent)
      /\ Unused(sys.file.t, TK!Goto(c, pc), sys.issued, sys.sent)
      /\ Held(TK!Goto(c, pc), sys.issued, sys.sent)
  BY <1>2, MoveKeeps
<1>4. \A d \in 1..env.conns : TK!Goto(c, pc)[d].pc = sys.conns[d].pc \/ TK!Goto(c, pc)[d].pc = pc
  BY <1>2, Moved
<1>5. Locking(sys.up, sys.lock, sys.store, sys.conns)' BY <1>1, <1>4 DEF TicketsInv, Locking
<1> QED BY <1>1, <1>3, <1>5 DEF TicketsInv, Shape, Unused, Held, Distinct

\* The ticket leaves the store, and its file cannot be opened: nobody has it.
LEMMA GetErrorKeeps ==
  ASSUME TicketsInv, NEW c \in 1..env.conns, TK!GetTicketError(c)
  PROVE  TicketsInv'
<1>1. /\ DOMAIN sys' = TicketsFields /\ env' = env /\ sys'.up = "up"
      /\ sys'.conns = TK!Goto(c, "failed") /\ sys'.issued = sys.issued /\ sys'.sent = sys.sent
      /\ sys'.now = sys.now /\ sys'.store = TK!NoTicket /\ sys'.file = sys.file
      /\ sys'.lock = sys.lock
  BY StepFields DEF TicketsFields, TK!GetTicketError, TK!Ready
<1> DEFINE n == TK!Goto(c, "failed")
<1>2. "failed" \in PC /\ "failed" \notin Holding BY DEF PC, Holding
<1>3. /\ Shape(n, sys.issued, sys.sent)
      /\ Unused(sys.file.t, n, sys.issued, sys.sent)
      /\ Held(n, sys.issued, sys.sent)
  BY <1>2, MoveKeeps
<1>4. \A d \in 1..env.conns : n[d].pc = sys.conns[d].pc \/ n[d].pc = "failed"
  BY <1>2, Moved
<1> HIDE DEF n
<1>5. sys'.conns = n BY <1>1 DEF n
<1>6. Unused(TK!NoTicket, n, sys.issued, sys.sent) BY <1>3, NoneUnused DEF Shape
<1>7. Locking(sys.up, sys.lock, sys.store, sys.conns)' BY <1>1, <1>4, <1>5 DEF TicketsInv, Locking
<1>8. sys'.now \in Int /\ Distinct(sys.issued, sys.sent) BY <1>1 DEF TicketsInv
<1> QED BY <1>1, <1>3, <1>5, <1>6, <1>7, <1>8, Rebuilt

\* The ticket leaves the store for the connection, under the lock; opening its file has
\* emptied it.
LEMMA GetKeeps ==
  ASSUME TicketsInv, NEW c \in 1..env.conns, TK!GetTicket(c)
  PROVE  TicketsInv'
<1> DEFINE n == TK!Take(c, "remove")
<1>1. /\ DOMAIN sys' = TicketsFields /\ env' = env /\ sys'.up = "up"
      /\ sys'.conns = n /\ sys'.issued = sys.issued /\ sys'.sent = sys.sent
      /\ sys'.now = sys.now /\ sys'.store = TK!NoTicket /\ sys'.file = TK!Torn
      /\ sys'.lock = c /\ sys.lock = 0 /\ sys.store # TK!NoTicket
  BY StepFields DEF TicketsFields, TK!GetTicket, TK!Ready
<1>2. /\ n \in [1..env.conns -> [pc : PC, t : [id : Nat, issuedAt : Int]]]
      /\ n[c] = [pc |-> "remove", t |-> sys.store]
      /\ \A d \in 1..env.conns : d # c => n[d] = sys.conns[d]
  BY Took DEF PC
<1> HIDE DEF n
<1>3. Shape(n, sys.issued, sys.sent) BY <1>2 DEF TicketsInv, Shape
<1>4. Held(n, sys.issued, sys.sent)
  <2> SUFFICES ASSUME NEW d \in 1..env.conns, n[d].pc \in Holding
               PROVE  /\ n[d].t.id <= sys.issued
                      /\ \A k \in 1..Len(sys.sent) : sys.sent[k] # n[d].t.id
                      /\ \A e \in 1..env.conns : e # d /\ n[e].pc \in Holding => n[e].t.id # n[d].t.id
    BY DEF Held
  <2>1. CASE d = c
    <3>1. n[d].t = sys.store BY <1>2, <2>1
    <3>2. Unused(sys.store, sys.conns, sys.issued, sys.sent) BY DEF TicketsInv
    <3>3. \A e \in 1..env.conns : e # d => n[e] = sys.conns[e] BY <1>2, <2>1
    <3> QED BY <1>1, <3>1, <3>2, <3>3 DEF Unused
  <2>2. CASE d # c
    <3>1. n[d] = sys.conns[d] BY <1>2, <2>2
    <3>2. /\ n[d].t.id <= sys.issued
          /\ \A k \in 1..Len(sys.sent) : sys.sent[k] # n[d].t.id
      BY <3>1 DEF TicketsInv, Held
    <3>3. n[c].t.id # n[d].t.id
      <4>1. n[c].t = sys.store /\ Unused(sys.store, sys.conns, sys.issued, sys.sent)
        BY <1>2 DEF TicketsInv
      <4>2. sys.conns[d].pc \in Holding BY <3>1
      <4> QED BY <1>1, <3>1, <4>1, <4>2 DEF Unused
    <3>4. \A e \in 1..env.conns : e # d /\ e # c /\ n[e].pc \in Holding => n[e].t.id # n[d].t.id
      BY <1>2, <3>1 DEF TicketsInv, Held
    <3> QED BY <3>2, <3>3, <3>4
  <2> QED BY <2>1, <2>2
<1>5. Unused(TK!NoTicket, n, sys.issued, sys.sent) BY <1>3, NoneUnused DEF Shape
<1>6. TK!Torn.t = TK!NoTicket BY DEF TK!Torn
<1>7. \A d \in 1..env.conns : n[d].pc \in {"remove", "store"} => d = c
  BY <1>1, <1>2, ConnNumber DEF TicketsInv, Locking
<1>8. Locking(sys.up, sys.lock, sys.store, sys.conns)' BY <1>1, <1>7 DEF Locking
<1> QED BY <1>1, <1>3, <1>4, <1>5, <1>6, <1>8 DEF TicketsInv, Shape, Unused, Held, Distinct

\* The file is written, or an error leaves it, and the lock is given back; pc is where
\* the connection goes.
LEMMA WriteKeeps ==
  ASSUME TicketsInv, NEW c \in 1..env.conns, NEW pc \in PC \ {"remove", "store"},
         sys.up = "up", sys.conns[c].pc \in {"remove", "store"},
         pc \in Holding => sys.conns[c].pc \in Holding,
         \/ TK!Step([lock |-> 0, file |-> TK!Written(sys.store), conns |-> TK!Goto(c, pc)])
         \/ TK!Step([lock |-> 0, errors |-> sys.errors + 1, conns |-> TK!Goto(c, pc)])
  PROVE  TicketsInv'
<1> DEFINE n == TK!Goto(c, pc)
<1>1. /\ DOMAIN sys' = TicketsFields /\ env' = env /\ sys'.up = "up"
      /\ sys'.conns = n /\ sys'.issued = sys.issued /\ sys'.sent = sys.sent
      /\ sys'.now = sys.now /\ sys'.store = sys.store /\ sys'.lock = 0
      /\ sys'.file = TK!Written(sys.store) \/ sys'.file = sys.file
  <2>1. CASE TK!Step([lock |-> 0, file |-> TK!Written(sys.store), conns |-> TK!Goto(c, pc)])
    BY <2>1, StepFields DEF TicketsFields
  <2>2. CASE TK!Step([lock |-> 0, errors |-> sys.errors + 1, conns |-> TK!Goto(c, pc)])
    BY <2>2, StepFields DEF TicketsFields
  <2> QED BY <2>1, <2>2
<1>2. /\ Shape(n, sys.issued, sys.sent)
      /\ Unused(sys.store, n, sys.issued, sys.sent)
      /\ Unused(sys.file.t, n, sys.issued, sys.sent)
      /\ Held(n, sys.issued, sys.sent)
  BY MoveKeeps
<1>3. n[c].pc = pc /\ \A d \in 1..env.conns : d # c => n[d] = sys.conns[d]
  BY Moved
<1> HIDE DEF n
<1>4. Unused(sys'.file.t, n, sys.issued, sys.sent) BY <1>1, <1>2 DEF TK!Written
<1>5. \A d \in 1..env.conns : n[d].pc \notin {"remove", "store"}
  BY <1>3 DEF TicketsInv, Locking
<1>6. Locking(sys.up, sys.lock, sys.store, sys.conns)' BY <1>1, <1>5 DEF Locking
<1>7. sys'.now \in Int /\ Distinct(sys.issued, sys.sent) BY <1>1 DEF TicketsInv
<1> QED BY <1>1, <1>2, <1>4, <1>6, <1>7, Rebuilt

\* getTicket and storeTicket write the file.
LEMMA WrittenKeeps ==
  ASSUME TicketsInv, NEW c \in 1..env.conns, TK!GetTicketWritten(c) \/ TK!StoreTicketWritten(c)
  PROVE  TicketsInv'
<1>1. CASE TK!GetTicketWritten(c)
  <2> DEFINE ok == IF TK!IsValid(sys.conns[c].t) THEN "send" ELSE "udh"
  <2>1. /\ sys.up = "up" /\ sys.conns[c].pc = "remove"
        /\ TK!WriteFile(c, [ok |-> ok, err |-> "failed"])
    BY <1>1 DEF TK!GetTicketWritten, TK!Ready
  <2>2. ok \in PC \ {"remove", "store"} /\ "failed" \in PC \ {"remove", "store"} BY DEF PC
  <2>3. "remove" \in Holding /\ "failed" \notin Holding BY DEF Holding
  <2> HIDE DEF ok
  <2>4. \/ TK!Step([lock |-> 0, file |-> TK!Written(sys.store), conns |-> TK!Goto(c, ok)])
        \/ TK!Step([lock |-> 0, errors |-> sys.errors + 1, conns |-> TK!Goto(c, "failed")])
    BY <2>1 DEF TK!WriteFile
  <2> QED BY <2>1, <2>2, <2>3, <2>4, WriteKeeps
<1>2. CASE TK!StoreTicketWritten(c)
  <2>1. /\ sys.up = "up" /\ sys.conns[c].pc = "store"
        /\ TK!WriteFile(c, [ok |-> "up", err |-> "up"])
    BY <1>2 DEF TK!StoreTicketWritten, TK!Ready
  <2>2. "up" \in PC \ {"remove", "store"} /\ "up" \notin Holding BY DEF PC, Holding
  <2>3. \/ TK!Step([lock |-> 0, file |-> TK!Written(sys.store), conns |-> TK!Goto(c, "up")])
        \/ TK!Step([lock |-> 0, errors |-> sys.errors + 1, conns |-> TK!Goto(c, "up")])
    BY <2>1 DEF TK!WriteFile
  <2> QED BY <2>1, <2>2, <2>3, WriteKeeps
<1> QED BY <1>1, <1>2

\* What a history that grew by id holds.
LEMMA Grown ==
  ASSUME NEW sent \in Seq(Nat), NEW id \in Nat
  PROVE  /\ Append(sent, id) \in Seq(Nat)
         /\ \A k \in 1..Len(Append(sent, id)) :
              \/ k \in 1..Len(sent) /\ Append(sent, id)[k] = sent[k]
              \/ k = Len(sent) + 1 /\ Append(sent, id)[k] = id
  OBVIOUS

\* The ticket is sent: the connection gives it up, and nobody else had it.
LEMMA SentKeeps ==
  ASSUME TicketsInv, NEW c \in 1..env.conns, TK!Ready(c, "send"),
         TK!Step([sent |-> Append(sys.sent, sys.conns[c].t.id), conns |-> TK!Goto(c, "up")])
  PROVE  TicketsInv'
<1> DEFINE n == TK!Goto(c, "up")
           id == sys.conns[c].t.id
           s == Append(sys.sent, id)
<1>1. /\ DOMAIN sys' = TicketsFields /\ env' = env /\ sys'.up = "up"
      /\ sys'.conns = n /\ sys'.issued = sys.issued /\ sys'.sent = s
      /\ sys'.now = sys.now /\ sys'.store = sys.store /\ sys'.file = sys.file
      /\ sys'.lock = sys.lock
  BY StepFields DEF TicketsFields, TK!Ready
<1>2. "up" \in PC /\ "up" \notin Holding /\ sys.conns[c].pc \in Holding
  BY DEF PC, Holding, TK!Ready
<1>3. /\ Shape(n, sys.issued, sys.sent)
      /\ Unused(sys.store, n, sys.issued, sys.sent)
      /\ Unused(sys.file.t, n, sys.issued, sys.sent)
      /\ Held(n, sys.issued, sys.sent)
  BY <1>2, MoveKeeps
<1>4. /\ n[c].pc = "up"
      /\ \A d \in 1..env.conns : /\ n[d].t = sys.conns[d].t
                                 /\ d # c => n[d] = sys.conns[d]
  BY <1>2, Moved
<1>5. id \in Nat /\ sys.sent \in Seq(Nat) BY DEF TicketsInv, Shape
<1> HIDE DEF n
<1>6. /\ s \in Seq(Nat)
      /\ \A k \in 1..Len(s) : \/ k \in 1..Len(sys.sent) /\ s[k] = sys.sent[k]
                              \/ k = Len(sys.sent) + 1 /\ s[k] = id
  BY <1>5, Grown
<1>7. /\ id <= sys.issued
      /\ \A k \in 1..Len(sys.sent) : sys.sent[k] # id
      /\ \A d \in 1..env.conns : n[d].pc \in Holding => n[d].t.id # id
  BY <1>2, <1>4 DEF TicketsInv, Held
<1>8. /\ sys.store # TK!NoTicket => sys.store.id # id
      /\ sys.file.t # TK!NoTicket => sys.file.t.id # id
  <2>1. /\ Unused(sys.store, sys.conns, sys.issued, sys.sent)
        /\ Unused(sys.file.t, sys.conns, sys.issued, sys.sent)
    BY DEF TicketsInv
  <2> QED BY <1>2, <2>1 DEF Unused
<1> HIDE DEF s, id
<1>9. Shape(n, sys.issued, s) BY <1>3, <1>6 DEF Shape
<1>10. /\ Unused(sys.store, n, sys.issued, s)
       /\ Unused(sys.file.t, n, sys.issued, s)
  <2>1. Unused(sys.store, n, sys.issued, s) BY <1>3, <1>6, <1>8 DEF Unused
  <2>2. Unused(sys.file.t, n, sys.issued, s) BY <1>3, <1>6, <1>8 DEF Unused
  <2> QED BY <2>1, <2>2
<1>11. Held(n, sys.issued, s) BY <1>3, <1>6, <1>7 DEF Held
<1>12. Distinct(sys.issued, s)
  <2>1. Distinct(sys.issued, sys.sent) BY DEF TicketsInv
  <2>2. \A k \in 1..Len(s) : s[k] <= sys.issued BY <1>6, <1>7, <2>1 DEF Distinct
  <2>3. \A i, j \in 1..Len(s) : i # j => s[i] # s[j]
    BY <1>6, <1>7, <2>1 DEF Distinct
  <2> QED BY <2>2, <2>3 DEF Distinct
<1>13. Locking(sys.up, sys.lock, sys.store, sys.conns)'
  BY <1>1, <1>4 DEF TicketsInv, Locking
<1>14. sys'.now \in Int BY <1>1 DEF TicketsInv
<1> QED BY <1>1, <1>9, <1>10, <1>11, <1>12, <1>13, <1>14, Rebuilt

\* A new ticket is none of the earlier ones.
LEMMA NewUnused ==
  ASSUME TicketsInv, NEW n, NEW f, n = sys.conns \/ (\E c \in 1..env.conns : n = TK!Goto(c, "store")),
         f = TK!NoTicket \/ f = sys.file.t
  PROVE  /\ Shape(n, sys.issued + 1, sys.sent)
         /\ Unused(TK!NewTicket, n, sys.issued + 1, sys.sent)
         /\ Unused(f, n, sys.issued + 1, sys.sent)
         /\ Held(n, sys.issued + 1, sys.sent)
         /\ Distinct(sys.issued + 1, sys.sent)
<1>1. "store" \in PC /\ "store" \notin Holding BY DEF PC, Holding
<1>2. /\ Shape(n, sys.issued, sys.sent) /\ Held(n, sys.issued, sys.sent)
      /\ Unused(sys.file.t, n, sys.issued, sys.sent)
  BY <1>1, MoveKeeps DEF TicketsInv
<1>3. Unused(f, n, sys.issued, sys.sent) BY <1>2, NoneUnused DEF Shape
<1>4. /\ sys.issued \in Nat /\ sys.now \in Int /\ Distinct(sys.issued, sys.sent)
      /\ sys.sent \in Seq(Nat)
  BY DEF TicketsInv, Shape
<1>5. Shape(n, sys.issued + 1, sys.sent) BY <1>2, <1>4 DEF Shape
<1>6. Distinct(sys.issued + 1, sys.sent) BY <1>4 DEF Distinct
<1>7. Held(n, sys.issued + 1, sys.sent) BY <1>2, <1>4, SMTT(20) DEF Held, Shape
<1>8. Unused(f, n, sys.issued + 1, sys.sent) BY <1>3, <1>4 DEF Unused
<1>9. Unused(TK!NewTicket, n, sys.issued + 1, sys.sent)
  <2>1. /\ TK!NewTicket \in [id : Nat, issuedAt : Int] /\ TK!NewTicket.id = sys.issued + 1
    BY <1>4 DEF TK!NewTicket
  <2>2. \A k \in 1..Len(sys.sent) : sys.sent[k] # sys.issued + 1 BY <1>4 DEF Distinct
  <2>3. \A c \in 1..env.conns : n[c].pc \in Holding => n[c].t.id # sys.issued + 1
    BY <1>2, <1>4 DEF Held
  <2> QED BY <1>4, <2>1, <2>2, <2>3 DEF Unused
<1> QED BY <1>5, <1>6, <1>7, <1>8, <1>9

\* The bridge's new ticket is stored, whether the file can be opened or not.
LEMMA StoreKeeps ==
  ASSUME TicketsInv, NEW c \in 1..env.conns, TK!StoreTicket(c)
  PROVE  TicketsInv'
<1>0. TK!Ready(c, "up") /\ sys.lock = 0 BY DEF TK!StoreTicket
<1>1. CASE TK!Step([lock |-> c, store |-> TK!NewTicket, file |-> TK!Torn,
                 issued |-> sys.issued + 1, conns |-> TK!Goto(c, "store")])
  <2> DEFINE n == TK!Goto(c, "store")
  <2>1. /\ DOMAIN sys' = TicketsFields /\ env' = env /\ sys'.up = "up"
        /\ sys'.conns = n /\ sys'.issued = sys.issued + 1 /\ sys'.sent = sys.sent
        /\ sys'.now = sys.now /\ sys'.store = TK!NewTicket /\ sys'.file = TK!Torn
        /\ sys'.lock = c
    BY <1>0, <1>1, StepFields DEF TicketsFields, TK!Ready
  <2>2. n[c].pc = "store" /\ \A d \in 1..env.conns : d # c => n[d] = sys.conns[d]
    <3>1. "store" \in PC BY DEF PC
    <3> QED BY <3>1, Moved
  <2>3. /\ Shape(n, sys.issued + 1, sys.sent)
        /\ Unused(TK!NewTicket, n, sys.issued + 1, sys.sent)
        /\ Unused(TK!NoTicket, n, sys.issued + 1, sys.sent)
        /\ Held(n, sys.issued + 1, sys.sent)
        /\ Distinct(sys.issued + 1, sys.sent)
    BY NewUnused
  <2> HIDE DEF n
  <2>4. sys'.file.t = TK!NoTicket BY <2>1 DEF TK!Torn
  <2>5. \A d \in 1..env.conns : d # c => n[d].pc \notin {"remove", "store"}
    BY <1>0, <2>2, ConnNumber DEF TicketsInv, Locking
  <2>6. Locking(sys.up, sys.lock, sys.store, sys.conns)' BY <2>1, <2>2, <2>5 DEF Locking
  <2>7. sys'.now \in Int BY <2>1 DEF TicketsInv
  <2> QED BY <2>1, <2>3, <2>4, <2>6, <2>7, Rebuilt
<1>2. CASE TK!Step([store |-> TK!NewTicket, errors |-> sys.errors + 1, issued |-> sys.issued + 1])
  <2>1. /\ DOMAIN sys' = TicketsFields /\ env' = env /\ sys'.up = "up"
        /\ sys'.conns = sys.conns /\ sys'.issued = sys.issued + 1 /\ sys'.sent = sys.sent
        /\ sys'.now = sys.now /\ sys'.store = TK!NewTicket /\ sys'.file = sys.file
        /\ sys'.lock = sys.lock
    BY <1>0, <1>2, StepFields DEF TicketsFields, TK!Ready
  <2>2. /\ Shape(sys.conns, sys.issued + 1, sys.sent)
        /\ Unused(TK!NewTicket, sys.conns, sys.issued + 1, sys.sent)
        /\ Unused(sys.file.t, sys.conns, sys.issued + 1, sys.sent)
        /\ Held(sys.conns, sys.issued + 1, sys.sent)
        /\ Distinct(sys.issued + 1, sys.sent)
    BY NewUnused
  <2>3. \A d \in 1..env.conns : sys.conns[d].pc \notin {"remove", "store"}
    BY <1>0, ConnNumber DEF TicketsInv, Locking
  <2>4. Locking(sys.up, sys.lock, sys.store, sys.conns)' BY <2>1, <2>3 DEF Locking
  <2>5. sys'.now \in Int BY <2>1 DEF TicketsInv
  <2> QED BY <2>1, <2>2, <2>4, <2>5, Rebuilt
<1> QED BY <1>1, <1>2 DEF TK!StoreTicket

\* The steps of a connection.
LEMMA ConnKeeps ==
  ASSUME TicketsInv, NEW c \in 1..env.conns,
         \/ TK!NoTicketFound(c) \/ TK!GetTicketError(c) \/ TK!GetTicket(c) \/ TK!GetTicketWritten(c)
         \/ TK!SendTicket(c) \/ TK!HandshakeUDH(c) \/ TK!StoreTicket(c) \/ TK!StoreTicketWritten(c)
  PROVE  TicketsInv'
<1>1. CASE TK!NoTicketFound(c) BY <1>1, GotoKeeps DEF TK!NoTicketFound, TK!Ready
<1>2. CASE TK!SendTicket(c) BY <1>2, SentKeeps, GotoKeeps DEF TK!SendTicket, TK!Ready
<1>3. CASE TK!HandshakeUDH(c) BY <1>3, GotoKeeps DEF TK!HandshakeUDH, TK!Ready
<1> QED BY <1>1, <1>2, <1>3, GetErrorKeeps, GetKeeps, WrittenKeeps, StoreKeeps

\* At the start no ticket was issued.
LEMMA StartsWell == TK!Init => TicketsInv
<1> SUFFICES ASSUME TK!Init PROVE TicketsInv OBVIOUS
<1>1. /\ DOMAIN sys = TicketsFields /\ sys.up = "down" /\ sys.store = TK!NoTicket /\ sys.lock = 0
      /\ sys.file = TK!Written(TK!NoTicket) /\ sys.now = 0 /\ sys.issued = 0 /\ sys.sent = <<>>
      /\ sys.conns = [c \in 1..env.conns |-> TK!Conn]
  BY DEF TK!Init, TicketsFields
<1>2. \A c \in 1..env.conns : sys.conns[c] = TK!Conn /\ TK!Conn.pc = "dial"
  BY <1>1 DEF TK!Conn
<1>3. Shape(sys.conns, sys.issued, sys.sent) BY <1>1 DEF Shape, TK!Conn, TK!NoTicket, PC
<1>4. Locking(sys.up, sys.lock, sys.store, sys.conns) BY <1>2 DEF Locking
<1>5. sys.store = TK!NoTicket /\ sys.file.t = TK!NoTicket BY <1>1 DEF TK!Written
<1>6. /\ Unused(sys.store, sys.conns, sys.issued, sys.sent)
      /\ Unused(sys.file.t, sys.conns, sys.issued, sys.sent)
  BY <1>1, <1>5 DEF Unused, TK!NoTicket
<1>7. Held(sys.conns, sys.issued, sys.sent) BY <1>2 DEF Held, Holding
<1>8. Distinct(sys.issued, sys.sent) BY <1>1 DEF Distinct
<1> QED BY <1>1, <1>3, <1>4, <1>6, <1>7, <1>8 DEF TicketsInv

\* handshake_ticket.go:120, "Tickets are one use only": whatever connections, crashes and
\* errors of the ticket file interleave, no ticket is sent to the bridge twice.
THEOREM UsedOnce == PartsSpec => []TicketsOnce
<1> DEFINE Good == which = "tickets" => TicketsInv
<1>1. PartsInit => Good BY StartsWell DEF PartsInit
<1>2. Good /\ [PartsNext]_partsVars => Good'
  <2> SUFFICES ASSUME Good, [PartsNext]_partsVars, which' = "tickets" PROVE TicketsInv'
    OBVIOUS
  <2>1. CASE UNCHANGED partsVars
    BY <2>1 DEF TicketsInv, Shape, Locking, Unused, Held, Distinct, partsVars
  <2>2. CASE PartsNext
    <3>1. which = "tickets" /\ TK!Next BY <2>2 DEF PartsNext, Part
    <3> QED BY <3>1, LoadKeeps, CrashKeeps, HourKeeps, ConnKeeps DEF TK!Next
  <2> QED BY <2>1, <2>2
<1>3. Good => TicketsOnce
  <2> SUFFICES ASSUME TicketsInv PROVE TK!TicketsOnce BY DEF TicketsOnce
  <2>1. DOMAIN sys.sent = 1..Len(sys.sent) BY DEF TicketsInv, Shape
  <2> QED BY <2>1 DEF TicketsInv, Distinct, TK!TicketsOnce
<1> QED BY <1>1, <1>2, <1>3, PTL DEF PartsSpec

-----------------------------------------------------------------------------
(* The bridge's identity: which = "startup". *)

StartupFields == {"start", "pc", "t", "phase", "id", "listeners", "file", "fresh", "faults", "published"}
Served == SU!Files \cup SU!Derived
Lines == Seq([t : Served, id : Nat])

\* From loading an identity until it is written back.
Loaded == {"new", "new_fill", "check", "bridge", "state", "state_fill"}

\* Identity id may be published for file f: it is the one published before, or the one
\* given in the arguments.
Fits(published, f, id) ==
  \A k \in 1..Len(published) : SU!File(published[k].t) = f => id \in {SU!Given, published[k].id}

\* What a file holds after identities were published from it.
Stored(published, file) ==
  \A k \in 1..Len(published) : file[SU!File(published[k].t)] \in {SU!Torn, SU!Given, published[k].id}

\* The identity in a factory's hand.
InHand(pc, t, id, published, file) ==
  /\ pc \in Loaded => t \in Served /\ id \in Nat /\ Fits(published, SU!File(t), id)
  /\ pc = "load" => t \in Served
  /\ pc = "listen" /\ env.side # "client" /\ t \notin SU!Stateless =>
       t \in Served /\ id \in Nat /\ Fits(published, SU!File(t), id) /\ file[SU!File(t)] = id

\* The lines so far keep the identity.
Steady(published) ==
  \A i, j \in 1..Len(published) :
    i < j /\ SU!File(published[i].t) = SU!File(published[j].t) /\ published[i].id # published[j].id
    => published[j].id = SU!Given

StartupInv ==
  /\ DOMAIN sys = StartupFields
  /\ sys.published \in Lines /\ sys.file \in [SU!Files -> {SU!Absent, SU!Torn} \cup Nat] /\ sys.fresh \in Nat
  /\ Stored(sys.published, sys.file)
  /\ InHand(sys.pc, SU!T, sys.id, sys.published, sys.file)
  /\ Steady(sys.published)

\* A server's file is one of the three.
LEMMA ServedFile == ASSUME NEW t \in Served PROVE SU!File(t) \in SU!Files
  BY DEF Served, SU!File, SU!Files, SU!Derived

\* An element of a sequence.
LEMMA ElementOf == ASSUME NEW S, NEW q \in Seq(S), NEW k \in 1..Len(q) PROVE q[k] \in S
  OBVIOUS

\* The lines name servers, whose files are known.
LEMMA LineFiles ==
  ASSUME StartupInv, NEW k \in 1..Len(sys.published)
  PROVE  SU!File(sys.published[k].t) \in SU!Files /\ sys.published[k].id \in Nat
<1>1. sys.published \in Seq([t : Served, id : Nat]) BY DEF StartupInv, Lines
<1>2. sys.published[k] \in [t : Served, id : Nat] BY <1>1, ElementOf
<1> QED BY <1>2, ServedFile

\* A step changes the fields it names.
LEMMA StartupStep ==
  ASSUME StartupInv, NEW rec, SU!Step(rec)
  PROVE  /\ DOMAIN sys' = StartupFields /\ env' = env
         /\ \A f \in StartupFields : sys'[f] = IF f \in DOMAIN rec THEN rec[f] ELSE sys[f]
  BY DEF StartupInv, SU!Step, SU!With

\* Going on to the next transport leaves nothing in hand.
LEMMA NextStep ==
  ASSUME StartupInv, NEW rec, SU!NextTransport(rec)
  PROVE  /\ DOMAIN sys' = StartupFields /\ env' = env /\ sys'.pc \in {"get", "done"}
         /\ \A f \in StartupFields \ {"pc", "t", "phase"} :
              sys'[f] = IF f \in DOMAIN rec THEN rec[f] ELSE sys[f]
<1> DEFINE over == IF sys.t < Len(env.ts) THEN [pc |-> "get", t |-> sys.t + 1, phase |-> "base"]
                   ELSE [pc |-> "done"]
<1>1. /\ "pc" \in DOMAIN over /\ over["pc"] \in {"get", "done"}
      /\ DOMAIN over \subseteq {"pc", "t", "phase"}
  OBVIOUS
<1>2. sys' = SU!With(SU!With(sys, rec), over) /\ env' = env BY DEF SU!NextTransport
<1> HIDE DEF over
<1>3. /\ DOMAIN SU!With(sys, rec) = StartupFields
      /\ \A f \in StartupFields : SU!With(sys, rec)[f] = IF f \in DOMAIN rec THEN rec[f] ELSE sys[f]
  BY DEF StartupInv, SU!With
<1> DEFINE mid == SU!With(sys, rec)
<1> HIDE DEF mid
<1>4. /\ DOMAIN sys' = StartupFields
      /\ \A f \in StartupFields : sys'[f] = IF f \in DOMAIN over THEN over[f] ELSE mid[f]
  BY <1>2, <1>3 DEF SU!With, mid
<1>5. sys'["pc"] \in {"get", "done"} BY <1>1, <1>4 DEF StartupFields
<1>6. \A f \in StartupFields \ {"pc", "t", "phase"} : sys'[f] = mid[f] BY <1>1, <1>4
<1> QED BY <1>2, <1>3, <1>4, <1>5, <1>6 DEF mid

\* A step that leaves lines, files and the count of identities alone, and has nothing in
\* hand afterwards.
LEMMA Idle ==
  ASSUME StartupInv, DOMAIN sys' = StartupFields, sys'.pc \notin Loaded \cup {"load", "listen"},
         sys'.published = sys.published, sys'.file = sys.file, sys'.fresh = sys.fresh
  PROVE  StartupInv'
<1>1. InHand(sys.pc, SU!T, sys.id, sys.published, sys.file)' BY DEF InHand
<1> QED BY <1>1 DEF StartupInv, Stored, Steady

\* A transport is skipped, or a fault makes it fail.
LEMMA SkipKeeps == ASSUME StartupInv, SU!Skip \/ SU!Fail PROVE StartupInv'
<1>1. CASE SU!Skip
  <2>1. /\ DOMAIN sys' = StartupFields /\ sys'.pc \in {"get", "done"}
        /\ \A f \in StartupFields \ {"pc", "t", "phase"} : sys'[f] = sys[f]
    BY <1>1, NextStep DEF SU!Skip
  <2> QED BY <2>1, Idle DEF StartupFields, Loaded
<1>2. CASE SU!Fail
  <2>1. /\ DOMAIN sys' = StartupFields /\ sys'.pc \in {"get", "done"}
        /\ \A f \in StartupFields \ {"pc", "t", "phase"} :
             sys'[f] = IF f \in DOMAIN SU!Failed THEN SU!Failed[f] ELSE sys[f]
    BY <1>2, NextStep DEF SU!Fail
  <2>2. DOMAIN SU!Failed = {"faults"} BY DEF SU!Failed
  <2> QED BY <2>1, <2>2, Idle DEF StartupFields, Loaded
<1> QED BY <1>1, <1>2

\* A step with fields rec that stays at the transport it is at.
LEMMA StayStep ==
  ASSUME StartupInv, NEW rec, SU!Step(rec), "t" \notin DOMAIN rec
  PROVE  /\ DOMAIN sys' = StartupFields /\ env' = env /\ SU!T' = SU!T
         /\ \A f \in StartupFields : sys'[f] = IF f \in DOMAIN rec THEN rec[f] ELSE sys[f]
<1>1. /\ DOMAIN sys' = StartupFields /\ env' = env
      /\ \A f \in StartupFields : sys'[f] = IF f \in DOMAIN rec THEN rec[f] ELSE sys[f]
  BY StartupStep
<1>2. sys'.t = sys.t BY <1>1 DEF StartupFields
<1> QED BY <1>1, <1>2 DEF SU!T

\* main boots, and reports when all transports are set up.
LEMMA MainKeeps == ASSUME StartupInv, SU!Boot \/ SU!Launched PROVE StartupInv'
<1>1. PICK pc \in {"get", "exit", "serving"} : SU!Step([pc |-> pc])
  BY DEF SU!Boot, SU!Launched
<1>2. /\ DOMAIN sys' = StartupFields /\ sys'.pc = pc /\ sys'.published = sys.published
      /\ sys'.file = sys.file /\ sys'.fresh = sys.fresh
  BY <1>1, StartupStep DEF StartupFields
<1> QED BY <1>2, Idle DEF Loaded

\* A transport is looked up: one with a state file goes on to load it.
LEMMA GetKeepsId == ASSUME StartupInv, SU!Get PROVE StartupInv'
<1>1. CASE (env.side = "client" \/ SU!T \in SU!Stateless) /\ SU!Step([pc |-> "listen"])
  <2>1. /\ DOMAIN sys' = StartupFields /\ env' = env /\ SU!T' = SU!T /\ sys'.pc = "listen"
        /\ sys'.published = sys.published /\ sys'.file = sys.file /\ sys'.fresh = sys.fresh
    BY <1>1, StayStep DEF StartupFields
  <2>2. InHand(sys.pc, SU!T, sys.id, sys.published, sys.file)' BY <1>1, <2>1 DEF InHand, Loaded
  <2> QED BY <2>1, <2>2 DEF StartupInv, Stored, Steady
<1>2. CASE SU!T \in Served /\ SU!Step([pc |-> "load"])
  <2>1. /\ DOMAIN sys' = StartupFields /\ env' = env /\ SU!T' = SU!T /\ sys'.pc = "load"
        /\ sys'.published = sys.published /\ sys'.file = sys.file /\ sys'.fresh = sys.fresh
    BY <1>2, StayStep DEF StartupFields
  <2>2. InHand(sys.pc, SU!T, sys.id, sys.published, sys.file)' BY <1>2, <2>1 DEF InHand, Loaded
  <2> QED BY <2>1, <2>2 DEF StartupInv, Stored, Steady
<1> QED BY <1>1, <1>2, SkipKeeps DEF SU!Get, Served

\* An identity that fits is in hand.
LEMMA HandKeeps ==
  ASSUME StartupInv, NEW pc \in Loaded, DOMAIN sys' = StartupFields, SU!T' = SU!T, sys'.pc = pc,
         sys'.published = sys.published, sys'.file = sys.file, sys'.fresh \in Nat,
         SU!T \in Served, sys'.id \in Nat, Fits(sys.published, SU!File(SU!T), sys'.id)
  PROVE  StartupInv'
<1>1. "load" \notin Loaded /\ "listen" \notin Loaded BY DEF Loaded
<1>2. InHand(sys.pc, SU!T, sys.id, sys.published, sys.file)' BY <1>1 DEF InHand, Fits
<1> QED BY <1>2 DEF StartupInv, Stored, Steady

\* The identity is taken from the arguments or the file, or made when there is no file:
\* then none was published from it.
LEMMA LoadKeepsId == ASSUME StartupInv, SU!Load PROVE StartupInv'
<1> DEFINE t == SU!T  f == SU!File(SU!T)
<1>0. SU!T \in Served /\ f \in SU!Files BY ServedFile DEF StartupInv, InHand, SU!Load, SU!At
<1>1. CASE SU!Step([pc |-> "check", id |-> SU!Given])
  <2>1. /\ DOMAIN sys' = StartupFields /\ SU!T' = SU!T /\ sys'.pc = "check" /\ sys'.id = SU!Given
        /\ sys'.published = sys.published /\ sys'.file = sys.file /\ sys'.fresh = sys.fresh
    BY <1>1, StayStep DEF StartupFields
  <2>2. Fits(sys.published, f, SU!Given) /\ SU!Given \in Nat BY DEF Fits, SU!Given
  <2>3. sys'.fresh \in Nat /\ "check" \in Loaded BY <2>1 DEF StartupInv, Loaded
  <2> QED BY <1>0, <2>1, <2>2, <2>3, HandKeeps
<1>2. CASE /\ sys.file[f] = SU!Absent
           /\ SU!Step([pc |-> "new", id |-> sys.fresh, fresh |-> sys.fresh + 1])
  <2>1. /\ DOMAIN sys' = StartupFields /\ SU!T' = SU!T /\ sys'.pc = "new" /\ sys'.id = sys.fresh
        /\ sys'.published = sys.published /\ sys'.file = sys.file /\ sys'.fresh = sys.fresh + 1
    BY <1>2, StayStep DEF StartupFields
  <2>3. Fits(sys.published, f, sys.fresh)
    <3> SUFFICES ASSUME NEW k \in 1..Len(sys.published), SU!File(sys.published[k].t) = f PROVE FALSE
      BY DEF Fits
    <3>1. sys.published[k].id \in Nat BY LineFiles
    <3>2. sys.file[f] \in {SU!Torn, SU!Given, sys.published[k].id} BY DEF StartupInv, Stored
    <3> QED BY <1>2, <3>1, <3>2 DEF SU!Absent, SU!Torn, SU!Given
  <2>4. sys.fresh \in Nat /\ sys'.fresh \in Nat /\ "new" \in Loaded BY <2>1 DEF StartupInv, Loaded
  <2> QED BY <1>0, <2>1, <2>3, <2>4, HandKeeps
<1>3. CASE /\ sys.file[f] \notin {SU!Torn, SU!Absent}
           /\ SU!Step([pc |-> "check", id |-> sys.file[f]])
  <2>1. /\ DOMAIN sys' = StartupFields /\ SU!T' = SU!T /\ sys'.pc = "check" /\ sys'.id = sys.file[f]
        /\ sys'.published = sys.published /\ sys'.file = sys.file /\ sys'.fresh = sys.fresh
    BY <1>3, StayStep DEF StartupFields
  <2>2. Fits(sys.published, f, sys.file[f]) BY <1>3 DEF StartupInv, Stored, Fits
  <2>3. sys.file[f] \in Nat BY <1>0, <1>3 DEF StartupInv, SU!Torn, SU!Absent
  <2>4. sys'.fresh \in Nat /\ "check" \in Loaded BY <2>1 DEF StartupInv, Loaded
  <2> QED BY <1>0, <2>1, <2>2, <2>3, <2>4, HandKeeps
<1> QED BY <1>1, <1>2, <1>3, SkipKeeps DEF SU!Load

\* A file is truncated.
LEMMA OpensKeeps ==
  ASSUME StartupInv, NEW pc \in Loaded, NEW next \in Loaded, SU!Opens(pc, next)
  PROVE  StartupInv'
<1> DEFINE f == SU!File(SU!T)
<1>0. /\ SU!T \in Served /\ f \in SU!Files /\ sys.id \in Nat
      /\ Fits(sys.published, f, sys.id)
  BY ServedFile DEF StartupInv, InHand, SU!Opens, SU!At
<1>1. CASE SU!Step([pc |-> next, file |-> [sys.file EXCEPT ![f] = SU!Torn]])
  <2> DEFINE file == [sys.file EXCEPT ![f] = SU!Torn]
  <2>1. /\ DOMAIN sys' = StartupFields /\ env' = env /\ SU!T' = SU!T /\ sys'.pc = next /\ sys'.id = sys.id
        /\ sys'.published = sys.published /\ sys'.file = file /\ sys'.fresh = sys.fresh
    BY <1>1, StayStep DEF StartupFields
  <2>2. /\ file \in [SU!Files -> {SU!Absent, SU!Torn} \cup Nat]
        /\ \A g \in SU!Files : file[g] = SU!Torn \/ file[g] = sys.file[g]
    BY <1>0 DEF StartupInv
  <2>3. Stored(sys.published, file) BY <2>2, LineFiles DEF StartupInv, Stored
  <2>4. "load" \notin Loaded /\ "listen" \notin Loaded BY DEF Loaded
  <2> HIDE DEF file
  <2>5. InHand(sys.pc, SU!T, sys.id, sys.published, sys.file)' BY <1>0, <2>1, <2>4 DEF InHand, Fits
  <2> QED BY <2>1, <2>2, <2>3, <2>5 DEF StartupInv, Stored, Steady
<1> QED BY <1>1, SkipKeeps DEF SU!Opens

\* A file is filled with the identity in hand.
LEMMA FillsKeeps ==
  ASSUME StartupInv, NEW pc \in Loaded, NEW next \in {"check", "load", "listen"}, NEW phase,
         SU!Fills(pc, next, phase)
  PROVE  StartupInv'
<1> DEFINE f == SU!File(SU!T)
<1>0. /\ SU!T \in Served /\ f \in SU!Files /\ sys.id \in Nat
      /\ Fits(sys.published, f, sys.id)
  BY ServedFile DEF StartupInv, InHand, SU!Fills, SU!At
<1>1. CASE SU!Step([pc |-> next, phase |-> phase, file |-> [sys.file EXCEPT ![f] = sys.id]])
  <2> DEFINE file == [sys.file EXCEPT ![f] = sys.id]
  <2>1. /\ DOMAIN sys' = StartupFields /\ env' = env /\ SU!T' = SU!T /\ sys'.pc = next /\ sys'.id = sys.id
        /\ sys'.published = sys.published /\ sys'.file = file /\ sys'.fresh = sys.fresh
    BY <1>1, StayStep DEF StartupFields
  <2>2. /\ file \in [SU!Files -> {SU!Absent, SU!Torn} \cup Nat] /\ file[f] = sys.id
        /\ \A g \in SU!Files : g # f => file[g] = sys.file[g]
    BY <1>0 DEF StartupInv
  <2>3. Stored(sys.published, file)
    <3> SUFFICES ASSUME NEW k \in 1..Len(sys.published)
                 PROVE  file[SU!File(sys.published[k].t)] \in {SU!Torn, SU!Given, sys.published[k].id}
      BY DEF Stored
    <3>1. SU!File(sys.published[k].t) \in SU!Files BY LineFiles
    <3>2. CASE SU!File(sys.published[k].t) = f BY <1>0, <2>2, <3>2 DEF Fits
    <3>3. CASE SU!File(sys.published[k].t) # f BY <2>2, <3>1, <3>3 DEF StartupInv, Stored
    <3> QED BY <3>2, <3>3
  <2> HIDE DEF file
  <2>4. InHand(sys.pc, SU!T, sys.id, sys.published, sys.file)' BY <1>0, <2>1, <2>2 DEF InHand, Fits
  <2> QED BY <2>1, <2>2, <2>3, <2>4 DEF StartupInv, Stored, Steady
<1> QED BY <1>1, SkipKeeps DEF SU!Fills

\* newJSONServerState and writeJSONServerState.
LEMMA WriteKeepsId == ASSUME StartupInv, SU!New \/ SU!WriteBack PROVE StartupInv'
<1>1. {"new", "new_fill", "state", "state_fill"} \subseteq Loaded BY DEF Loaded
<1> QED BY <1>1, OpensKeeps, FillsKeeps DEF SU!New, SU!WriteBack

\* The parameters are looked at, and the bridge line is written.
LEMMA CheckKeeps == ASSUME StartupInv, SU!Check \/ SU!BridgeLine PROVE StartupInv'
<1>1. ASSUME NEW pc \in {"bridge", "state"}, SU!Step([pc |-> pc])
      PROVE  StartupInv'
  <2>1. /\ DOMAIN sys' = StartupFields /\ SU!T' = SU!T /\ sys'.pc = pc /\ sys'.id = sys.id
        /\ sys'.published = sys.published /\ sys'.file = sys.file /\ sys'.fresh = sys.fresh
    BY <1>1, StayStep DEF StartupFields
  <2>2. sys.pc \in Loaded /\ pc \in Loaded BY DEF SU!Check, SU!BridgeLine, SU!At, Loaded
  <2>3. SU!T \in Served /\ sys.id \in Nat /\ Fits(sys.published, SU!File(SU!T), sys.id)
    BY <2>2 DEF StartupInv, InHand
  <2>4. sys'.fresh \in Nat BY <2>1 DEF StartupInv
  <2> QED BY <2>1, <2>2, <2>3, <2>4, HandKeeps
<1> QED BY <1>1, SkipKeeps DEF SU!Check, SU!BridgeLine

\* A line more: it fits those before.
LEMMA Published ==
  ASSUME NEW published \in Lines, NEW t \in Served, NEW id \in Nat, Steady(published),
         Fits(published, SU!File(t), id)
  PROVE  LET p == Append(published, [t |-> t, id |-> id]) IN
         /\ p \in Lines /\ Steady(p)
         /\ \A file : Stored(published, file) /\ file[SU!File(t)] = id => Stored(p, file)
<1> DEFINE line == [t |-> t, id |-> id]  p == Append(published, line)
<1>1. /\ line \in [t : Served, id : Nat] /\ line.t = t /\ line.id = id
  OBVIOUS
<1> HIDE DEF line
<1>2. /\ p \in Lines /\ Len(p) = Len(published) + 1 /\ Len(published) \in Nat /\ p[Len(p)] = line
      /\ \A k \in 1..Len(published) : p[k] = published[k]
  BY <1>1 DEF Lines
<1> HIDE DEF p
<1>3. \A k \in 1..Len(p) : k \in 1..Len(published) \/ k = Len(p) BY <1>2
<1>4. Steady(p)
  <2> SUFFICES ASSUME NEW i \in 1..Len(p), NEW j \in 1..Len(p), i < j,
                      SU!File(p[i].t) = SU!File(p[j].t), p[i].id # p[j].id
               PROVE  p[j].id = SU!Given
    BY DEF Steady
  <2>1. i \in 1..Len(published) /\ p[i] = published[i] BY <1>2
  <2>2. CASE j \in 1..Len(published) BY <1>2, <2>1, <2>2 DEF Steady
  <2>3. CASE j = Len(p) BY <1>1, <1>2, <2>1, <2>3 DEF Fits
  <2> QED BY <1>3, <2>2, <2>3
<1>5. ASSUME NEW file, Stored(published, file), file[SU!File(t)] = id
      PROVE  Stored(p, file)
  BY <1>1, <1>2, <1>3, <1>5 DEF Stored
<1> QED BY <1>2, <1>4, <1>5 DEF p, line

\* A listener is opened, and a bridge's identity published.
LEMMA ListenKeeps == ASSUME StartupInv, SU!Listen PROVE StartupInv'
<1> DEFINE quiet == env.side = "client" \/ SU!T \in SU!Stateless
           p == IF quiet THEN sys.published ELSE Append(sys.published, [t |-> SU!T, id |-> sys.id])
<1>1. CASE SU!NextTransport([listeners |-> sys.listeners \cup {SU!T}, published |-> p])
  <2>1. /\ DOMAIN sys' = StartupFields /\ sys'.pc \in {"get", "done"} /\ sys'.published = p
        /\ sys'.file = sys.file /\ sys'.fresh = sys.fresh
    <3> HIDE DEF p
    <3> QED BY <1>1, NextStep DEF StartupFields
  <2>2. p \in Lines /\ Steady(p) /\ Stored(p, sys.file)
    <3>1. CASE quiet BY <3>1 DEF StartupInv
    <3>2. CASE ~quiet
      <4>1. /\ SU!T \in Served /\ sys.id \in Nat /\ Fits(sys.published, SU!File(SU!T), sys.id)
            /\ sys.file[SU!File(SU!T)] = sys.id
        BY <3>2 DEF StartupInv, InHand, SU!Listen, SU!At
      <4>2. sys.published \in Lines /\ Steady(sys.published) /\ Stored(sys.published, sys.file)
        BY DEF StartupInv
      <4> QED BY <3>2, <4>1, <4>2, Published
    <3> QED BY <3>1, <3>2
  <2> HIDE DEF p
  <2>3. InHand(sys.pc, SU!T, sys.id, sys.published, sys.file)' BY <2>1 DEF InHand, Loaded
  <2> QED BY <2>1, <2>2, <2>3 DEF StartupInv, Stored, Steady
<1> QED BY <1>1, SkipKeeps DEF SU!Listen

\* A start after an end or a crash: the files are as they were left.
LEMMA RestartKeeps == ASSUME StartupInv, SU!Again \/ SU!Crash PROVE StartupInv'
<1>1. PICK faults : SU!Restart(faults) BY DEF SU!Again, SU!Crash
<1>2. /\ DOMAIN sys' = StartupFields /\ sys'.pc = "boot" /\ sys'.published = sys.published
      /\ sys'.file = sys.file /\ sys'.fresh = sys.fresh
  BY <1>1, StartupStep DEF StartupFields, SU!Restart
<1> QED BY <1>2, Idle DEF Loaded

\* Nothing was published when the process first starts.
LEMMA StartsUp == SU!Init => StartupInv
<1> SUFFICES ASSUME SU!Init PROVE StartupInv OBVIOUS
<1>1. /\ DOMAIN sys = StartupFields /\ sys.pc = "boot" /\ sys.published = <<>> /\ sys.fresh = 1
      /\ sys.file = [f \in SU!Files |-> SU!Absent]
  BY DEF SU!Init, StartupFields
<1>2. InHand(sys.pc, SU!T, sys.id, sys.published, sys.file) BY <1>1 DEF InHand, Loaded
<1> QED BY <1>1, <1>2 DEF StartupInv, Lines, Stored, Steady

\* Through any number of starts, crashes and failed writes, with files truncated and filled
\* in two steps, a bridge publishes a new identity only if it is given one (statefile.go:182,
\* a file that cannot be parsed is an error; only one that does not exist is created).
THEOREM SameIdentity == PartsSpec => []IdentityKept
<1> DEFINE Good == which = "startup" => StartupInv
<1>1. PartsInit => Good BY StartsUp DEF PartsInit
<1>2. Good /\ [PartsNext]_partsVars => Good'
  <2> SUFFICES ASSUME Good, [PartsNext]_partsVars, which' = "startup" PROVE StartupInv'
    OBVIOUS
  <2>1. CASE UNCHANGED partsVars
    BY <2>1 DEF StartupInv, InHand, Fits, Stored, Steady, SU!T, partsVars
  <2>2. CASE PartsNext
    <3>1. which = "startup" /\ SU!Next BY <2>2 DEF PartsNext, Part
    <3> QED BY <3>1, MainKeeps, GetKeepsId, ListenKeeps, LoadKeepsId, WriteKeepsId, CheckKeeps, RestartKeeps
            DEF SU!Next
  <2> QED BY <2>1, <2>2
<1>3. Good => IdentityKept
  <2> SUFFICES ASSUME StartupInv PROVE SU!IdentityKept BY DEF IdentityKept
  <2>1. DOMAIN sys.published = 1..Len(sys.published) BY DEF StartupInv, Lines
  <2> QED BY <2>1 DEF StartupInv, Steady, SU!IdentityKept
<1> QED BY <1>1, <1>2, <1>3, PTL DEF PartsSpec

-----------------------------------------------------------------------------
(* The nonces of a direction: which = "obfs4". *)

Obfs4Fields == {"toWrite", "wpc", "nonce", "mask", "frames", "encoded", "written", "accepted", "rpc",
                "arrived", "pos", "at", "rnonce", "rmask", "nextLength", "got", "target"}

\* A sequence, of whatever.
IsSeq(q) == q \in Seq({q[i] : i \in DOMAIN q})

\* The counter is one ahead of the frames, and 0 when it has run out; frame i has nonce i.
Counted(n, nonce, frames) ==
  /\ IsSeq(frames) /\ Len(frames) < n
  /\ nonce = IF Len(frames) + 1 = n THEN 0 ELSE Len(frames) + 1
  /\ \A i \in 1..Len(frames) : frames[i].nonce = i

Obfs4Inv == /\ DOMAIN sys = Obfs4Fields /\ sys.toWrite \in Seq(Nat) /\ env.counter \in Nat \ {0, 1}
            /\ Counted(env.counter, sys.nonce, sys.frames)

\* Numbers below a modulus, and the modulus itself.
LEMMA Modulo ==
  ASSUME NEW n \in Nat \ {0}, NEW a \in 0..n
  PROVE  a % n = IF a = n THEN 0 ELSE a
  OBVIOUS

\* A quotient of natural numbers is one.
LEMMA Quotient == ASSUME NEW a \in Nat, NEW b \in Nat \ {0} PROVE a \div b \in Nat
  OBVIOUS

\* A sequence over a set is a sequence.
LEMMA SeqOver ==
  ASSUME NEW S, NEW q \in Seq(S)
  PROVE  IsSeq(q) /\ Len(q) \in Nat /\ DOMAIN q = 1..Len(q)
<1> DEFINE R == {q[i] : i \in DOMAIN q}
<1>1. Len(q) \in Nat /\ DOMAIN q = 1..Len(q) /\ q = [i \in 1..Len(q) |-> q[i]] OBVIOUS
<1>2. \A i \in 1..Len(q) : q[i] \in R BY <1>1
<1> HIDE DEF R
<1>3. q \in [1..Len(q) -> R] BY <1>1, <1>2
<1>4. q \in Seq(R) BY <1>1, <1>3
<1> QED BY <1>1, <1>4 DEF IsSeq, R

\* A function on 1..n is a sequence.
LEMMA SeqFrom ==
  ASSUME NEW n \in Nat, NEW q, q = [i \in 1..n |-> q[i]]
  PROVE  IsSeq(q) /\ Len(q) = n
<1> DEFINE R == {q[i] : i \in DOMAIN q}
<1>1. \A i \in 1..n : q[i] \in R BY DEF R
<1> HIDE DEF R
<1>2. q \in [1..n -> R] BY <1>1
<1>3. q \in Seq(R) /\ DOMAIN q = 1..n BY <1>2
<1>4. Len(q) = n BY <1>3
<1> QED BY <1>3, <1>4 DEF IsSeq, R

\* Two sequences, one behind the other.
LEMMA SeqJoin ==
  ASSUME NEW a, NEW b, IsSeq(a), IsSeq(b)
  PROVE  /\ IsSeq(a \o b) /\ Len(a) \in Nat /\ Len(b) \in Nat /\ Len(a \o b) = Len(a) + Len(b)
         /\ \A i \in 1..Len(a) : (a \o b)[i] = a[i]
         /\ \A i \in 1..Len(b) : (a \o b)[Len(a) + i] = b[i]
<1> DEFINE S == {a[i] : i \in DOMAIN a} \cup {b[i] : i \in DOMAIN b}
<1>1. a \in Seq(S) /\ b \in Seq(S)
  <2>1. a \in Seq({a[i] : i \in DOMAIN a}) /\ b \in Seq({b[i] : i \in DOMAIN b}) BY DEF IsSeq
  <2> DEFINE A == {a[i] : i \in DOMAIN a}  B == {b[i] : i \in DOMAIN b}
  <2>2. A \subseteq S /\ B \subseteq S OBVIOUS
  <2> HIDE DEF A, B, S
  <2>3. a \in Seq(A) /\ b \in Seq(B) BY <2>1 DEF A, B
  <2> QED BY <2>2, <2>3
<1> HIDE DEF S
<1>2. a \o b \in Seq(S) BY <1>1
<1>3. IsSeq(a \o b) BY <1>2, SeqOver
<1> QED BY <1>1, <1>3

\* What Write chops and padBurst adds are sequences.
LEMMA Bursts ==
  ASSUME NEW n \in Nat, NEW len, NEW t
  PROVE  IsSeq(O4!Chopped(n)) /\ IsSeq(O4!PadBurst(len, t))
<1>1. IsSeq(O4!Chopped(n))
  <2> DEFINE m == O4!MaxPacketPayloadLength  k == (n + m - 1) \div m
  <2>1. m \in Nat \ {0} BY PartsAssumption DEF O4!MaxPacketPayloadLength, O4!HeaderLength
  <2>2. n + m - 1 \in Nat BY <2>1
  <2> HIDE DEF m
  <2>3. k \in Nat BY <2>1, <2>2, Quotient
  <2> HIDE DEF k
  <2>4. O4!Chopped(n) = [i \in 1..k |-> O4!Chopped(n)[i]] BY DEF O4!Chopped, k, m
  <2> QED BY <2>3, <2>4, SeqFrom
<1>2. IsSeq(O4!PadBurst(len, t))
  <2> DEFINE p == O4!PadLen(len, t)
             x == O4!Padding(p - O4!HeaderLength)  y == O4!Padding(O4!MaxPacketPayloadLength)  z == O4!Padding(p)
  <2>1. O4!PadBurst(len, t) \in {<<x>>, <<y, z>>, <<>>} BY DEF O4!PadBurst
  <2> HIDE DEF x, y, z
  <2>2. <<x>> \in Seq({x}) /\ <<y, z>> \in Seq({y, z}) /\ <<>> \in Seq({x}) OBVIOUS
  <2>3. IsSeq(<<x>>) /\ IsSeq(<<y, z>>) /\ IsSeq(<<>>) BY <2>2, SeqOver
  <2> QED BY <2>1, <2>3
<1> QED BY <1>1, <1>2

\* A step changes the fields it names.
LEMMA Obfs4Step ==
  ASSUME Obfs4Inv, NEW rec, O4!Step(rec)
  PROVE  /\ DOMAIN sys' = Obfs4Fields /\ env' = env
         /\ \A f \in Obfs4Fields : sys'[f] = IF f \in DOMAIN rec THEN rec[f] ELSE sys[f]
  BY DEF Obfs4Inv, O4!Step, O4!With

\* Steps that encode nothing.
LEMMA NothingEncoded ==
  ASSUME Obfs4Inv, NEW rec, O4!Step(rec), DOMAIN rec \cap {"toWrite", "nonce", "frames"} = {}
  PROVE  Obfs4Inv'
<1>1. /\ DOMAIN sys' = Obfs4Fields /\ env' = env
      /\ \A f \in Obfs4Fields : sys'[f] = IF f \in DOMAIN rec THEN rec[f] ELSE sys[f]
  BY Obfs4Step
<1>2. sys'.toWrite = sys.toWrite /\ sys'.nonce = sys.nonce /\ sys'.frames = sys.frames
  BY <1>1 DEF Obfs4Fields
<1> QED BY <1>1, <1>2 DEF Obfs4Inv, Counted, IsSeq

\* A burst is encoded while the counter has values left: its frames continue the count.
LEMMA EncodeCounts ==
  ASSUME Obfs4Inv, NEW burst, IsSeq(burst), O4!Encodable(Len(burst))
  PROVE  Counted(env.counter, (sys.nonce + Len(burst)) % env.counter, sys.frames \o O4!Encoded(burst))
<1> DEFINE n == env.counter  old == sys.frames  new == O4!Encoded(burst)  k == Len(burst)
<1>1. /\ n \in Nat \ {0, 1} /\ IsSeq(old) /\ Len(old) < n
      /\ sys.nonce = IF Len(old) + 1 = n THEN 0 ELSE Len(old) + 1
      /\ \A i \in 1..Len(old) : old[i].nonce = i
  BY DEF Obfs4Inv, Counted
<1>2. k \in Nat /\ DOMAIN burst = 1..k /\ Len(old) \in Nat
  BY <1>1, SeqOver DEF IsSeq
<1>3. sys.nonce # 0 /\ sys.nonce + k <= n BY DEF O4!Encodable
<1>4. sys.nonce = Len(old) + 1 /\ Len(old) + 1 + k <= n BY <1>1, <1>3
<1>5. new = [i \in 1..k |-> new[i]] /\ \A i \in 1..k : new[i].nonce = (sys.nonce + i - 1) % n
  BY <1>2 DEF O4!Encoded
<1> HIDE DEF n, old, new, k
<1>6. IsSeq(new) /\ Len(new) = k BY <1>2, <1>5, SeqFrom
<1>7. \A i \in 1..k : new[i].nonce = Len(old) + i
  <2> SUFFICES ASSUME NEW i \in 1..k PROVE new[i].nonce = Len(old) + i
    OBVIOUS
  <2>1. sys.nonce + i - 1 = Len(old) + i /\ Len(old) + i \in 0..n /\ Len(old) + i # n
    BY <1>1, <1>2, <1>4
  <2>2. (Len(old) + i) % n = Len(old) + i BY <1>1, <2>1, Modulo
  <2> QED BY <1>5, <2>1, <2>2
<1> DEFINE all == old \o new
<1>8. /\ IsSeq(all) /\ Len(all) = Len(old) + k
      /\ \A i \in 1..Len(old) : all[i] = old[i]
      /\ \A i \in 1..k : all[Len(old) + i] = new[i]
  BY <1>1, <1>6, SeqJoin
<1> HIDE DEF all
<1>9. \A i \in 1..Len(all) : all[i].nonce = i
  <2> SUFFICES ASSUME NEW i \in 1..Len(all) PROVE all[i].nonce = i
    OBVIOUS
  <2>1. CASE i \in 1..Len(old) BY <1>1, <1>8, <2>1
  <2>2. CASE i \notin 1..Len(old)
    <3>1. i - Len(old) \in 1..k /\ Len(old) + (i - Len(old)) = i BY <1>2, <1>8, <2>2
    <3>2. all[i] = new[i - Len(old)] BY <1>8, <3>1
    <3> QED BY <1>7, <3>1, <3>2
  <2> QED BY <2>1, <2>2
<1>10. (sys.nonce + k) % n = IF Len(all) + 1 = n THEN 0 ELSE Len(all) + 1
  <2>1. sys.nonce + k = Len(all) + 1 /\ Len(all) + 1 \in 0..n BY <1>1, <1>2, <1>4, <1>8
  <2> QED BY <1>1, <2>1, Modulo
<1>11. Len(all) < n BY <1>1, <1>2, <1>4, <1>8
<1> QED BY <1>8, <1>9, <1>10, <1>11 DEF Counted, n, old, new, k, all

\* Encode, called by Write or by its padding.
LEMMA EncodeKeeps ==
  ASSUME Obfs4Inv, NEW burst, IsSeq(burst), O4!Encodable(Len(burst)), NEW rec, O4!Encode(burst, rec),
         IF "toWrite" \in DOMAIN rec THEN rec["toWrite"] \in Seq(Nat) ELSE TRUE
  PROVE  Obfs4Inv'
<1> DEFINE nonce == (sys.nonce + Len(burst)) % env.counter
           frames == sys.frames \o O4!Encoded(burst)
           over == [nonce |-> nonce, mask |-> sys.mask + Len(burst), frames |-> frames,
                    encoded |-> sys.encoded + O4!Sum(burst)]
           mid == O4!With(sys, rec)
<1>1. Counted(env.counter, nonce, frames) BY EncodeCounts
<1> HIDE DEF nonce, frames
<1>2. /\ DOMAIN over = {"nonce", "mask", "frames", "encoded"}
      /\ over["nonce"] = nonce /\ over["frames"] = frames
  OBVIOUS
<1>3. sys' = O4!With(mid, over) /\ env' = env BY DEF O4!Encode, nonce, frames
<1> HIDE DEF over
<1>4. /\ DOMAIN mid = Obfs4Fields
      /\ mid["toWrite"] = IF "toWrite" \in DOMAIN rec THEN rec["toWrite"] ELSE sys["toWrite"]
  BY DEF Obfs4Inv, O4!With, Obfs4Fields
<1> HIDE DEF mid
<1>5. /\ DOMAIN sys' = Obfs4Fields
      /\ \A f \in Obfs4Fields : sys'[f] = IF f \in DOMAIN over THEN over[f] ELSE mid[f]
  BY <1>3, <1>4 DEF O4!With
<1>6. sys'.nonce = nonce /\ sys'.frames = frames /\ sys'.toWrite = mid["toWrite"]
  BY <1>2, <1>5 DEF Obfs4Fields
<1>7. sys'.toWrite \in Seq(Nat) BY <1>4, <1>6 DEF Obfs4Inv
<1>8. Counted(env'.counter, sys'.nonce, sys'.frames) BY <1>1, <1>3, <1>6
<1> QED BY <1>3, <1>5, <1>7, <1>8 DEF Obfs4Inv, Counted, IsSeq

\* A burst for which the counter has too few values is encoded as far as they go.
LEMMA EncodeFailsKeeps ==
  ASSUME Obfs4Inv, NEW burst, IsSeq(burst), ~O4!Encodable(Len(burst)), O4!EncodeFails(burst)
  PROVE  Obfs4Inv'
<1>1. CASE sys.nonce = 0
  <2>1. O4!Step([wpc |-> "failed"]) BY <1>1 DEF O4!EncodeFails
  <2> QED BY <2>1, NothingEncoded
<1>2. CASE sys.nonce # 0
  <2> DEFINE m == env.counter - sys.nonce
             head == SubSeq(burst, 1, m)
             S == {burst[i] : i \in DOMAIN burst}
             rec == [wpc |-> "failed"]
  <2>1. O4!Encode(head, rec) BY <1>2 DEF O4!EncodeFails
  <2>2. burst \in Seq(S) /\ Len(burst) \in Nat BY SeqOver DEF IsSeq
  <2>3. env.counter \in Nat /\ sys.nonce \in 1..(env.counter - 1)
    <3>1. /\ env.counter \in Nat /\ Len(sys.frames) \in Nat /\ Len(sys.frames) < env.counter
          /\ sys.nonce = IF Len(sys.frames) + 1 = env.counter THEN 0 ELSE Len(sys.frames) + 1
      BY SeqOver DEF Obfs4Inv, Counted, IsSeq
    <3> QED BY <1>2, <3>1
  <2>4. m \in Nat /\ m < Len(burst) /\ sys.nonce + m = env.counter
    BY <1>2, <2>2, <2>3 DEF O4!Encodable
  <2> HIDE DEF S, m
  <2>5. head \in Seq(S) /\ Len(head) = m BY <2>2, <2>4
  <2>6. IsSeq(head) BY <2>5, SeqOver
  <2> HIDE DEF head
  <2>7. O4!Encodable(Len(head)) BY <1>2, <2>3, <2>4, <2>5 DEF O4!Encodable
  <2>8. "toWrite" \notin DOMAIN rec OBVIOUS
  <2> HIDE DEF rec
  <2> QED BY <2>1, <2>6, <2>7, <2>8, EncodeKeeps
<1> QED BY <1>1, <1>2

\* Write encodes a burst and its padding, or fails on the way.
LEMMA WriteBeginKeeps == ASSUME Obfs4Inv, O4!WriteBegin PROVE Obfs4Inv'
<1>1. sys.toWrite \in Seq(Nat) /\ sys.toWrite # <<>> BY DEF Obfs4Inv, O4!WriteBegin
<1>2. O4!Data \in Nat /\ Tail(sys.toWrite) \in Seq(Nat) BY <1>1 DEF O4!Data
<1>3. PICK t, burst :
        /\ burst = O4!Chopped(O4!Data)
           \/ burst = O4!Chopped(O4!Data) \o O4!PadBurst(O4!Sum(O4!Chopped(O4!Data)), t)
        /\ IF O4!Encodable(Len(burst))
           THEN O4!Encode(burst, [wpc |-> "write", toWrite |-> Tail(sys.toWrite), target |-> t,
                                  accepted |-> sys.accepted + O4!Data])
           ELSE O4!EncodeFails(burst)
  BY DEF O4!WriteBegin
<1>4. IsSeq(burst)
  <2>1. IsSeq(O4!Chopped(O4!Data)) /\ IsSeq(O4!PadBurst(O4!Sum(O4!Chopped(O4!Data)), t)) BY <1>2, Bursts
  <2> QED BY <1>3, <2>1, SeqJoin
<1>5. CASE ~O4!Encodable(Len(burst)) BY <1>3, <1>4, <1>5, EncodeFailsKeeps
<1>6. CASE O4!Encodable(Len(burst))
  <2> DEFINE rec == [wpc |-> "write", toWrite |-> Tail(sys.toWrite), target |-> t,
                     accepted |-> sys.accepted + O4!Data]
  <2>1. O4!Encode(burst, rec) BY <1>3, <1>6
  <2>2. DOMAIN rec = {"wpc", "toWrite", "target", "accepted"} /\ rec["toWrite"] = Tail(sys.toWrite) OBVIOUS
  <2> HIDE DEF rec
  <2> QED BY <1>2, <1>4, <1>6, <2>1, <2>2, EncodeKeeps
<1> QED BY <1>3, <1>5, <1>6

\* A write in the paranoid mode may have to pad.
LEMMA ParanoidKeeps == ASSUME Obfs4Inv, O4!WriteParanoid PROVE Obfs4Inv'
<1>1. PICK t \in env.lens :
        \/ t = 0 /\ O4!Step([wpc |-> "panic"])
        \/ t > 0 /\ t <= O4!Pending /\ O4!Sent(t)
        \/ /\ t > O4!Pending
           /\ LET pads == O4!PadBurst(O4!Pending, t) IN
              IF ~O4!Encodable(Len(pads)) THEN O4!EncodeFails(pads)
              ELSE IF O4!Pending + O4!Sum(pads) # t THEN O4!Encode(pads, [wpc |-> "write"])
              ELSE O4!Encode(pads, [wpc |-> "idle", written |-> sys.written + t])
  BY DEF O4!WriteParanoid
<1> DEFINE pads == O4!PadBurst(O4!Pending, t)
<1>2. IsSeq(pads) BY Bursts
<1> HIDE DEF pads
<1>3. ASSUME NEW pc, O4!Step([wpc |-> pc]) PROVE Obfs4Inv' BY <1>3, NothingEncoded
<1>4. CASE O4!Sent(t) BY <1>4, NothingEncoded DEF O4!Sent
<1>5. ASSUME O4!Encodable(Len(pads)), O4!Encode(pads, [wpc |-> "write"]) PROVE Obfs4Inv'
  BY <1>2, <1>5, EncodeKeeps
<1>6. ASSUME O4!Encodable(Len(pads)), O4!Encode(pads, [wpc |-> "idle", written |-> sys.written + t])
      PROVE  Obfs4Inv'
  BY <1>2, <1>6, EncodeKeeps
<1>7. ASSUME ~O4!Encodable(Len(pads)), O4!EncodeFails(pads) PROVE Obfs4Inv'
  BY <1>2, <1>7, EncodeFailsKeeps
<1> QED BY <1>1, <1>3, <1>4, <1>5, <1>6, <1>7 DEF pads

\* The network and the reader encode nothing.
LEMMA OthersKeep ==
  ASSUME Obfs4Inv, \/ O4!WriteOut \/ O4!WriteFails \/ O4!NetRead \/ O4!DecodeLength \/ O4!DecodeBox
                   \/ O4!DecodeAgain
  PROVE  Obfs4Inv'
<1>1. CASE O4!WriteOut BY <1>1, NothingEncoded DEF O4!WriteOut, O4!Sent
<1>2. CASE O4!WriteFails BY <1>2, NothingEncoded DEF O4!WriteFails
<1>3. CASE O4!NetRead BY <1>3, NothingEncoded DEF O4!NetRead
<1>4. CASE O4!DecodeLength BY <1>4, NothingEncoded DEF O4!DecodeLength
<1>5. CASE O4!DecodeBox BY <1>5, NothingEncoded DEF O4!DecodeBox
<1>6. CASE O4!DecodeAgain BY <1>6, NothingEncoded DEF O4!DecodeAgain
<1> QED BY <1>1, <1>2, <1>3, <1>4, <1>5, <1>6

\* At the start there is no frame, and the counter is at 1.
LEMMA NonceStarts == O4!Init => Obfs4Inv
<1> SUFFICES ASSUME O4!Init PROVE Obfs4Inv OBVIOUS
<1>1. /\ DOMAIN sys = Obfs4Fields /\ sys.toWrite = env.writes /\ sys.nonce = 1 /\ sys.frames = <<>>
      /\ env \in Obfs4Env
  BY DEF O4!Init, Obfs4Fields
<1>2. env.writes \in Seq(Nat) /\ env.counter \in Nat \ {0, 1} BY <1>1, PartsAssumption
<1>3. <<>> \in Seq({}) /\ Len(<<>>) = 0 OBVIOUS
<1>4. IsSeq(<<>>) BY <1>3, SeqOver
<1> QED BY <1>1, <1>2, <1>3, <1>4 DEF Obfs4Inv, Counted

\* framing.go:121: for every number of values of the counter, all calls of Write and all lengths
\* they are padded to, no two frames of a direction have one nonce: the encoder stops before
\* the counter wraps.
THEOREM NoncesFresh == PartsSpec => []NonceFresh
<1> DEFINE Good == which = "obfs4" => Obfs4Inv
<1>1. PartsInit => Good BY NonceStarts DEF PartsInit
<1>2. Good /\ [PartsNext]_partsVars => Good'
  <2> SUFFICES ASSUME Good, [PartsNext]_partsVars, which' = "obfs4" PROVE Obfs4Inv'
    OBVIOUS
  <2>1. CASE UNCHANGED partsVars
    BY <2>1 DEF Obfs4Inv, Counted, IsSeq, partsVars
  <2>2. CASE PartsNext
    <3>1. which = "obfs4" /\ O4!Next BY <2>2 DEF PartsNext, Part
    <3> QED BY <3>1, WriteBeginKeeps, ParanoidKeeps, OthersKeep DEF O4!Next
  <2> QED BY <2>1, <2>2
<1>3. Good => NonceFresh
  <2> SUFFICES ASSUME Obfs4Inv PROVE O4!NonceFresh BY DEF NonceFresh
  <2>1. DOMAIN sys.frames = 1..Len(sys.frames) BY SeqOver DEF Obfs4Inv, Counted, IsSeq
  <2> QED BY <2>1 DEF Obfs4Inv, Counted, O4!NonceFresh
<1> QED BY <1>1, <1>2, <1>3, PTL DEF PartsSpec

-----------------------------------------------------------------------------
(* The handshake over ntor: which = "ntor". *)

NtorFields == {"hour", "cpc", "spc", "hello", "resp", "cgot", "sgot", "epoch", "sepoch", "auth",
               "ckeys", "skeys", "try", "hits", "checked", "last"}

\* The messages of the client and of the bridge; what the bridge derives from the former.
IsHello(m, epoch) == m.pad \in NT!ClientPads /\ m = NT!Hello("x", env.cert, m.pad, epoch)
Derives == NT!ServerNtor("x", "y", NT!Identity)
BridgeKeys == <<NT!Kdf(Derives.seed)[2], NT!Kdf(Derives.seed)[1]>>
IsResp(m, epoch) == m.pad \in NT!ServerPads /\ m = NT!Resp("y", Derives.auth, NT!Identity, m.pad, epoch)

\* How much of the client's message can have arrived.
Told(cpc, spc, hello, sgot, epoch) ==
  /\ cpc = "start" => hello = <<>> /\ sgot = 0 /\ spc \in {"read", "failed"}
  /\ cpc # "start" => IsHello(hello, epoch) /\ sgot <= NT!HelloLen(hello)

\* A bridge that knows its keys has accepted the client's message.
Accepted(spc, epoch, sepoch, auth, skeys) ==
  spc = "keys" => env.cert = NT!Identity /\ sepoch = epoch /\ auth = Derives.auth /\ skeys = BridgeKeys

\* How much of its answer can have arrived.
Answered(cpc, spc, resp, cgot, epoch, skeys) ==
  \/ resp = <<>> /\ cgot = 0 /\ cpc \notin {"parse", "done"}
  \/ /\ IsResp(resp, epoch) /\ cgot <= NT!RespLen(resp) + SeedFrameLen
     /\ env.cert = NT!Identity /\ spc = "done" /\ skeys = BridgeKeys

\* A client that is done.
Agreed(cpc, ckeys, cgot) ==
  cpc = "done" => ckeys = <<BridgeKeys[2], BridgeKeys[1]>> /\ cgot \in 0..SeedFrameLen

\* Who failed without a fault: the bridge first, and for the clocks.
Refused(cpc, spc, epoch, checked, last) ==
  ~env.fault /\ env.cert = NT!Identity /\ "failed" \in {cpc, spc} =>
    spc = "failed" /\ cpc # "start" /\ (last = checked => ~(epoch - checked \in -1..1))

\* The hours tried before the try, if the clock has not moved.
HoursTried(try, hour) == {hour} \cup (IF try > 2 THEN {hour - 1} ELSE {}) \cup (IF try > 3 THEN {hour + 1} ELSE {})

\* Of the hours tried so far the MAC matched those of the message's epoch; while the clock
\* has not moved, that is whether the epoch is among them.
Trying(spc, epoch, sepoch, try, hits, hour, checked, last) ==
  spc = "mac" =>
    /\ env.cert = NT!Identity /\ try \in 1..4
    /\ hits > 0 => sepoch = epoch
    /\ try = 1 => hits = 0
    /\ try > 1 =>
         /\ checked <= last /\ last <= hour
         /\ last = checked => (hits > 0 <=> epoch \in HoursTried(try, checked))

\* Until then none was tried.
Fresh(spc, try, hits) == spc \in {"read", "parse"} => try = 1 /\ hits = 0

Clocks(hour, epoch, checked, last, cgot, sgot, try, hits) ==
  /\ env.skew \in Int /\ hour \in Int /\ epoch \in Int /\ checked \in Int /\ last \in Int
  /\ cgot \in Int /\ sgot \in Int /\ try \in Nat /\ hits \in Nat

NtorInv ==
  /\ DOMAIN sys = NtorFields
  /\ Clocks(sys.hour, sys.epoch, sys.checked, sys.last, sys.cgot, sys.sgot, sys.try, sys.hits)
  /\ Told(sys.cpc, sys.spc, sys.hello, sys.sgot, sys.epoch)
  /\ Trying(sys.spc, sys.epoch, sys.sepoch, sys.try, sys.hits, sys.hour, sys.checked, sys.last)
  /\ Accepted(sys.spc, sys.epoch, sys.sepoch, sys.auth, sys.skeys)
  /\ Answered(sys.cpc, sys.spc, sys.resp, sys.cgot, sys.epoch, sys.skeys)
  /\ Agreed(sys.cpc, sys.ckeys, sys.cgot)
  /\ Refused(sys.cpc, sys.spc, sys.epoch, sys.checked, sys.last)
  /\ Fresh(sys.spc, sys.try, sys.hits)

\* The lengths.
LEMMA Lengths ==
  /\ ReprLen \in Nat /\ AuthLen \in Nat /\ MarkLen \in Nat /\ MacLen \in Nat /\ SeedFrameLen \in Nat
  /\ MaxHandshakeLength \in Nat /\ NT!ClientMin \in Nat /\ NT!ServerMin \in Nat
<1>1. {ReprLen, AuthLen, MarkLen, MacLen, SeedFrameLen, MaxHandshakeLength} \subseteq Nat
  BY PartsAssumption, Zenon
<1>2. /\ ReprLen \in Nat /\ AuthLen \in Nat /\ MarkLen \in Nat /\ MacLen \in Nat /\ SeedFrameLen \in Nat
      /\ MaxHandshakeLength \in Nat
  BY <1>1
<1> QED BY <1>2 DEF NT!ClientMin, NT!ServerMin

\* What a client's message is made of.
LEMMA HelloParts ==
  ASSUME NEW m, NEW epoch, IsHello(m, epoch)
  PROVE  /\ m # <<>> /\ m.repr = "x" /\ m.mark = <<env.cert, "x">> /\ m.mac = <<env.cert, "x", m.pad, epoch>>
         /\ m.pad \in Int /\ NT!HelloLen(m) \in Nat /\ NT!HelloLen(m) <= MaxHandshakeLength
<1>1. m.pad \in Int /\ NT!ServerMin + SeedFrameLen <= NT!ClientMin + m.pad
      /\ NT!ClientMin + m.pad <= MaxHandshakeLength
  BY Lengths DEF IsHello, NT!ClientPads
<1>2. NT!HelloLen(m) = NT!ClientMin + m.pad BY DEF NT!HelloLen
<1>3. NT!HelloLen(m) \in Nat /\ NT!HelloLen(m) <= MaxHandshakeLength BY <1>1, <1>2, Lengths
<1>4. /\ m.repr = "x" /\ m.mark = <<env.cert, "x">> /\ m.mac = <<env.cert, "x", m.pad, epoch>>
      /\ "repr" \in DOMAIN m
  BY DEF IsHello, NT!Hello
<1>5. DOMAIN <<>> = {} OBVIOUS
<1> QED BY <1>1, <1>3, <1>4, <1>5

\* What a bridge's message is made of.
LEMMA RespParts ==
  ASSUME NEW m, NEW epoch, IsResp(m, epoch)
  PROVE  /\ m # <<>> /\ m.repr = "y" /\ m.auth = Derives.auth /\ m.mark = <<NT!Identity, "y">>
         /\ m.mac = <<NT!Identity, "y", Derives.auth, m.pad, epoch>>
         /\ m.pad \in Int /\ NT!RespLen(m) \in Nat /\ NT!RespLen(m) <= MaxHandshakeLength
         /\ NT!ServerMin <= NT!RespLen(m)
<1>1. m.pad \in Nat /\ NT!ServerMin + SeedFrameLen + m.pad <= MaxHandshakeLength
  BY Lengths DEF IsResp, NT!ServerPads
<1>2. NT!RespLen(m) = NT!ServerMin + m.pad BY DEF NT!RespLen
<1>3. /\ NT!RespLen(m) \in Nat /\ NT!RespLen(m) <= MaxHandshakeLength /\ NT!ServerMin <= NT!RespLen(m)
  BY <1>1, <1>2, Lengths
<1>4. /\ m.repr = "y" /\ m.auth = Derives.auth /\ m.mark = <<NT!Identity, "y">>
      /\ m.mac = <<NT!Identity, "y", Derives.auth, m.pad, epoch>> /\ "repr" \in DOMAIN m
  <2> HIDE DEF Derives
  <2> QED BY DEF IsResp, NT!Resp
<1>5. DOMAIN <<>> = {} OBVIOUS
<1> QED BY <1>1, <1>3, <1>4, <1>5

\* The two halves of ntor compute the same.
LEMMA SameSecrets == NT!ClientNtor("x", "y", NT!Identity) = Derives
<1>1. NT!Shared("x", "y") = NT!Shared("y", "x") /\ NT!Shared("x", NT!Identity) = NT!Shared(NT!Identity, "x")
  BY DEF NT!Shared
<1> QED BY <1>1, Zenon DEF NT!ClientNtor, NT!ServerNtor, Derives

\* The keys of the client, from those of the bridge.
LEMMA SameKeys == NT!Kdf(Derives.seed) = <<BridgeKeys[2], BridgeKeys[1]>>
<1> DEFINE s == Derives.seed
<1> HIDE DEF s
<1>1. NT!Kdf(s) = <<NT!Kdf(s)[1], NT!Kdf(s)[2]>> BY DEF NT!Kdf
<1>2. BridgeKeys = <<NT!Kdf(s)[2], NT!Kdf(s)[1]>> BY DEF BridgeKeys, s
<1> DEFINE a == NT!Kdf(s)[1]  b == NT!Kdf(s)[2]
<1> HIDE DEF a, b
<1>3. BridgeKeys = <<b, a>> /\ NT!Kdf(s) = <<a, b>> BY <1>1, <1>2 DEF a, b
<1>4. BridgeKeys[2] = a /\ BridgeKeys[1] = b BY <1>3
<1>5. NT!Kdf(s) = <<BridgeKeys[2], BridgeKeys[1]>> BY <1>3, <1>4
<1> QED BY <1>5 DEF s

\* A step changes the fields it names.
LEMMA NtorStep ==
  ASSUME NtorInv, NEW rec, NT!Step(rec)
  PROVE  /\ DOMAIN sys' = NtorFields /\ env' = env
         /\ \A f \in NtorFields : sys'[f] = IF f \in DOMAIN rec THEN rec[f] ELSE sys[f]
  BY DEF NtorInv, NT!Step, NT!With

\* The invariant of the next state, from its parts.
LEMMA NtorRebuilt ==
  ASSUME DOMAIN sys' = NtorFields, env' = env,
         Clocks(sys'.hour, sys'.epoch, sys'.checked, sys'.last, sys'.cgot, sys'.sgot, sys'.try, sys'.hits),
         Told(sys'.cpc, sys'.spc, sys'.hello, sys'.sgot, sys'.epoch),
         Accepted(sys'.spc, sys'.epoch, sys'.sepoch, sys'.auth, sys'.skeys),
         Answered(sys'.cpc, sys'.spc, sys'.resp, sys'.cgot, sys'.epoch, sys'.skeys),
         Agreed(sys'.cpc, sys'.ckeys, sys'.cgot),
         Refused(sys'.cpc, sys'.spc, sys'.epoch, sys'.checked, sys'.last),
         Trying(sys'.spc, sys'.epoch, sys'.sepoch, sys'.try, sys'.hits, sys'.hour, sys'.checked, sys'.last),
         Fresh(sys'.spc, sys'.try, sys'.hits)
  PROVE  NtorInv'
  BY DEF NtorInv, Clocks, Told, IsHello, Trying, HoursTried, Fresh, Accepted, Answered, IsResp, Agreed, Refused, NT!HelloLen, NT!RespLen

\* The client sends its message.
LEMMA SendHelloKeeps == ASSUME NtorInv, NT!SendHello PROVE NtorInv'
<1> DEFINE epoch == NT!Hour(env.skew)
<1>1. PICK pad \in NT!ClientPads :
        NT!Step([cpc |-> "read", epoch |-> epoch, hello |-> NT!Hello("x", env.cert, pad, epoch)])
  BY DEF NT!SendHello
<1>2. sys.cpc = "start" /\ epoch \in Int
  BY DEF NT!SendHello, NT!Hour, NtorInv, Clocks
<1> HIDE DEF epoch
<1> DEFINE m == NT!Hello("x", env.cert, pad, epoch)
<1>3. IsHello(m, epoch) BY DEF IsHello, NT!Hello
<1> HIDE DEF m
<1>4. /\ DOMAIN sys' = NtorFields /\ env' = env /\ sys'.cpc = "read" /\ sys'.epoch = epoch /\ sys'.hello = m
      /\ sys'.spc = sys.spc /\ sys'.resp = sys.resp /\ sys'.cgot = sys.cgot /\ sys'.sgot = sys.sgot
      /\ sys'.sepoch = sys.sepoch /\ sys'.auth = sys.auth /\ sys'.ckeys = sys.ckeys /\ sys'.skeys = sys.skeys
      /\ sys'.hour = sys.hour /\ sys'.checked = sys.checked
      /\ sys'.try = sys.try /\ sys'.hits = sys.hits /\ sys'.last = sys.last
  BY <1>1, NtorStep DEF NtorFields, m
<1>5. sys.sgot = 0 /\ sys.spc \in {"read", "failed"} BY <1>2 DEF NtorInv, Told
<1>6. sys.resp = <<>> /\ sys.cgot = 0 BY <1>5 DEF NtorInv, Answered
<1>7. Clocks(sys'.hour, sys'.epoch, sys'.checked, sys'.last, sys'.cgot, sys'.sgot, sys'.try, sys'.hits) BY <1>2, <1>4 DEF NtorInv, Clocks
<1>8. Told(sys'.cpc, sys'.spc, sys'.hello, sys'.sgot, sys'.epoch) BY <1>3, <1>4, <1>5, HelloParts DEF Told
<1>9. Accepted(sys'.spc, sys'.epoch, sys'.sepoch, sys'.auth, sys'.skeys) BY <1>4, <1>5 DEF Accepted
<1>10. Answered(sys'.cpc, sys'.spc, sys'.resp, sys'.cgot, sys'.epoch, sys'.skeys) BY <1>4, <1>6 DEF Answered
<1>11. Agreed(sys'.cpc, sys'.ckeys, sys'.cgot) BY <1>4 DEF Agreed
<1>12. Refused(sys'.cpc, sys'.spc, sys'.epoch, sys'.checked, sys'.last) BY <1>2, <1>4 DEF NtorInv, Refused
<1>13. /\ Trying(sys'.spc, sys'.epoch, sys'.sepoch, sys'.try, sys'.hits, sys'.hour, sys'.checked, sys'.last)
      /\ Fresh(sys'.spc, sys'.try, sys'.hits)
  BY <1>4, <1>5 DEF NtorInv, Trying, Fresh
<1> QED BY <1>4, <1>7, <1>8, <1>9, <1>10, <1>11, <1>12, <1>13, NtorRebuilt

\* The client reads or is about to parse: it is neither done nor has it failed.
LEMMA ClientMoves ==
  ASSUME NtorInv, NEW rec, NT!Step(rec), DOMAIN rec \subseteq {"cpc", "cgot"}, sys.cpc \in {"read", "parse"},
         sys'.cpc \in {"read", "parse"}, sys'.cgot \in Int, IsResp(sys.resp, sys.epoch),
         sys'.cgot <= NT!RespLen(sys.resp) + SeedFrameLen
  PROVE  NtorInv'
<1>4. /\ DOMAIN sys' = NtorFields /\ env' = env /\ sys'.epoch = sys.epoch /\ sys'.hello = sys.hello
      /\ sys'.spc = sys.spc /\ sys'.resp = sys.resp /\ sys'.sgot = sys.sgot
      /\ sys'.sepoch = sys.sepoch /\ sys'.auth = sys.auth /\ sys'.ckeys = sys.ckeys /\ sys'.skeys = sys.skeys
      /\ sys'.hour = sys.hour /\ sys'.checked = sys.checked
      /\ sys'.try = sys.try /\ sys'.hits = sys.hits /\ sys'.last = sys.last
  BY NtorStep DEF NtorFields
<1>5. sys.resp # <<>> BY RespParts
<1>7. Clocks(sys'.hour, sys'.epoch, sys'.checked, sys'.last, sys'.cgot, sys'.sgot, sys'.try, sys'.hits) BY <1>4 DEF NtorInv, Clocks
<1>8. Told(sys'.cpc, sys'.spc, sys'.hello, sys'.sgot, sys'.epoch) BY <1>4 DEF NtorInv, Told
<1>9. Accepted(sys'.spc, sys'.epoch, sys'.sepoch, sys'.auth, sys'.skeys) BY <1>4 DEF NtorInv, Accepted
<1>10. Answered(sys'.cpc, sys'.spc, sys'.resp, sys'.cgot, sys'.epoch, sys'.skeys)
  BY <1>4, <1>5 DEF NtorInv, Answered
<1>11. Agreed(sys'.cpc, sys'.ckeys, sys'.cgot) BY DEF Agreed
<1>12. Refused(sys'.cpc, sys'.spc, sys'.epoch, sys'.checked, sys'.last) BY <1>4 DEF NtorInv, Refused
<1>13. /\ Trying(sys'.spc, sys'.epoch, sys'.sepoch, sys'.try, sys'.hits, sys'.hour, sys'.checked, sys'.last)
      /\ Fresh(sys'.spc, sys'.try, sys'.hits)
  BY <1>4 DEF NtorInv, Trying, Fresh
<1> QED BY <1>4, <1>7, <1>8, <1>9, <1>10, <1>11, <1>12, <1>13, NtorRebuilt

\* Some more of the answer arrives.
LEMMA ClientReadKeeps == ASSUME NtorInv, NT!ClientRead PROVE NtorInv'
<1>1. sys.cpc = "read" /\ sys.resp # <<>> BY DEF NT!ClientRead
<1>2. IsResp(sys.resp, sys.epoch) BY <1>1 DEF NtorInv, Answered
<1>3. PICK n \in (sys.cgot + 1)..(NT!RespLen(sys.resp) + SeedFrameLen) : NT!Step([cgot |-> n, cpc |-> "parse"])
  BY DEF NT!ClientRead
<1>4. n \in Int /\ n <= NT!RespLen(sys.resp) + SeedFrameLen
  BY <1>2, RespParts, Lengths DEF NtorInv, Clocks
<1>5. sys'.cpc = "parse" /\ sys'.cgot = n BY <1>3, NtorStep DEF NtorFields
<1> QED BY <1>1, <1>2, <1>3, <1>4, <1>5, ClientMoves

\* The client looks at what has arrived: it finds the whole answer, or reads on.
LEMMA ClientParseKeeps == ASSUME NtorInv, NT!ClientParse PROVE NtorInv'
<1> DEFINE m == sys.resp  n == NT!ClientNtor("x", m.repr, env.cert)
<1>1. sys.cpc = "parse" BY DEF NT!ClientParse
<1>2. /\ IsResp(m, sys.epoch) /\ sys.cgot <= NT!RespLen(m) + SeedFrameLen
      /\ env.cert = NT!Identity /\ sys.spc = "done" /\ sys.skeys = BridgeKeys
  BY <1>1 DEF NtorInv, Answered
<1>3. /\ m.repr = "y" /\ m.auth = Derives.auth /\ m.mark = <<NT!Identity, "y">>
      /\ m.mac = <<NT!Identity, "y", Derives.auth, m.pad, sys.epoch>>
      /\ NT!RespLen(m) \in Nat /\ NT!RespLen(m) <= MaxHandshakeLength /\ sys.cgot \in Int
  BY <1>2, RespParts DEF NtorInv, Clocks
<1>4. n = Derives BY <1>2, <1>3, SameSecrets
<1>5. sys.cgot >= MaxHandshakeLength => NT!RespFound BY <1>2, <1>3, Lengths DEF NT!RespFound
<1>6. /\ m.mac = <<env.cert, m.repr, m.auth, m.pad, sys.epoch>> /\ n.auth = m.auth BY <1>2, <1>3, <1>4
<1>7. CASE NT!Step([cpc |-> "read"])
  <2>1. sys'.cpc = "read" /\ sys'.cgot = sys.cgot BY <1>7, NtorStep DEF NtorFields
  <2> QED BY <1>1, <1>2, <1>3, <1>7, <2>1, ClientMoves
<1>8. CASE /\ NT!RespFound
           /\ NT!Step([cpc |-> "done", cgot |-> sys.cgot - NT!RespLen(m), ckeys |-> NT!Kdf(n.seed)])
  <2> DEFINE left == sys.cgot - NT!RespLen(m)  keys == NT!Kdf(n.seed)
  <2>1. keys = <<BridgeKeys[2], BridgeKeys[1]>> BY <1>4, SameKeys
  <2>2. left \in 0..SeedFrameLen BY <1>2, <1>3, <1>8, Lengths DEF NT!RespFound
  <2>3. NT!Step([cpc |-> "done", cgot |-> left, ckeys |-> keys]) BY <1>8
  <2> HIDE DEF left, keys
  <2>4. /\ DOMAIN sys' = NtorFields /\ env' = env /\ sys'.cpc = "done" /\ sys'.cgot = left /\ sys'.ckeys = keys
        /\ sys'.spc = sys.spc /\ sys'.resp = sys.resp /\ sys'.sgot = sys.sgot /\ sys'.epoch = sys.epoch
        /\ sys'.sepoch = sys.sepoch /\ sys'.auth = sys.auth /\ sys'.skeys = sys.skeys
        /\ sys'.hour = sys.hour /\ sys'.checked = sys.checked
      /\ sys'.try = sys.try /\ sys'.hits = sys.hits /\ sys'.last = sys.last /\ sys'.hello = sys.hello
    BY <2>3, NtorStep DEF NtorFields
  <2>5. left \in Int /\ left <= NT!RespLen(m) + SeedFrameLen BY <1>3, <2>2, Lengths
  <2>7. Clocks(sys'.hour, sys'.epoch, sys'.checked, sys'.last, sys'.cgot, sys'.sgot, sys'.try, sys'.hits) BY <2>4, <2>5 DEF NtorInv, Clocks
  <2>8. Told(sys'.cpc, sys'.spc, sys'.hello, sys'.sgot, sys'.epoch) BY <1>1, <2>4 DEF NtorInv, Told
  <2>9. Accepted(sys'.spc, sys'.epoch, sys'.sepoch, sys'.auth, sys'.skeys) BY <2>4 DEF NtorInv, Accepted
  <2>10. Answered(sys'.cpc, sys'.spc, sys'.resp, sys'.cgot, sys'.epoch, sys'.skeys)
    BY <1>2, <2>4, <2>5 DEF Answered
  <2>11. Agreed(sys'.cpc, sys'.ckeys, sys'.cgot) BY <2>1, <2>2, <2>4 DEF Agreed
  <2>12. Refused(sys'.cpc, sys'.spc, sys'.epoch, sys'.checked, sys'.last) BY <1>2, <2>4 DEF Refused
  <2>13. /\ Trying(sys'.spc, sys'.epoch, sys'.sepoch, sys'.try, sys'.hits, sys'.hour, sys'.checked, sys'.last)
        /\ Fresh(sys'.spc, sys'.try, sys'.hits)
    BY <2>4 DEF NtorInv, Trying, Fresh
  <2> QED BY <2>4, <2>7, <2>8, <2>9, <2>10, <2>11, <2>12, <2>13, NtorRebuilt
<1>9. \/ NT!Step([cpc |-> "read"])
      \/ /\ ~NT!RespFound
         /\ NT!Step([cpc |-> IF sys.cgot >= MaxHandshakeLength THEN "failed" ELSE "read"])
      \/ /\ NT!RespFound
         /\ IF m.mac = <<env.cert, m.repr, m.auth, m.pad, sys.epoch>> /\ n.auth = m.auth
            THEN NT!Step([cpc |-> "done", cgot |-> sys.cgot - NT!RespLen(m), ckeys |-> NT!Kdf(n.seed)])
            ELSE NT!Step([cpc |-> "failed"])
  <2>1. sys.cgot < NT!ServerMin \/ sys.cgot >= NT!ServerMin BY <1>3, Lengths
  <2> QED BY <2>1 DEF NT!ClientParse
<1> QED BY <1>5, <1>6, <1>7, <1>8, <1>9

\* The client gives up: for a fault, or because the bridge did.
LEMMA ClientFailsKeeps == ASSUME NtorInv, NT!ClientFails PROVE NtorInv'
<1>1. /\ sys.cpc = "read" /\ (env.fault \/ sys.spc = "failed") /\ NT!Step([cpc |-> "failed"])
  BY DEF NT!ClientFails
<1>4. /\ DOMAIN sys' = NtorFields /\ env' = env /\ sys'.cpc = "failed" /\ sys'.cgot = sys.cgot
      /\ sys'.ckeys = sys.ckeys /\ sys'.spc = sys.spc /\ sys'.resp = sys.resp /\ sys'.sgot = sys.sgot
      /\ sys'.epoch = sys.epoch /\ sys'.sepoch = sys.sepoch /\ sys'.auth = sys.auth /\ sys'.skeys = sys.skeys
      /\ sys'.hour = sys.hour /\ sys'.checked = sys.checked
      /\ sys'.try = sys.try /\ sys'.hits = sys.hits /\ sys'.last = sys.last /\ sys'.hello = sys.hello
  BY <1>1, NtorStep DEF NtorFields
<1>7. Clocks(sys'.hour, sys'.epoch, sys'.checked, sys'.last, sys'.cgot, sys'.sgot, sys'.try, sys'.hits) BY <1>4 DEF NtorInv, Clocks
<1>8. Told(sys'.cpc, sys'.spc, sys'.hello, sys'.sgot, sys'.epoch) BY <1>1, <1>4 DEF NtorInv, Told
<1>9. Accepted(sys'.spc, sys'.epoch, sys'.sepoch, sys'.auth, sys'.skeys) BY <1>4 DEF NtorInv, Accepted
<1>10. Answered(sys'.cpc, sys'.spc, sys'.resp, sys'.cgot, sys'.epoch, sys'.skeys) BY <1>4 DEF NtorInv, Answered
<1>11. Agreed(sys'.cpc, sys'.ckeys, sys'.cgot) BY <1>4 DEF Agreed
<1>12. Refused(sys'.cpc, sys'.spc, sys'.epoch, sys'.checked, sys'.last) BY <1>1, <1>4 DEF NtorInv, Refused
<1>13. /\ Trying(sys'.spc, sys'.epoch, sys'.sepoch, sys'.try, sys'.hits, sys'.hour, sys'.checked, sys'.last)
      /\ Fresh(sys'.spc, sys'.try, sys'.hits)
  BY <1>4 DEF NtorInv, Trying, Fresh
<1> QED BY <1>4, <1>7, <1>8, <1>9, <1>10, <1>11, <1>12, <1>13, NtorRebuilt

\* A step of the bridge before it answers: what is left to show of it.
LEMMA BridgeMoves ==
  ASSUME NtorInv, NEW rec, NT!Step(rec),
         DOMAIN rec \subseteq {"spc", "sgot", "checked", "last", "try", "hits", "sepoch", "auth", "skeys"},
         sys.spc # "done", sys'.sgot \in Int, sys'.checked \in Int, sys'.last \in Int,
         sys'.try \in Nat, sys'.hits \in Nat,
         sys.cpc = "start" => sys'.sgot = 0 /\ sys'.spc \in {"read", "failed"},
         sys.cpc # "start" => sys'.sgot <= NT!HelloLen(sys.hello),
         Trying(sys'.spc, sys.epoch, sys'.sepoch, sys'.try, sys'.hits, sys.hour, sys'.checked, sys'.last),
         Fresh(sys'.spc, sys'.try, sys'.hits),
         Accepted(sys'.spc, sys.epoch, sys'.sepoch, sys'.auth, sys'.skeys),
         Refused(sys.cpc, sys'.spc, sys.epoch, sys'.checked, sys'.last)
  PROVE  NtorInv'
<1>4. /\ DOMAIN sys' = NtorFields /\ env' = env /\ sys'.cpc = sys.cpc /\ sys'.cgot = sys.cgot
      /\ sys'.ckeys = sys.ckeys /\ sys'.resp = sys.resp /\ sys'.epoch = sys.epoch
      /\ sys'.hour = sys.hour /\ sys'.hello = sys.hello
  BY NtorStep DEF NtorFields
<1>7. Clocks(sys'.hour, sys'.epoch, sys'.checked, sys'.last, sys'.cgot, sys'.sgot, sys'.try, sys'.hits)
  BY <1>4 DEF NtorInv, Clocks
<1>8. Told(sys'.cpc, sys'.spc, sys'.hello, sys'.sgot, sys'.epoch) BY <1>4 DEF NtorInv, Told
<1>9. Accepted(sys'.spc, sys'.epoch, sys'.sepoch, sys'.auth, sys'.skeys) BY <1>4
<1>10. Answered(sys'.cpc, sys'.spc, sys'.resp, sys'.cgot, sys'.epoch, sys'.skeys) BY <1>4 DEF NtorInv, Answered
<1>11. Agreed(sys'.cpc, sys'.ckeys, sys'.cgot) BY <1>4 DEF NtorInv, Agreed
<1>12. Refused(sys'.cpc, sys'.spc, sys'.epoch, sys'.checked, sys'.last) BY <1>4
<1>13. Trying(sys'.spc, sys'.epoch, sys'.sepoch, sys'.try, sys'.hits, sys'.hour, sys'.checked, sys'.last)
  BY <1>4
<1> QED BY <1>4, <1>7, <1>8, <1>9, <1>10, <1>11, <1>12, <1>13, NtorRebuilt

\* A step of the bridge outside its check of the hours.
LEMMA BridgeWaits ==
  ASSUME NtorInv, NEW rec, NT!Step(rec), DOMAIN rec \subseteq {"spc", "sgot", "skeys"},
         sys.spc # "done", sys'.sgot \in Int, sys'.spc # "keys",
         sys'.spc = "mac" => sys.spc = "parse" /\ env.cert = NT!Identity,
         sys'.spc \in {"read", "parse"} => sys.spc \in {"read", "parse"},
         sys.cpc = "start" => sys'.sgot = 0 /\ sys'.spc \in {"read", "failed"},
         sys.cpc # "start" => sys'.sgot <= NT!HelloLen(sys.hello),
         Refused(sys.cpc, sys'.spc, sys.epoch, sys.checked, sys.last)
  PROVE  NtorInv'
<1>1. /\ sys'.checked = sys.checked /\ sys'.last = sys.last /\ sys'.try = sys.try /\ sys'.hits = sys.hits
      /\ sys'.sepoch = sys.sepoch /\ sys'.auth = sys.auth
  BY NtorStep DEF NtorFields
<1>2. /\ sys.checked \in Int /\ sys.last \in Int /\ sys.try \in Nat /\ sys.hits \in Nat
  BY DEF NtorInv, Clocks
<1>3. Fresh(sys.spc, sys.try, sys.hits) BY DEF NtorInv
<1>4. Fresh(sys'.spc, sys'.try, sys'.hits) BY <1>1, <1>3 DEF Fresh
<1>5. Trying(sys'.spc, sys.epoch, sys'.sepoch, sys'.try, sys'.hits, sys.hour, sys'.checked, sys'.last)
  BY <1>1, <1>2, <1>3 DEF Fresh, Trying
<1>6. Accepted(sys'.spc, sys.epoch, sys'.sepoch, sys'.auth, sys'.skeys) BY DEF Accepted
<1> QED BY <1>1, <1>2, <1>4, <1>5, <1>6, BridgeMoves

\* Some more of the client's message arrives.
LEMMA ServerReadKeeps == ASSUME NtorInv, NT!ServerRead PROVE NtorInv'
<1>1. sys.spc = "read" /\ sys.hello # <<>> BY DEF NT!ServerRead
<1>2. sys.cpc # "start" /\ IsHello(sys.hello, sys.epoch) BY <1>1 DEF NtorInv, Told
<1>3. PICK n \in (sys.sgot + 1)..NT!HelloLen(sys.hello) : NT!Step([sgot |-> n, spc |-> "parse"])
  BY DEF NT!ServerRead
<1>4. n \in Int /\ n <= NT!HelloLen(sys.hello) BY <1>2, HelloParts DEF NtorInv, Clocks
<1>5. sys'.spc = "parse" /\ sys'.sgot = n BY <1>3, NtorStep DEF NtorFields
<1>6. Refused(sys.cpc, sys'.spc, sys.epoch, sys.checked, sys.last) BY <1>1, <1>5 DEF NtorInv, Refused
<1> QED BY <1>1, <1>2, <1>3, <1>4, <1>5, <1>6, BridgeWaits

\* The bridge looks at what has arrived: it finds the whole message of a client that has
\* its certificate, or reads on.
LEMMA ServerParseKeeps == ASSUME NtorInv, NT!ServerParse PROVE NtorInv'
<1> DEFINE m == sys.hello
<1>1. sys.spc = "parse" BY DEF NT!ServerParse
<1>2. /\ sys.cpc # "start" /\ IsHello(m, sys.epoch) /\ sys.sgot <= NT!HelloLen(m)
  BY <1>1 DEF NtorInv, Told
<1>3. /\ m.repr = "x" /\ m.mark = <<env.cert, "x">>
      /\ NT!HelloLen(m) \in Nat /\ NT!HelloLen(m) <= MaxHandshakeLength
  BY <1>2, HelloParts
<1>4. sys.sgot \in Int BY DEF NtorInv, Clocks
<1>5. ~("failed" \in {sys.cpc, sys.spc}) \/ env.fault \/ env.cert # NT!Identity
  BY <1>1 DEF NtorInv, Refused
<1>6. ASSUME NEW pc \in {"read", "mac", "failed"}, NT!Step([spc |-> pc]),
             pc = "failed" => env.cert # NT!Identity, pc = "mac" => env.cert = NT!Identity
      PROVE  NtorInv'
  <2>1. sys'.spc = pc /\ sys'.sgot = sys.sgot BY <1>6, NtorStep DEF NtorFields
  <2>2. Refused(sys.cpc, sys'.spc, sys.epoch, sys.checked, sys.last) BY <1>5, <1>6, <2>1 DEF Refused
  <2> QED BY <1>1, <1>2, <1>4, <1>6, <2>1, <2>2, BridgeWaits
<1>7. sys.sgot >= MaxHandshakeLength /\ ~NT!HelloFound => env.cert # NT!Identity
  BY <1>2, <1>3, <1>4, Lengths DEF NT!HelloFound
<1>8. NT!HelloFound => env.cert = NT!Identity BY <1>3 DEF NT!HelloFound
<1>9. \/ NT!Step([spc |-> "read"])
      \/ /\ ~NT!HelloFound
         /\ NT!Step([spc |-> IF sys.sgot >= MaxHandshakeLength THEN "failed" ELSE "read"])
      \/ NT!HelloFound /\ NT!Step([spc |-> "mac"])
  <2>1. sys.sgot < NT!ClientMin \/ sys.sgot >= NT!ClientMin BY <1>4, Lengths
  <2> QED BY <2>1 DEF NT!ServerParse
<1> HIDE DEF m
<1> QED BY <1>6, <1>7, <1>8, <1>9

\* The bridge tries an hour.  While the clock stands still the three differ, so that none
\* but the message's epoch matches, and that only once.
LEMMA TryMacKeeps == ASSUME NtorInv, NT!TryMac PROVE NtorInv'
<1> DEFINE m == sys.hello
           off == NT!Tried[sys.try]
           hit == sys.epoch = sys.hour + off
           pc == IF hit /\ sys.hits > 0 THEN "failed" ELSE "mac"
           hits == IF hit THEN sys.hits + 1 ELSE sys.hits
           sepoch == IF hit THEN sys.hour + off ELSE sys.sepoch
           checked == IF sys.try = 1 THEN sys.hour ELSE sys.checked
<1>1. sys.spc = "mac" /\ sys.try <= 3 BY DEF NT!TryMac, NT!Tried
<1>2. /\ sys.cpc # "start" /\ IsHello(m, sys.epoch) /\ sys.sgot <= NT!HelloLen(m)
  BY <1>1 DEF NtorInv, Told
<1>3. Trying("mac", sys.epoch, sys.sepoch, sys.try, sys.hits, sys.hour, sys.checked, sys.last)
  BY <1>1 DEF NtorInv
<1>4. /\ sys.sgot \in Int /\ sys.checked \in Int /\ sys.last \in Int /\ sys.hour \in Int /\ sys.epoch \in Int
      /\ sys.try \in Nat /\ sys.hits \in Nat
  BY DEF NtorInv, Clocks
<1>5. env.cert = NT!Identity /\ sys.try \in 1..3 BY <1>1, <1>3, <1>4 DEF Trying
<1>6. /\ m.repr = "x" /\ m.mac = <<NT!Identity, "x", m.pad, sys.epoch>> BY <1>2, <1>5, HelloParts
<1>7. /\ sys.try = 1 => off = 0
      /\ sys.try = 2 => off = -1
      /\ sys.try = 3 => off = 1
  BY DEF NT!Tried
<1>8. off \in Int BY <1>5, <1>7
<1> HIDE DEF off
<1>9. hit <=> m.mac = <<NT!Identity, m.repr, m.pad, sys.hour + off>> BY <1>6
<1>10. NT!Step([try |-> sys.try + 1, checked |-> checked, last |-> sys.hour, spc |-> pc, hits |-> hits,
                sepoch |-> sepoch])
  BY <1>9, Zenon DEF NT!TryMac, NT!Hour, off
<1>11. /\ checked \in Int /\ hits \in Nat /\ pc \in {"mac", "failed"} BY <1>4
<1>12. Trying(pc, sys.epoch, sepoch, sys.try + 1, hits, sys.hour, checked, sys.hour)
  <2>1. sys.try + 1 \in 1..4 /\ (hits > 0 => sepoch = sys.epoch) /\ sys.try + 1 # 1
    BY <1>3, <1>4, <1>5, <1>8 DEF Trying
  <2>2. checked <= sys.hour BY <1>3, <1>4, <1>5 DEF Trying
  <2>3. ASSUME pc = "mac", sys.hour = checked
        PROVE  hits > 0 <=> sys.epoch \in HoursTried(sys.try + 1, checked)
    <3>1. CASE sys.try = 1
      BY <1>3, <1>4, <1>7, <2>3, <3>1 DEF Trying, HoursTried
    <3>2. CASE sys.try = 2
      BY <1>3, <1>4, <1>7, <2>3, <3>2 DEF Trying, HoursTried
    <3>3. CASE sys.try = 3
      BY <1>3, <1>4, <1>7, <2>3, <3>3 DEF Trying, HoursTried
    <3> QED BY <1>5, <3>1, <3>2, <3>3
  <2> HIDE DEF pc, hits, sepoch, checked
  <2> QED BY <1>4, <1>5, <2>1, <2>2, <2>3 DEF Trying
<1>13. pc = "failed" => sys.hour # checked
  <2> SUFFICES ASSUME hit, sys.hits > 0, sys.hour = checked PROVE FALSE OBVIOUS
  <2>1. CASE sys.try = 1 BY <1>3, <1>4, <2>1 DEF Trying
  <2>2. CASE sys.try = 2 BY <1>3, <1>4, <1>7, <2>2 DEF Trying, HoursTried
  <2>3. CASE sys.try = 3 BY <1>3, <1>4, <1>7, <2>3 DEF Trying, HoursTried
  <2> QED BY <1>5, <2>1, <2>2, <2>3
<1>14. sys.cpc # "failed" \/ env.fault BY <1>1, <1>5 DEF NtorInv, Refused
<1>15. Refused(sys.cpc, pc, sys.epoch, checked, sys.hour) BY <1>2, <1>11, <1>13, <1>14 DEF Refused
<1> HIDE DEF m, hit, pc, hits, sepoch, checked
<1>16. /\ sys'.spc = pc /\ sys'.sgot = sys.sgot /\ sys'.checked = checked /\ sys'.last = sys.hour
       /\ sys'.try = sys.try + 1 /\ sys'.hits = hits /\ sys'.sepoch = sepoch
  BY <1>10, NtorStep DEF NtorFields
<1>17. Fresh(sys'.spc, sys'.try, sys'.hits) BY <1>11, <1>16 DEF Fresh
<1>18. Accepted(sys'.spc, sys.epoch, sys'.sepoch, sys'.auth, sys'.skeys) BY <1>11, <1>16 DEF Accepted
<1> QED BY <1>1, <1>2, <1>4, <1>10, <1>11, <1>12, <1>15, <1>16, <1>17, <1>18, BridgeMoves DEF m

\* After the last try the hours decide.
LEMMA ServerDeriveKeeps == ASSUME NtorInv, NT!ServerDerive PROVE NtorInv'
<1> DEFINE n == NT!ServerNtor(sys.hello.repr, "y", NT!Identity)
           keys == <<NT!Kdf(n.seed)[2], NT!Kdf(n.seed)[1]>>
<1>1. sys.spc = "mac" /\ sys.try > 3 BY DEF NT!ServerDerive, NT!Tried
<1>2. /\ sys.cpc # "start" /\ IsHello(sys.hello, sys.epoch) /\ sys.sgot <= NT!HelloLen(sys.hello)
  BY <1>1 DEF NtorInv, Told
<1>3. Trying("mac", sys.epoch, sys.sepoch, sys.try, sys.hits, sys.hour, sys.checked, sys.last)
  BY <1>1 DEF NtorInv
<1>4. /\ sys.sgot \in Int /\ sys.checked \in Int /\ sys.last \in Int /\ sys.hour \in Int /\ sys.epoch \in Int
      /\ sys.try \in Nat /\ sys.hits \in Nat
  BY DEF NtorInv, Clocks
<1>5. CASE sys.hits = 0
  <2>1. NT!Step([spc |-> "failed"]) BY <1>5 DEF NT!ServerDerive
  <2>2. sys'.spc = "failed" /\ sys'.sgot = sys.sgot BY <2>1, NtorStep DEF NtorFields
  <2>3. sys.last = sys.checked => ~(sys.epoch - sys.checked \in -1..1)
    BY <1>1, <1>3, <1>4, <1>5 DEF Trying, HoursTried
  <2>4. Refused(sys.cpc, sys'.spc, sys.epoch, sys.checked, sys.last) BY <1>2, <2>2, <2>3 DEF Refused
  <2> QED BY <1>1, <1>2, <1>4, <2>1, <2>2, <2>4, BridgeWaits
<1>6. CASE sys.hits # 0
  <2>1. NT!Step([spc |-> "keys", auth |-> n.auth, skeys |-> keys]) BY <1>6 DEF NT!ServerDerive
  <2>2. sys.hello.repr = "x" BY <1>2, HelloParts
  <2>3. keys = BridgeKeys /\ n.auth = Derives.auth BY <2>2 DEF BridgeKeys, Derives
  <2>4. env.cert = NT!Identity /\ sys.sepoch = sys.epoch BY <1>3, <1>4, <1>6 DEF Trying
  <2> HIDE DEF keys, n
  <2>5. /\ sys'.spc = "keys" /\ sys'.sgot = sys.sgot /\ sys'.checked = sys.checked /\ sys'.last = sys.last
        /\ sys'.try = sys.try /\ sys'.hits = sys.hits /\ sys'.sepoch = sys.sepoch
        /\ sys'.auth = n.auth /\ sys'.skeys = keys
    BY <2>1, NtorStep DEF NtorFields
  <2>6. Accepted(sys'.spc, sys.epoch, sys'.sepoch, sys'.auth, sys'.skeys)
    BY <2>3, <2>4, <2>5 DEF Accepted
  <2>7. Refused(sys.cpc, sys'.spc, sys.epoch, sys'.checked, sys'.last) BY <1>1, <2>5 DEF NtorInv, Refused
  <2>8. /\ Trying(sys'.spc, sys.epoch, sys'.sepoch, sys'.try, sys'.hits, sys.hour, sys'.checked, sys'.last)
        /\ Fresh(sys'.spc, sys'.try, sys'.hits)
    BY <2>5 DEF Trying, Fresh
  <2> QED BY <1>1, <1>2, <1>4, <2>1, <2>5, <2>6, <2>7, <2>8, BridgeMoves
<1> QED BY <1>5, <1>6

\* The bridge gives up, or hands out a connection without keys.
LEMMA ServerEndsKeeps == ASSUME NtorInv, NT!ServerFails \/ NT!ServerNoDeadline PROVE NtorInv'
<1>1. PICK pc \in {"failed", "done"} :
        /\ NT!Step([spc |-> pc, skeys |-> <<>>])
        /\ pc = "failed" => sys.spc \in {"read", "keys"} /\ (env.fault \/ sys.cpc = "failed")
        /\ pc = "done" => sys.spc = "keys" /\ env.fault
  BY DEF NT!ServerFails, NT!ServerNoDeadline
<1>2. sys'.spc = pc /\ sys'.sgot = sys.sgot BY <1>1, NtorStep DEF NtorFields
<1>3. sys.sgot \in Int BY DEF NtorInv, Clocks
<1>4. /\ sys.cpc = "start" => sys.sgot = 0 /\ sys.spc \in {"read", "failed"}
      /\ sys.cpc # "start" => sys.sgot <= NT!HelloLen(sys.hello)
  BY DEF NtorInv, Told
<1>5. Refused(sys.cpc, sys'.spc, sys.epoch, sys.checked, sys.last) BY <1>1, <1>2 DEF NtorInv, Refused
<1> QED BY <1>1, <1>2, <1>3, <1>4, <1>5, BridgeWaits

\* The bridge answers.
LEMMA RespondKeeps == ASSUME NtorInv, NT!Respond PROVE NtorInv'
<1>1. PICK pad \in NT!ServerPads :
        NT!Step([spc |-> "done", resp |-> NT!Resp("y", sys.auth, NT!Identity, pad, sys.sepoch)])
  BY DEF NT!Respond
<1>2. /\ sys.spc = "keys" /\ env.cert = NT!Identity /\ sys.sepoch = sys.epoch /\ sys.auth = Derives.auth
      /\ sys.skeys = BridgeKeys
  BY DEF NT!Respond, NtorInv, Accepted
<1> DEFINE m == NT!Resp("y", sys.auth, NT!Identity, pad, sys.sepoch)
<1>3. IsResp(m, sys.epoch) BY <1>2 DEF IsResp, NT!Resp
<1> HIDE DEF m
<1>4. /\ DOMAIN sys' = NtorFields /\ env' = env /\ sys'.cpc = sys.cpc /\ sys'.cgot = sys.cgot
      /\ sys'.ckeys = sys.ckeys /\ sys'.spc = "done" /\ sys'.resp = m /\ sys'.sgot = sys.sgot
      /\ sys'.epoch = sys.epoch /\ sys'.sepoch = sys.sepoch /\ sys'.auth = sys.auth /\ sys'.skeys = sys.skeys
      /\ sys'.hour = sys.hour /\ sys'.checked = sys.checked
      /\ sys'.try = sys.try /\ sys'.hits = sys.hits /\ sys'.last = sys.last /\ sys'.hello = sys.hello
  BY <1>1, NtorStep DEF NtorFields, m
<1>5. sys.cgot = 0 BY <1>2 DEF NtorInv, Answered
<1>7. Clocks(sys'.hour, sys'.epoch, sys'.checked, sys'.last, sys'.cgot, sys'.sgot, sys'.try, sys'.hits) BY <1>4 DEF NtorInv, Clocks
<1>8. Told(sys'.cpc, sys'.spc, sys'.hello, sys'.sgot, sys'.epoch) BY <1>2, <1>4 DEF NtorInv, Told
<1>9. Accepted(sys'.spc, sys'.epoch, sys'.sepoch, sys'.auth, sys'.skeys) BY <1>4 DEF Accepted
<1>10. Answered(sys'.cpc, sys'.spc, sys'.resp, sys'.cgot, sys'.epoch, sys'.skeys)
  <2>1. 0 <= NT!RespLen(m) + SeedFrameLen BY <1>3, RespParts, Lengths
  <2> QED BY <1>2, <1>3, <1>4, <1>5, <2>1 DEF Answered
<1>11. Agreed(sys'.cpc, sys'.ckeys, sys'.cgot) BY <1>4 DEF NtorInv, Agreed
<1>12. Refused(sys'.cpc, sys'.spc, sys'.epoch, sys'.checked, sys'.last) BY <1>2, <1>4 DEF NtorInv, Refused
<1>13. /\ Trying(sys'.spc, sys'.epoch, sys'.sepoch, sys'.try, sys'.hits, sys'.hour, sys'.checked, sys'.last)
      /\ Fresh(sys'.spc, sys'.try, sys'.hits)
  BY <1>4 DEF NtorInv, Trying, Fresh
<1> QED BY <1>4, <1>7, <1>8, <1>9, <1>10, <1>11, <1>12, <1>13, NtorRebuilt

\* An hour passes.
LEMMA HourPassesKeeps == ASSUME NtorInv, NT!HourPasses PROVE NtorInv'
<1>1. sys.hour \in Int /\ NT!Step([hour |-> sys.hour + 1]) BY DEF NT!HourPasses, NtorInv, Clocks
<1>2. /\ DOMAIN sys' = NtorFields /\ env' = env /\ sys'.hour = sys.hour + 1
      /\ \A f \in NtorFields \ {"hour"} : sys'[f] = sys[f]
  BY <1>1, NtorStep DEF NtorFields
<1>3. /\ sys'.cpc = sys.cpc /\ sys'.cgot = sys.cgot /\ sys'.ckeys = sys.ckeys /\ sys'.spc = sys.spc
      /\ sys'.resp = sys.resp /\ sys'.sgot = sys.sgot /\ sys'.epoch = sys.epoch /\ sys'.sepoch = sys.sepoch
      /\ sys'.auth = sys.auth /\ sys'.skeys = sys.skeys /\ sys'.checked = sys.checked /\ sys'.hello = sys.hello
      /\ sys'.try = sys.try /\ sys'.hits = sys.hits /\ sys'.last = sys.last
  BY <1>2 DEF NtorFields
<1>4. Clocks(sys'.hour, sys'.epoch, sys'.checked, sys'.last, sys'.cgot, sys'.sgot, sys'.try, sys'.hits)
  BY <1>1, <1>2, <1>3 DEF NtorInv, Clocks
<1>5. Trying(sys'.spc, sys'.epoch, sys'.sepoch, sys'.try, sys'.hits, sys'.hour, sys'.checked, sys'.last)
  BY <1>1, <1>2, <1>3 DEF NtorInv, Trying, Clocks
<1> QED BY <1>2, <1>3, <1>4, <1>5, NtorRebuilt DEF NtorInv

\* At the start nothing was sent.
LEMMA NtorStarts == NT!Init => NtorInv
<1> SUFFICES ASSUME NT!Init PROVE NtorInv OBVIOUS
<1>1. /\ DOMAIN sys = NtorFields /\ env \in NtorEnv /\ sys.hour = 5 /\ sys.cpc = "start" /\ sys.spc = "read"
      /\ sys.hello = <<>> /\ sys.resp = <<>> /\ sys.cgot = 0 /\ sys.sgot = 0 /\ sys.epoch = 0
      /\ sys.checked = 0 /\ sys.last = 0 /\ sys.try = 1 /\ sys.hits = 0
  BY DEF NT!Init, NtorFields
<1>2. env.skew \in Int BY <1>1, PartsAssumption
<1> QED BY <1>1, <1>2 DEF NtorInv, Clocks, Told, Trying, Fresh, Accepted, Answered, Agreed, Refused

\* What holds throughout a handshake over ntor.
NtorGood == which = "ntor" => NtorInv

\* It does, whatever the ends and the network do.
LEMMA NtorHolds == PartsSpec => []NtorGood
<1>1. PartsInit => NtorGood BY NtorStarts DEF PartsInit, NtorGood
<1>2. NtorGood /\ [PartsNext]_partsVars => NtorGood'
  <2> SUFFICES ASSUME NtorGood, [PartsNext]_partsVars, which' = "ntor" PROVE NtorInv'
    BY DEF NtorGood
  <2>1. CASE UNCHANGED partsVars
    <3>1. sys' = sys /\ env' = env /\ which' = which BY <2>1 DEF partsVars
    <3>2. NtorInv BY <3>1 DEF NtorGood
    <3> QED BY <3>1, <3>2, NtorRebuilt DEF NtorInv
  <2>2. CASE PartsNext
    <3>1. which = "ntor" /\ NT!Next BY <2>2 DEF PartsNext, Part
    <3>2. NtorInv BY <3>1 DEF NtorGood
    <3> QED BY <3>1, <3>2, SendHelloKeeps, ClientReadKeeps, ClientParseKeeps, ClientFailsKeeps, ServerReadKeeps,
               ServerParseKeeps, TryMacKeeps, ServerDeriveKeeps, ServerEndsKeeps, RespondKeeps, HourPassesKeeps DEF NT!Next
  <2> QED BY <2>1, <2>2
<1> QED BY <1>1, <1>2, PTL DEF PartsSpec

\* handshake_ntor.go:281: for all lengths, paddings, cuts of the messages and clocks, a client
\* with the bridge's certificate is refused only if the clocks are more than an hour apart
\* when the bridge begins to check, or the hour strikes while it tries the three hours.
THEOREM OnlySkewRefuses == PartsSpec => []RefusedOnlyIfSkewed
<1>1. NtorGood => RefusedOnlyIfSkewed
  BY DEF NtorGood, NtorInv, Refused, RefusedOnlyIfSkewed, NT!RefusedOnlyIfSkewed
<1> QED BY <1>1, NtorHolds, PTL

\* For all lengths, paddings, cuts of the messages and clocks, a client that completes the
\* handshake talks to the bridge of its certificate, both have the same keys, and its buffer
\* holds what follows the answer (clientHandshake, serverHandshake, ntor).
THEOREM NtorKeysAgree == PartsSpec => [](which = "ntor" => NT!KeysAgree)
<1>1. NtorGood => (which = "ntor" => NT!KeysAgree)
  <2> SUFFICES ASSUME NtorInv, sys.cpc = "done"
               PROVE  /\ env.cert = NT!Identity /\ sys.ckeys = <<sys.skeys[2], sys.skeys[1]>>
                      /\ sys.cgot \in 0..SeedFrameLen
    BY DEF NtorGood, NT!KeysAgree
  <2> QED BY DEF NtorInv, Answered, Agreed
<1> QED BY <1>1, NtorHolds, PTL
=============================================================================
