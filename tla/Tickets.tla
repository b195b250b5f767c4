------------------------------- MODULE Tickets -------------------------------
(***************************************************************************)
(* The session tickets of ScrambleSuit: the ticket store and its file      *)
(* (handshake_ticket.go), and the part of clientHandshake (conn.go) that   *)
(* takes a ticket and sends it.                                            *)
(*                                                                         *)
(* The store maps addresses to tickets; one bridge address is modelled, so *)
(* it holds one ticket or none.  The file is rewritten in place: opening   *)
(* it truncates it, and a crash or an error before the end leaves it torn. *)
(***************************************************************************)
EXTENDS Integers, Sequences

CONSTANTS TicketLifetime,  \* ticketLifetime
          Env  \* environments, records with fields
               \*   conns    number of connections dialled
               \*   tickets  bound: tickets the bridge issues
               \*   hours    bound: the clock
               \*   crashes  bound: crashes of the process
               \*   errors   bound: errors writing the file

VARIABLES env,  \* the environment, fixed from the start
          sys   \* process, file and connections
vars == <<env, sys>>

NoTicket == [id |-> 0, issuedAt |-> 0]
Written(t) == [torn |-> FALSE, t |-> t]  \* no file is like one without tickets
Torn == [torn |-> TRUE, t |-> NoTicket]
Conn == [pc |-> "dial", t |-> NoTicket]

Init == /\ env \in Env
        /\ sys = [up |-> "down", store |-> NoTicket, file |-> Written(NoTicket), lock |-> 0,
                  conns |-> [c \in 1..env.conns |-> Conn],
                  now |-> 0, issued |-> 0, crashes |-> 0, errors |-> 0,
                  sent |-> <<>>]  \* history: ids of the tickets sent to the bridge

\* sys with the fields of rec.
With(rec) == [f \in DOMAIN sys |-> IF f \in DOMAIN rec THEN rec[f] ELSE sys[f]]
Step(rec) == sys' = With(rec) /\ UNCHANGED env
Goto(c, pc) == [sys.conns EXCEPT ![c].pc = pc]
Take(c, pc) == [sys.conns EXCEPT ![c] = [pc |-> pc, t |-> sys.store]]
IsValid(t) == t # NoTicket /\ t.issuedAt + TicketLifetime > sys.now

-----------------------------------------------------------------------------
(* loadTicketStore: a file that cannot be parsed keeps the transport from  *)
(* starting; expired tickets are skipped.                                  *)

Load == /\ sys.up = "down"
        /\ IF sys.file.torn THEN Step([up |-> "refused"])
           ELSE Step([up |-> "up", store |-> IF IsValid(sys.file.t) THEN sys.file.t ELSE NoTicket])

-----------------------------------------------------------------------------
(* serialize, called with the store locked: the file is opened, which      *)
(* truncates it, then written.                                             *)

CanFail == sys.errors < env.errors
WriteFile(c, pc) == \/ Step([lock |-> 0, file |-> Written(sys.store), conns |-> Goto(c, pc.ok)])
                    \/ /\ CanFail
                       /\ Step([lock |-> 0, errors |-> sys.errors + 1, conns |-> Goto(c, pc.err)])

-----------------------------------------------------------------------------
(* clientHandshake: the ticket leaves the store, and the file, before use. *)

Ready(c, pc) == sys.up = "up" /\ sys.conns[c].pc = pc

NoTicketFound(c) == /\ Ready(c, "dial") /\ sys.lock = 0 /\ sys.store = NoTicket
                    /\ Step([conns |-> Goto(c, "udh")])

\* A bug: the error is dropped, the ticket used all the same.
GetTicketAnyway(c) ==
  /\ Ready(c, "dial") /\ sys.lock = 0 /\ sys.store # NoTicket
  /\ CanFail
  /\ Step([store |-> NoTicket, errors |-> sys.errors + 1, conns |-> Take(c, "send")])

\* getTicket when the file cannot be opened: the error ends the handshake.
GetTicketError(c) == /\ Ready(c, "dial") /\ sys.lock = 0 /\ sys.store # NoTicket
                     /\ CanFail
                     /\ Step([store |-> NoTicket, errors |-> sys.errors + 1,
                              conns |-> Goto(c, "failed")])

GetTicket(c) == /\ Ready(c, "dial") /\ sys.lock = 0 /\ sys.store # NoTicket
                /\ Step([lock |-> c, store |-> NoTicket, file |-> Torn, conns |-> Take(c, "remove")])

GetTicketWritten(c) == /\ Ready(c, "remove")
                       /\ WriteFile(c, [ok |-> IF IsValid(sys.conns[c].t) THEN "send" ELSE "udh", err |-> "failed"])

SendTicket(c) == /\ Ready(c, "send")
                 /\ \/ Step([sent |-> Append(sys.sent, sys.conns[c].t.id), conns |-> Goto(c, "up")])
                    \/ Step([conns |-> Goto(c, "failed")])

\* The UniformDH handshake; see ScrambleSuit.
HandshakeUDH(c) == Ready(c, "udh") /\ Step([conns |-> Goto(c, "up")])

-----------------------------------------------------------------------------
(* storeTicket, when a packet brings a new ticket: errors are ignored.     *)

NewTicket == [id |-> sys.issued + 1, issuedAt |-> sys.now]
StoreTicket(c) == /\ Ready(c, "up") /\ sys.lock = 0 /\ sys.issued < env.tickets
                  /\ \/ Step([lock |-> c, store |-> NewTicket, file |-> Torn,
                              issued |-> sys.issued + 1, conns |-> Goto(c, "store")])
                     \/ /\ CanFail
                        /\ Step([store |-> NewTicket, errors |-> sys.errors + 1, issued |-> sys.issued + 1])
StoreTicketWritten(c) == Ready(c, "store") /\ WriteFile(c, [ok |-> "up", err |-> "up"])

-----------------------------------------------------------------------------

Crash == /\ sys.up = "up" /\ sys.crashes < env.crashes
         /\ Step([up |-> "down", store |-> NoTicket, lock |-> 0, crashes |-> sys.crashes + 1,
                  conns |-> [c \in 1..env.conns |-> IF sys.conns[c].pc = "dial" THEN Conn ELSE [Conn EXCEPT !.pc = "failed"]]])
HourPasses == sys.now < env.hours /\ Step([now |-> sys.now + 1])

Next == \/ Load \/ Crash \/ HourPasses
        \/ \E c \in 1..env.conns :
             \/ NoTicketFound(c) \/ GetTicketError(c) \/ GetTicket(c) \/ GetTicketWritten(c) \/ SendTicket(c)
             \/ HandshakeUDH(c) \/ StoreTicket(c) \/ StoreTicketWritten(c)
Spec == Init /\ [][Next]_vars

-----------------------------------------------------------------------------
(* Properties. *)

\* handshake_ticket.go:120, "Tickets are one use only": no ticket is sent twice, not by two
\* connections, nor after a crash or an error at any point of the file's update.
TicketsOnce == \A i, j \in DOMAIN sys.sent : i # j => sys.sent[i] # sys.sent[j]
=============================================================================
