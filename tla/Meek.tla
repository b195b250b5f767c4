-------------------------------- MODULE Meek --------------------------------
(***************************************************************************)
(* The meek_lite client (transports/meeklite): meekConn, its worker, the   *)
(* round tripper that picks the HTTP transport on the first request, and   *)
(* the two goroutines of copyLoop that write to and read from it.          *)
(*                                                                         *)
(* Bytes the application sends are the numbers 1, 2, ...; what the server  *)
(* answers is counted in pieces of the size one Read takes.  A request is  *)
(* answered or fails; a status other than 200 may hide that the server     *)
(* took the body.                                                          *)
(***************************************************************************)
EXTENDS Integers, Sequences, SequencesExt, TLC

CONSTANTS MaxPayloadLength,  \* maxPayloadLength
          MaxRetries,        \* maxRetries
          MaxChanBacklog,    \* maxChanBacklog
          MaxPollInterval,   \* maxPollInterval, in steps of the backoff
          Env  \* environments, records with fields
               \*   writes  sizes of the application's writes
               \*   down    pieces the server has to send
               \*   scheme  "http" or "https"
               \*   utls    FALSE for the argument utls=none
               \*   pinned  does the host have pins, unexpired and not disabled?
               \*   certs   chains the other side may present, of "pin" and "other"
               \*   status  may the server answer with another status than 200?
               \*   fails   may a dial, a handshake or a request fail?

VARIABLES env,  \* the environment, fixed from the start
          sys   \* the connection, its goroutines and the server
vars == <<env, sys>>

Init == /\ env \in Env
        /\ sys = [app |-> "open",                        \* the SOCKS connection
                  writer |-> "copy", wrote |-> 0,        \* io.Copy(b, a); writes accepted
                  reader |-> "copy", rdBuf |-> 0,        \* io.Copy(a, b); pieces left over
                  closed |-> FALSE,                      \* workerCloseChan
                  wrChan |-> <<>>, rdChan |-> <<>>, chansClosed |-> FALSE,
                  pc |-> "select", snd |-> <<>>, left |-> <<>>, recv |-> 0,
                  tries |-> 0, interval |-> 1,           \* in units of initPollInterval
                  transport |-> IF env.utls THEN "none" ELSE "std",
                  initConn |-> "none", conn |-> "none",
                  server |-> <<>>, down |-> env.down, got |-> 0, resent |-> FALSE]
Step(rec) == sys' = rec @@ sys /\ UNCHANGED env

-----------------------------------------------------------------------------
(* The application and copyLoop. *)

\* The end of a copy goroutine: its deferred calls close both connections.
CopyEnds(rec) == Step([closed |-> TRUE, app |-> "closed"] @@ rec)
AppClose == sys.app = "open" /\ Step([app |-> "closed"])

Start(k) == FoldLeft(LAMBDA n, i : n + env.writes[i], 0, [i \in 1..(k - 1) |-> i])
Chunk(k) == [i \in 1..env.writes[k] |-> Start(k) + i]

\* Write looks at workerCloseChan, then enqueues; the channel may fill up or
\* be closed in between, and the panic of the send is turned into an error.
Write == /\ sys.writer = "copy" /\ ~sys.closed /\ sys.app = "open" /\ sys.wrote < Len(env.writes)
         /\ Step([writer |-> "enqueue"])
WriterEnds == /\ sys.writer = "copy"
              /\ sys.app = "closed" \/ (sys.closed /\ sys.wrote < Len(env.writes))
              /\ CopyEnds([writer |-> "gone"])
EnqueueWrite == /\ sys.writer = "enqueue"
                /\ IF sys.chansClosed THEN CopyEnds([writer |-> "gone"])
                   ELSE /\ Len(sys.wrChan) < MaxChanBacklog
                        /\ Step([writer |-> "copy", wrote |-> sys.wrote + 1,
                                 wrChan |-> Append(sys.wrChan, Chunk(sys.wrote + 1))])

\* Read serves the rest of the last answer, or waits for the worker.
Given(rest, rec) == IF sys.app = "open" THEN Step([rdBuf |-> rest, got |-> sys.got + 1] @@ rec)
                    ELSE CopyEnds([rdBuf |-> rest, reader |-> "gone"] @@ rec)
Read == /\ sys.reader = "copy"
        /\ \/ sys.rdBuf > 0 /\ Given(sys.rdBuf - 1, <<>>)
           \/ /\ sys.rdBuf = 0 /\ sys.rdChan # <<>>
              /\ Given(Head(sys.rdChan) - 1, [rdChan |-> Tail(sys.rdChan)])
ReadClosed == /\ sys.reader = "copy" /\ sys.rdBuf = 0 /\ sys.rdChan = <<>> /\ sys.chansClosed
              /\ CopyEnds([reader |-> "gone"])

-----------------------------------------------------------------------------
(* ioWorker. *)

Min2(a, b) == IF a < b THEN a ELSE b

\* How many queued writes are combined: as long as the payload is not full.
Combined(buf, chan) ==
  LET size(k) == Len(buf) + Len(FlattenSeq(SubSeq(chan, 1, k)))
  IN  CHOOSE k \in 0..Len(chan) : /\ \A j \in 0..(k - 1) : size(j) < MaxPayloadLength
                                  /\ k = Len(chan) \/ size(k) >= MaxPayloadLength

Issue(first, chan) ==
  LET k   == Combined(first, chan)
      buf == first \o FlattenSeq(SubSeq(chan, 1, k))
      n   == Min2(Len(buf), MaxPayloadLength)
  IN  Step([pc |-> "trip", tries |-> 0, wrChan |-> SubSeq(chan, k + 1, Len(chan)),
            snd |-> SubSeq(buf, 1, n), left |-> SubSeq(buf, n + 1, Len(buf))])

Poll == sys.pc = "select" /\ Issue(sys.left, sys.wrChan)
TakeWrite == /\ sys.pc = "select" /\ sys.wrChan # <<>>
             /\ Issue(sys.left \o Head(sys.wrChan), Tail(sys.wrChan))

\* A bug: the channels are left open.
WorkerEndsSilent(rec) == Step([pc |-> "done", closed |-> TRUE] @@ rec)

\* The channels are closed for Read and Write that wait, then the connection.
WorkerEnds(rec) == Step([pc |-> "done", chansClosed |-> TRUE, closed |-> TRUE] @@ rec)
TakeClose == sys.pc = "select" /\ sys.closed /\ WorkerEnds(<<>>)

\* The next poll: at once after traffic, else with a growing delay.
Backoff(sent, recv) == CASE sent > 0 \/ recv > 0 -> 0
                         [] sys.interval = 0     -> 1
                         [] OTHER                -> Min2(sys.interval + 1, MaxPollInterval)
Push == /\ sys.pc = "push" /\ Len(sys.rdChan) < MaxChanBacklog
        /\ Step([pc |-> "select", rdChan |-> Append(sys.rdChan, sys.recv), recv |-> 0])

-----------------------------------------------------------------------------
(* roundTripper: the first request over TLS dials to learn the protocol    *)
(* and stashes the connection for the transport it then builds.            *)

TLS == env.utls /\ env.scheme = "https"
Verified(cert) == env.pinned => cert = "pin"
Tripping == sys.pc = "trip" /\ sys.conn = "none"
Refused == env.fails \/ (TLS /\ \E cert \in env.certs : ~Verified(cert))

GetTransport == /\ Tripping /\ sys.transport = "none"
                /\ IF ~TLS THEN Step([transport |-> "http1"])
                   ELSE \E cert \in env.certs, proto \in {"http1", "http2"} :
                          /\ Verified(cert)
                          /\ Step([transport |-> proto, initConn |-> cert])
\* dialTLS again, by the HTTP transport when it needs a connection.
DialTLS == /\ Tripping /\ sys.transport # "none"
           /\ IF ~TLS THEN Step([conn |-> "plain"])
              ELSE IF sys.initConn # "none"
                   THEN Step([conn |-> sys.initConn, initConn |-> "none"])
                   ELSE \E cert \in env.certs : Verified(cert) /\ Step([conn |-> cert])
DialFails == Tripping /\ Refused /\ sys.initConn = "none" /\ WorkerEnds(<<>>)

-----------------------------------------------------------------------------
(* roundTrip: another status is retried with the same body, up to          *)
(* maxRetries times; an error ends the worker.                             *)

Connected == sys.pc = "trip" /\ sys.conn # "none"
\* The HTTP transport keeps an idle connection or loses it.
Keeps == {sys.conn, "none"}

Answered == \E n \in 0..Min2(sys.down, MaxPayloadLength), keep \in Keeps :
  /\ Connected
  /\ Step([server |-> sys.server \o sys.snd, down |-> sys.down - n, recv |-> n, conn |-> keep,
           pc |-> IF n > 0 THEN "push" ELSE "select",
           interval |-> Backoff(Len(sys.snd), n)])

OtherStatus == \E keep \in Keeps, taken \in BOOLEAN :
  /\ Connected /\ env.status
  /\ LET rec == [server |-> IF taken THEN sys.server \o sys.snd ELSE sys.server,
                 resent |-> sys.resent \/ (taken /\ sys.snd # <<>>),
                 conn |-> keep, tries |-> sys.tries + 1]
     IN  IF sys.tries + 1 < MaxRetries THEN Step(rec) ELSE WorkerEnds(rec)

TripFails == \E taken \in BOOLEAN :
  Connected /\ env.fails
  /\ WorkerEnds([conn |-> "none", server |-> IF taken THEN sys.server \o sys.snd ELSE sys.server])

Worker == \/ Poll \/ TakeWrite \/ TakeClose \/ Push
          \/ GetTransport \/ DialTLS \/ DialFails \/ Answered \/ OtherStatus \/ TripFails
Writer == Write \/ WriterEnds \/ EnqueueWrite
Reader == Read \/ ReadClosed
Next == AppClose \/ Writer \/ Reader \/ Worker

\* Every goroutine goes on, a request is answered or fails, the application
\* takes what it is given or closes, and a select does not pass over one
\* ready case forever.
Fairness == WF_vars(Writer) /\ WF_vars(Reader) /\ WF_vars(Worker) /\ SF_vars(TakeClose)
Spec == Init /\ [][Next]_vars /\ Fairness

-----------------------------------------------------------------------------
(* Properties. *)

AllWritten == FlattenSeq([k \in 1..Len(env.writes) |-> Chunk(k)])
\* The server receives the application's bytes in order, each once, unless a
\* request was retried although the server had taken it (ioWorker, roundTrip).
InOrder == sys.resent \/ IsPrefix(sys.server, AllWritten)

\* With pins, no connection to the server is used whose chain misses them
\* (dialTLS): whether it was dialled first, stashed or dialled again.
PinsHold == (TLS /\ env.pinned) => sys.conn \in {"none", "pin"}

\* The worker waits to hand over an answer nobody will take.
Stuck == sys.pc = "push" /\ Len(sys.rdChan) = MaxChanBacklog /\ sys.reader = "gone"
AllEnded == sys.pc = "done" /\ sys.reader = "gone" /\ sys.writer = "gone"
\* A closed connection ends with its worker and both copy goroutines, unless
\* the worker is stuck on a full workerRdChan (ioWorker, copyLoop).
EndsUnlessStuck == sys.closed ~> (AllEnded \/ Stuck)
=============================================================================
