------------------------------- MODULE Connect -------------------------------
(***************************************************************************)
(* One connection through the proxy, from accept to close                  *)
(* (obfs4proxy.go: clientHandler, serverHandler, copyLoop; common/socks5;  *)
(* the outgoing proxies).                                                  *)
(*                                                                         *)
(* The application sends messages of the SOCKS5 handshake and then data;   *)
(* it may send ahead and close at any time.  The parser reads through a    *)
(* bufio.Reader, which takes what is there, and refuses to go on when that *)
(* holds more than the message it wanted.  Messages are read in full, so   *)
(* each is one token.                                                      *)
(***************************************************************************)
EXTENDS Integers, Sequences, SequencesExt, TLC

CONSTANT Env  \* environments, records with fields
              \*   side     "client" or "bridge"
              \*   app      the messages of the application, in order
              \*   methods  the authentication methods it offers
              \*   args     its arguments, a sequence of <<key, value>>, each a sequence
              \*            of characters "\\", "=", ";" and others
              \*   ulen     the characters that fit into a username
              \*   parse    what the transport's ParseArgs makes of them: "ok", "error"
              \*            or, in the transports built on defconn when the certificate
              \*            is malformed and the rest is there, "panic"
              \*   proxy    "none", "http", "socks4" or "socks5"
              \*   target   "ipv4", "ipv6" or "name"
              \*   broken   may the application's connection close or time out?

VARIABLES env,  \* the environment, fixed from the start
          sys   \* the handler and its connections
vars == <<env, sys>>

Init == /\ env \in Env
        /\ sys = [pc |-> IF env.side = "client" THEN "greet" ELSE "wrap",
                  sent |-> 0,            \* messages the application has sent
                  taken |-> 0,           \* those the bufio.Reader has read
                  used |-> 0,            \* those the parser has consumed
                  conn |-> "open",       \* the application's connection
                  remote |-> "none",     \* the outgoing connection
                  args |-> <<>>, replies |-> <<>>]
Step(rec) == sys' = rec @@ sys /\ UNCHANGED env

-----------------------------------------------------------------------------
(* The application. *)

AppSend == /\ env.side = "client" /\ sys.conn = "open" /\ sys.sent < Len(env.app)
           /\ Step([sent |-> sys.sent + 1])
AppClose == /\ env.broken /\ sys.conn = "open" /\ sys.pc \notin {"done", "panic"}
            /\ Step([conn |-> "gone"])

\* tor's encoding of the arguments.
Escaped(s) == FlattenSeq([i \in DOMAIN s |-> IF s[i] \in {"\\", "=", ";"} THEN <<"\\", s[i]>> ELSE <<s[i]>>])
Encoded(args) == FlattenSeq([i \in DOMAIN args |->
  (IF i > 1 THEN <<";">> ELSE <<>>) \o Escaped(args[i][1]) \o <<"=">> \o Escaped(args[i][2])])

\* What does not fit into the username goes into the password, which is NUL otherwise.
Username == SubSeq(Encoded(env.args), 1, Min({env.ulen, Len(Encoded(env.args))}))
Password == IF Len(Encoded(env.args)) <= env.ulen THEN <<"NUL">>
            ELSE SubSeq(Encoded(env.args), env.ulen + 1, Len(Encoded(env.args)))

-----------------------------------------------------------------------------
(* The end of the handler: the deferred closes. *)

End(rec) == Step([pc |-> "done", conn |-> "closed",
                  remote |-> IF sys.remote = "none" THEN "none" ELSE "closed"] @@ rec)
\* A reply reaches the application if its connection is still there.
Answer(code) == [replies |-> IF sys.conn = "open" THEN Append(sys.replies, code) ELSE sys.replies]

-----------------------------------------------------------------------------
(* Handshake.  negotiateAuth, authRFC1929 and readCommand each consume one *)
(* message, answer it and go through flushBuffers.                         *)

Reading == {"greet", "auth", "cmd"}

Fill == /\ sys.pc \in Reading /\ sys.taken = sys.used
        /\ \E n \in (sys.taken + 1)..sys.sent : Step([taken |-> n])

Message == env.app[sys.used + 1]
Received(pc) == sys.pc = pc /\ sys.taken > sys.used

\* A bug: what the reader holds beyond the message is forgotten.
FlushedAnyway(pc) == Step([pc |-> pc, used |-> sys.used + 1])

\* flushBuffers: trailing data ends the handshake, without a reply.
Flushed(pc) == IF sys.taken > sys.used + 1 THEN End(<<>>) ELSE Step([pc |-> pc, used |-> sys.used + 1])

\* negotiateAuth picks the password method first.
Greet == /\ Received("greet")
         /\ IF Message # "greet" \/ env.methods \cap {"password", "none"} = {} THEN End(<<>>)
            ELSE Flushed(IF "password" \in env.methods THEN "auth" ELSE "cmd")

\* parseClientParameters, one character.
ParseChar(st, ch, last) ==
  CASE st.bad -> st
    [] ~st.bad /\ ch = "\\" /\ ~st.esc -> [st EXCEPT !.esc = TRUE]
    [] ~st.bad /\ ch = "=" /\ ~st.esc /\ st.key = <<>> ->
         [st EXCEPT !.bad = st.acc = <<>>, !.key = st.acc, !.acc = <<>>]
    [] ~st.bad /\ ch = ";" /\ ~st.esc ->
         [st EXCEPT !.bad = st.key = <<>> \/ last, !.args = Append(@, <<st.key, st.acc>>), !.key = <<>>, !.acc = <<>>]
    [] OTHER -> [st EXCEPT !.bad = st.esc /\ ch \notin {"\\", "=", ";"}, !.esc = FALSE, !.acc = Append(@, ch)]

ParseClientParameters(str) ==
  LET st == FoldLeftDomain(LAMBDA acc, i : ParseChar(acc, str[i], i = Len(str)),
                           [key |-> <<>>, acc |-> <<>>, esc |-> FALSE, bad |-> FALSE, args |-> <<>>], str)
  IN IF str = <<>> THEN [ok |-> TRUE, args |-> <<>>]
     ELSE IF st.bad \/ st.esc \/ st.key = <<>> THEN [ok |-> FALSE, args |-> <<>>]
     ELSE [ok |-> TRUE, args |-> Append(st.args, <<st.key, st.acc>>)]

\* authRFC1929: the two fields are joined, without the NUL.
Auth == /\ Received("auth")
        /\ LET argStr == Username \o IF Password = <<"NUL">> THEN <<>> ELSE Password
               parsed == ParseClientParameters(argStr)
           IN
           IF Message # "auth" \/ Username = <<>> \/ ~parsed.ok THEN End(<<>>)
           ELSE IF sys.taken > sys.used + 1 THEN Flushed("cmd")
           ELSE Step([pc |-> "cmd", used |-> sys.used + 1, args |-> parsed.args])

\* readCommand: what it cannot serve it answers with the code for it.
Cmd == /\ Received("cmd")
       /\ CASE Message = "connect"    -> Flushed("args")
            [] Message = "bind"       -> End(Answer("command not supported"))
            [] Message = "badaddress" -> End(Answer("address not supported"))
            [] OTHER                  -> End(Answer("general failure"))

\* The end of the stream, or requestTimeout, which also fails the reply.
HandshakeFails == /\ sys.pc \in Reading /\ sys.taken = sys.used /\ env.broken
                  /\ End(<<>>)

-----------------------------------------------------------------------------
(* clientHandler. *)

ParseArgs == /\ sys.pc = "args"
             /\ CASE env.parse = "ok"    -> Step([pc |-> "dial"])
                  [] env.parse = "error" -> End(Answer("general failure"))
                  [] env.parse = "panic" -> Step([pc |-> "panic"])

\* A transport's Dial: the TCP connection, to the bridge or to the proxy.  SOCKS4 looks at
\* the address first.  ErrorToReplyCode tells the errors of the system apart.
DialFails == {"general failure", "network unreachable", "host unreachable", "connection refused",
              "TTL expired", "address not supported"}
DialTCP == /\ sys.pc = "dial"
           /\ IF env.proxy = "socks4" /\ env.target # "ipv4" THEN End(Answer("general failure"))
              ELSE \/ Step([remote |-> "open", pc |-> IF env.proxy = "none" THEN "transport" ELSE "proxy"])
                   \/ \E code \in DialFails : End(Answer(code))

\* The proxy's answer: a refusal closes the connection to it.
DialProxy == /\ sys.pc = "proxy"
             /\ Step([pc |-> "transport"]) \/ End(Answer("general failure"))

\* The transport's handshake: a failure closes the connection it was given.
DialTransport == /\ sys.pc = "transport"
                 /\ Step([pc |-> "reply"]) \/ (\E code \in DialFails : End(Answer(code)))

\* Reply.  If the application is gone, the handler ends.
Reply == /\ sys.pc = "reply"
         /\ IF sys.conn = "open" THEN Step([pc |-> "up"] @@ Answer("succeeded")) ELSE End(<<>>)

-----------------------------------------------------------------------------
(* serverHandler. *)

WrapConn == sys.pc = "wrap" /\ (Step([pc |-> "orport"]) \/ End(<<>>))
DialOr == sys.pc = "orport" /\ (Step([pc |-> "up", remote |-> "open"]) \/ End(<<>>))

-----------------------------------------------------------------------------
(* copyLoop: one direction ends and closes both connections, then the      *)
(* other ends.                                                             *)

CopyEnds == sys.pc = "up" /\ Step([pc |-> "half", conn |-> "closed", remote |-> "closed"])
CopyLoopReturns == sys.pc = "half" /\ End(<<>>)

Next == \/ AppSend \/ AppClose \/ Fill \/ Greet \/ Auth \/ Cmd \/ HandshakeFails \/ ParseArgs
        \/ DialTCP \/ DialProxy \/ DialTransport \/ Reply \/ WrapConn \/ DialOr \/ CopyEnds \/ CopyLoopReturns
Spec == Init /\ [][Next]_vars

-----------------------------------------------------------------------------
(* Properties. *)

\* When the two connections are spliced, the arguments are those the application encoded,
\* the parser has swallowed nothing of the data behind the request, however far ahead the
\* application sent, and exactly one reply went out.  A request is never answered twice, and
\* when the handler is done nothing is left open.
RequestExact ==
  /\ sys.pc = "up" /\ env.side = "client" =>
       /\ sys.taken = sys.used /\ env.app[sys.used] = "connect"
       /\ "password" \in env.methods => sys.args = env.args
       /\ sys.replies = <<"succeeded">>
  /\ Len(sys.replies) <= 1
  /\ "succeeded" \in Range(sys.replies) => sys.remote # "none"
  /\ sys.pc = "done" => sys.remote # "open" /\ sys.conn # "open"
=============================================================================
