-------------------------------- MODULE Ntor --------------------------------
(***************************************************************************)
(* Both halves of the obfs4 handshake (transports/obfs4/handshake_ntor.go, *)
(* clientHandshake and serverHandshake of obfs4.go) over common/ntor.      *)
(*                                                                         *)
(* A message is a record; what has arrived of it is a number of bytes, cut *)
(* anywhere.  Keys are names: the secret two keys share is the set of the  *)
(* two, a hash or MAC is the tuple of what goes in.  Of the replay filter  *)
(* only this message's own entry matters here: others are ServerHandshake. *)
(***************************************************************************)
EXTENDS Integers, Sequences

CONSTANTS ReprLen, AuthLen, MarkLen, MacLen,  \* lengths of the fields
          SeedFrameLen,                       \* inlineSeedFrameLength
          MaxHandshakeLength,                 \* maxHandshakeLength
          Env  \* environments, records with fields
               \*   skew   hours the client's clock is ahead of the bridge's
               \*   cert   the identity key the client was configured with
               \*   hours  bound: hours that pass
               \*   fault  may deadlines pass, and SetDeadline fail at the bridge?

ClientMin == ReprLen + MarkLen + MacLen
ServerMin == ReprLen + AuthLen + MarkLen + MacLen
ClientPads == (ServerMin + SeedFrameLen - ClientMin)..(MaxHandshakeLength - ClientMin)
ServerPads == 0..(MaxHandshakeLength - (ServerMin + SeedFrameLen))

Identity == "b"  \* the bridge's identity key

VARIABLES env,  \* the environment, fixed from the start
          sys   \* both ends and the network
vars == <<env, sys>>

Init == /\ env \in Env
        /\ sys = [hour |-> 5, cpc |-> "start", spc |-> "read",
                  hello |-> <<>>, resp |-> <<>>,      \* the messages sent
                  cgot |-> 0, sgot |-> 0,             \* bytes of them in the receiveBuffers
                  epoch |-> 0, sepoch |-> 0,          \* epochHour of client and bridge
                  auth |-> <<>>,                      \* serverAuth
                  ckeys |-> <<>>, skeys |-> <<>>,     \* <<encoder key, decoder key>>
                  try |-> 1,                          \* which of the hours the bridge tries next
                  hits |-> 0,                         \* times the MAC matched: then the filter has it
                  checked |-> 0, last |-> 0]          \* history: the hours of its first and last try

\* r with the fields of rec.
With(r, rec) == [f \in DOMAIN r |-> IF f \in DOMAIN rec THEN rec[f] ELSE r[f]]
Step(rec) == sys' = With(sys, rec) /\ UNCHANGED env
Hour(skew) == sys.hour + skew

-----------------------------------------------------------------------------
(* common/ntor. *)

Shared(a, b) == {a, b}
NtorCommon(secret, b, x, y) == [seed |-> <<"key", secret, b, x, y>>, auth |-> <<"auth", secret, b, x, y>>]

ClientNtor(x, y, b) == NtorCommon(<<Shared(x, y), Shared(x, b)>>, b, x, y)
ServerNtor(x, y, b) == NtorCommon(<<Shared(y, x), Shared(b, x)>>, b, x, y)

\* Kdf: the two halves of the output, for client to bridge and back.
Kdf(seed) == <<<<seed, 1>>, <<seed, 2>>>>

-----------------------------------------------------------------------------
(* The messages.  Mark and MAC are keyed with the identity key. *)

Hello(x, b, pad, hour) == [repr |-> x, pad |-> pad, mark |-> <<b, x>>, mac |-> <<b, x, pad, hour>>]
Resp(y, auth, b, pad, hour) ==
  [repr |-> y, auth |-> auth, pad |-> pad, mark |-> <<b, y>>, mac |-> <<b, y, auth, pad, hour>>]
HelloLen(m) == ClientMin + m.pad
RespLen(m) == ServerMin + m.pad

-----------------------------------------------------------------------------
(* The client. *)

SendHello == /\ sys.cpc = "start"
             /\ \E pad \in ClientPads :
                  Step([cpc |-> "read", epoch |-> Hour(env.skew),
                        hello |-> Hello("x", env.cert, pad, Hour(env.skew))])

ClientRead == /\ sys.cpc = "read" /\ sys.resp # <<>>
              /\ \E n \in (sys.cgot + 1)..(RespLen(sys.resp) + SeedFrameLen) :
                   Step([cgot |-> n, cpc |-> "parse"])

\* findMarkMac, from the front: mark and MAC have arrived within the first
\* maxHandshakeLength bytes.
RespFound == /\ sys.resp.mark = <<env.cert, sys.resp.repr>>
             /\ RespLen(sys.resp) <= sys.cgot /\ RespLen(sys.resp) <= MaxHandshakeLength

\* The rest of the buffer is left for the decoder.
ClientParse == /\ sys.cpc = "parse"
               /\ LET m == sys.resp
                      n == ClientNtor("x", m.repr, env.cert) IN
                  CASE sys.cgot < ServerMin -> Step([cpc |-> "read"])
                    [] sys.cgot >= ServerMin /\ ~RespFound ->
                         Step([cpc |-> IF sys.cgot >= MaxHandshakeLength THEN "failed" ELSE "read"])
                    [] OTHER ->
                         IF m.mac = <<env.cert, m.repr, m.auth, m.pad, sys.epoch>> /\ n.auth = m.auth
                         THEN Step([cpc |-> "done", cgot |-> sys.cgot - RespLen(m), ckeys |-> Kdf(n.seed)])
                         ELSE Step([cpc |-> "failed"])

\* Read errors and deadlines; a bridge that gave up closes the connection.
ClientFails == /\ sys.cpc = "read" /\ (env.fault \/ sys.spc = "failed")
               /\ Step([cpc |-> "failed"])

-----------------------------------------------------------------------------
(* The bridge. *)

ServerRead == /\ sys.spc = "read" /\ sys.hello # <<>>
              /\ \E n \in (sys.sgot + 1)..HelloLen(sys.hello) : Step([sgot |-> n, spc |-> "parse"])

\* findMarkMac, from the tail.
HelloFound == sys.hello.mark = <<Identity, sys.hello.repr>> /\ sys.sgot = HelloLen(sys.hello)

\* A bug: only the current hour is tried.
TriedNow == <<0>>

Tried == <<0, -1, 1>>

ServerParse == /\ sys.spc = "parse"
               /\ CASE sys.sgot < ClientMin -> Step([spc |-> "read"])
                    [] sys.sgot >= ClientMin /\ ~HelloFound ->
                         Step([spc |-> IF sys.sgot >= MaxHandshakeLength THEN "failed" ELSE "read"])
                    [] OTHER -> Step([spc |-> "mac"])

\* One pass of the loop over the hours.  It reads the clock, and goes on after a match: a
\* second match finds the MAC in the replay filter.
TryMac == /\ sys.spc = "mac" /\ sys.try <= Len(Tried)
          /\ LET m == sys.hello
                 hour == Hour(Tried[sys.try])
                 hit == m.mac = <<Identity, m.repr, m.pad, hour>> IN
             Step([try |-> sys.try + 1,
                   checked |-> IF sys.try = 1 THEN sys.hour ELSE sys.checked, last |-> sys.hour,
                   spc |-> IF hit /\ sys.hits > 0 THEN "failed" ELSE "mac",
                   hits |-> IF hit THEN sys.hits + 1 ELSE sys.hits,
                   sepoch |-> IF hit THEN hour ELSE sys.sepoch])

ServerDerive == /\ sys.spc = "mac" /\ sys.try > Len(Tried)
                /\ LET n == ServerNtor(sys.hello.repr, "y", Identity) IN
                   IF sys.hits = 0 THEN Step([spc |-> "failed"])
                   ELSE Step([spc |-> "keys", auth |-> n.auth,
                              skeys |-> <<Kdf(n.seed)[2], Kdf(n.seed)[1]>>])

\* If resetting the deadline fails, the connection is handed out without keys.
ServerNoDeadline == /\ sys.spc = "keys" /\ env.fault /\ sys.resp = <<>>
                    /\ Step([spc |-> "done", skeys |-> <<>>])

\* The response and the frame with the PRNG seed go out in one write.
Respond == /\ sys.spc = "keys"
           /\ \E pad \in ServerPads :
                Step([spc |-> "done", resp |-> Resp("y", sys.auth, Identity, pad, sys.sepoch)])

\* Read and write errors; a client that gave up closes the connection.
ServerFails == /\ sys.spc \in {"read", "keys"} /\ (env.fault \/ sys.cpc = "failed")
               /\ Step([spc |-> "failed", skeys |-> <<>>])

HourPasses == sys.hour < 5 + env.hours /\ Step([hour |-> sys.hour + 1])

Next == \/ SendHello \/ ClientRead \/ ClientParse \/ ClientFails \/ ServerRead \/ ServerParse
        \/ TryMac \/ ServerDerive \/ ServerNoDeadline \/ Respond \/ ServerFails \/ HourPasses
Spec == Init /\ [][Next]_vars

-----------------------------------------------------------------------------
(* Properties. *)

\* The client accepts only the bridge it was configured for, and then both have the same
\* keys with the directions exchanged, and its buffer holds exactly what follows the
\* response, however the messages were cut and although an hour may have passed.
KeysAgree == sys.cpc = "done" => /\ env.cert = Identity
                                 /\ sys.ckeys = <<sys.skeys[2], sys.skeys[1]>>
                                 /\ sys.cgot \in 0..SeedFrameLen

\* A client with the right certificate and no network fault is refused only if, when the
\* bridge begins to check its message, the two clocks and the hours that passed are further
\* apart than the one hour the bridge allows for, or if the hour strikes while it checks
\* (handshake_ntor.go:281: then it may miss the hour of the message or meet it twice, and take
\* the message for a replay of itself).
RefusedOnlyIfSkewed == ~env.fault /\ env.cert = Identity /\ "failed" \in {sys.cpc, sys.spc} =>
                       ~(sys.epoch - sys.checked \in -1..1) \/ sys.last # sys.checked
=============================================================================
