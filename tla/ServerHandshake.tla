-------------------------- MODULE ServerHandshake --------------------------
(***************************************************************************)
(* The bridge's half of the defconn handshake                              *)
(* (DefConn.serverHandshake, serverHandshake.parseClientHandshake,         *)
(* closeAfterDelay), run by any number of connections at once.  They share *)
(* the clock and the factory's replay filter; everything else is local to  *)
(* a connection.                                                           *)
(*                                                                         *)
(* A hello is one client handshake message, with its padding and MAC; the  *)
(* MAC binds it to the hour Epoch[h] its author wrote into it, and anybody *)
(* who saw it may send it again on another connection.  The message is     *)
(* accepted when the MAC verifies for the current hour or one of its       *)
(* neighbours, and the filter has not seen it.                             *)
(*                                                                         *)
(* A step is one read of the clock, one operation on the filter or one     *)
(* operation on the socket: getEpochHour is called anew for each of the    *)
(* three MACs, and time.Now once more for the filter, before its mutex is  *)
(* taken.                                                                  *)
(***************************************************************************)
EXTENDS Integers, Sequences

CONSTANTS Conn,          \* the connections
          Hello,         \* the client handshake messages
          NoHello,       \* no message yet
          Epoch,         \* Epoch[h]: the hour in the MAC of h
          Longest,       \* the messages of maxHandshakeLength bytes
          TicksPerHour,  \* clock ticks in an hour
          MaxClock,      \* bound: the clock stops there
          MaxFilterSize, \* capacity of the replay filter
          MaxStalls      \* bound: ticks that fall while a handshake is evaluated

ASSUME HandshakeAssumption ==
  /\ NoHello \notin Hello
  /\ Epoch \in [Hello -> Nat] /\ Longest \subseteq Hello
  /\ TicksPerHour \in Nat \ {0} /\ MaxClock \in Nat /\ MaxFilterSize \in Nat \ {0}
  /\ MaxStalls \in Nat

VARIABLES clock,   \* the bridge's clock
          pc,      \* where the connection's goroutine stands
          hello,   \* the message in ReceiveBuffer
          clean,   \* does ReceiveBuffer end with the message?
          iter,    \* which of the three MACs is tried
          stamp,   \* the time read for the filter
          found,   \* macFound
          res,     \* what WrapConn returns: an error, or success
          keyed,   \* are Encoder and Decoder set?
          filter, fifo,  \* the replay filter
          stalls,  \* history: how often has a tick fallen while a handshake was evaluated?
          forced   \* history: has a full filter given up an entry before its time?

vars == <<clock, pc, hello, clean, iter, stamp, found, res, keyed, filter, fifo,
          stalls, forced>>
msgVars == <<hello, clean>>
loopVars == <<iter, stamp, found>>
retVars == <<res, keyed>>
filterVars == <<filter, fifo, forced>>

\* A bug: entries expire after two hours.
ShortTTL == 2 * TicksPerHour

ReplayTTL == 3 * TicksPerHour

Filter == INSTANCE ReplayFilter
            WITH Ttl <- ReplayTTL

\* A bug: the hour before is tried twice.
OffsetTwice == <<0, -1, -1>>

Offset == <<0, -1, 1>>

GetEpochHour == clock \div TicksPerHour

Init ==
  /\ clock = 0
  /\ pc = [c \in Conn |-> "read"]
  /\ hello = [c \in Conn |-> NoHello]
  /\ clean = [c \in Conn |-> TRUE]
  /\ iter = [c \in Conn |-> 1]
  /\ stamp = [c \in Conn |-> 0]
  /\ found = [c \in Conn |-> FALSE]
  /\ res = [c \in Conn |-> "none"]
  /\ keyed = [c \in Conn |-> FALSE]
  /\ Filter!FilterInit
  /\ stalls = 0
  /\ forced = FALSE

Evaluating(c) == pc[c] \in {"mac", "stamp", "test"}

\* Time passes.  Evaluating a handshake takes microseconds, a tick minutes, so a tick
\* seldom falls in between.
Tick ==
  /\ clock < MaxClock
  /\ clock' = clock + 1
  /\ IF \E c \in Conn : Evaluating(c)
     THEN stalls < MaxStalls /\ stalls' = stalls + 1
     ELSE UNCHANGED stalls
  /\ UNCHANGED <<pc, msgVars, loopVars, retVars, filterVars>>

\* serverHandshake returns an error: WrapConn goes on to closeAfterDelay.
Fail(c, e) ==
  /\ res' = [res EXCEPT ![c] = e]
  /\ pc' = [pc EXCEPT ![c] = "linger"]
  /\ UNCHANGED keyed

-----------------------------------------------------------------------------
(* Reading the client's message.  A read that leaves the buffer without a  *)
(* mark at its tail and shorter than the longest message changes nothing   *)
(* but the buffer: the loop goes on.                                       *)

\* The buffer ends with a message.  Only behind a message of maximal length can the
\* tail that findMarkMac looks at hide further bytes.
ReadHello(c, h) ==
  /\ pc[c] = "read"
  /\ hello' = [hello EXCEPT ![c] = h]
  /\ \E ends \in (IF h \in Longest THEN BOOLEAN ELSE {TRUE}) :
       clean' = [clean EXCEPT ![c] = ends]
  /\ pc' = [pc EXCEPT ![c] = "mac"]
  /\ UNCHANGED <<clock, stalls, loopVars, retVars, filterVars>>

\* The buffer is as long as the longest message and holds no mark.
ReadTooMuch(c) ==
  /\ pc[c] = "read"
  /\ Fail(c, "invalid")
  /\ UNCHANGED <<clock, stalls, msgVars, loopVars, filterVars>>

\* The peer closed the connection, or serverHandshakeTimeout passed.
ReadFail(c) ==
  /\ pc[c] = "read"
  /\ Fail(c, "readError")
  /\ UNCHANGED <<clock, stalls, msgVars, loopVars, filterVars>>

-----------------------------------------------------------------------------
(* parseClientHandshake: the loop over the three MACs.                     *)

\* The end of an iteration.
NextMac(c) ==
  IF iter[c] < Len(Offset)
  THEN iter' = [iter EXCEPT ![c] = @ + 1] /\ pc' = [pc EXCEPT ![c] = "mac"]
  ELSE iter' = iter /\ pc' = [pc EXCEPT ![c] = "verdict"]

\* The MAC for this iteration's hour: on a match, go to the filter.
CompareMac(c) ==
  /\ pc[c] = "mac"
  /\ IF GetEpochHour + Offset[iter[c]] = Epoch[hello[c]]
     THEN pc' = [pc EXCEPT ![c] = "stamp"] /\ UNCHANGED iter
     ELSE NextMac(c)
  /\ UNCHANGED <<clock, stalls, msgVars, stamp, found, retVars, filterVars>>

\* time.Now(), the argument of TestAndSet.
TakeStamp(c) ==
  /\ pc[c] = "stamp"
  /\ stamp' = [stamp EXCEPT ![c] = clock]
  /\ pc' = [pc EXCEPT ![c] = "test"]
  /\ UNCHANGED <<clock, stalls, msgVars, iter, found, retVars, filterVars>>

\* TestAndSet: a hit ends the handshake, after a miss the other MACs are still tried.
TestHello(c) ==
  /\ pc[c] = "test"
  /\ Filter!TestAndSet(stamp[c], hello[c])
  /\ forced' = (forced \/ (Filter!Full(fifo) /\ Filter!Kept(fifo[1], stamp[c])))
  /\ IF Filter!Seen(stamp[c], hello[c])
     THEN Fail(c, "replayed") /\ UNCHANGED <<iter, found>>
     ELSE NextMac(c) /\ found' = [found EXCEPT ![c] = TRUE] /\ UNCHANGED retVars
  /\ UNCHANGED <<clock, stalls, msgVars, stamp>>

\* After the loop: no MAC matched, or trailing bytes, or ntor refuses the client's key.
Verdict(c) ==
  /\ pc[c] = "verdict"
  /\ \/ ~(found[c] /\ clean[c]) /\ Fail(c, "invalid")
     \/ found[c] /\ clean[c] /\ Fail(c, "ntorFailed")
     \/ /\ found[c] /\ clean[c]
        /\ pc' = [pc EXCEPT ![c] = "keys"]
        /\ UNCHANGED retVars
  /\ UNCHANGED <<clock, stalls, msgVars, loopVars, filterVars>>

-----------------------------------------------------------------------------
(* The rest of serverHandshake and of WrapConn.                            *)

\* Disarm the deadline and set the keys.  If SetDeadline fails, serverHandshake returns
\* nil there and then.
SetKeys(c) ==
  /\ pc[c] = "keys"
  /\ \/ /\ keyed' = [keyed EXCEPT ![c] = TRUE]
        /\ pc' = [pc EXCEPT ![c] = "respond"]
        /\ UNCHANGED res
     \/ /\ res' = [res EXCEPT ![c] = "open"]
        /\ pc' = [pc EXCEPT ![c] = "done"]
        /\ UNCHANGED keyed
  /\ UNCHANGED <<clock, stalls, msgVars, loopVars, filterVars>>

\* Build the response and write it.
Respond(c) ==
  /\ pc[c] = "respond"
  /\ \/ /\ res' = [res EXCEPT ![c] = "open"]
        /\ pc' = [pc EXCEPT ![c] = "done"]
        /\ UNCHANGED keyed
     \/ Fail(c, "writeError")
  /\ UNCHANGED <<clock, stalls, msgVars, loopVars, filterVars>>

\* closeAfterDelay has consumed what the peer sent until its deadline, or the peer left.
Linger(c) ==
  /\ pc[c] = "linger"
  /\ pc' = [pc EXCEPT ![c] = "done"]
  /\ UNCHANGED <<clock, stalls, msgVars, loopVars, retVars, filterVars>>

Handle(c) ==
  \/ \E h \in Hello : ReadHello(c, h)
  \/ ReadTooMuch(c) \/ ReadFail(c)
  \/ CompareMac(c) \/ TakeStamp(c) \/ TestHello(c) \/ Verdict(c)
  \/ SetKeys(c) \/ Respond(c) \/ Linger(c)

Next == Tick \/ \E c \in Conn : Handle(c)

Spec == Init /\ [][Next]_vars
-----------------------------------------------------------------------------
(* Properties.                                                             *)

\* Did connection c get its message past the replay filter?
Passed(c) == found[c] /\ res[c] # "replayed"

\* No message gets past the replay filter on two connections, however long its sender
\* waits between them ("Ensure that this handshake has not been seen previously").
AcceptedOnce ==
  \A c, d \in Conn : c # d /\ hello[c] = hello[d] => ~(Passed(c) /\ Passed(d))

\* The filter fails at that in two ways only: when it is full, and when the clock
\* advances while a handshake is evaluated.  Otherwise an entry outlives the hours for
\* which the MAC of its message verifies, and is found whoever comes second.
AcceptedOnceUnlessForgotten == stalls > 0 \/ forced \/ AcceptedOnce

\* A message is refused as a replay only if it was shown on another connection before.
ReplayedOnlyIfSeen ==
  \A c \in Conn : res[c] = "replayed" => \E d \in Conn \ {c} : hello[d] = hello[c] /\ found[d]

\* An honest client is refused only because the clock advanced between two of the MACs
\* of its own handshake, never because of what other connections do.
RefusedOnlyIfSeen == stalls > 0 \/ ReplayedOnlyIfSeen

\* The filter's map and its list hold the same messages, each once, with whatever times
\* and in whatever order the connections come: an entry that leaves the list leaves the
\* map, so no message is refused for an entry that can no longer expire.
FilterInStep == Filter!MapMatchesList
=============================================================================
