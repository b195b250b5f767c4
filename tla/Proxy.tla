------------------------------- MODULE Proxy -------------------------------
(***************************************************************************)
(* The process (obfs4proxy): main, the listeners' accept loops, one        *)
(* handler goroutine per connection, and the termination monitor.          *)
(*                                                                         *)
(* main sets the listeners up and then sits in termMonitor.wait, a select  *)
(* over two unbuffered channels: handlers announce their start and end on  *)
(* handlerChan, signals and the goroutine that watches the parent use      *)
(* sigChan.  SIGTERM ends the process; a first SIGINT closes the listeners *)
(* and makes wait return when the number of handlers is 0.                 *)
(*                                                                         *)
(* A rendezvous on an unbuffered channel is one step of both parties, and  *)
(* needs main to be parked in the select.  The package os/signal does not  *)
(* wait for that: a signal that finds main anywhere else is dropped.       *)
(*                                                                         *)
(* What a handler does between its start and its end, the SOCKS or         *)
(* transport handshake and copyLoop, is one step here, however it ends.    *)
(***************************************************************************)
EXTENDS Integers, FiniteSets

CONSTANTS Method,     \* the transports the parent asked for
          Conn,       \* the connections that will be made to the listeners
          MaxSignals  \* bound: the number of signals sent to the process

ASSUME ProxyAssumption == IsFiniteSet(Conn) /\ MaxSignals \in Nat

VARIABLES
  mpc,       \* where main stands
  graceful,  \* has main passed its first wait, i.e. is this wait(true)?
  pending,   \* the transports setup has not come to yet
  launched,  \* did setup launch a listener?
  open,      \* the open listeners, each with an accept loop
  hpc,       \* the state of a connection's handler
  num,       \* numHandlers
  watch,     \* the goroutine that watches for the parent's death
  why,       \* why the process ended
  nsig       \* number of signals sent

vars == <<mpc, graceful, pending, launched, open, hpc, num, watch, why, nsig>>
setupVars == <<pending, launched>>

SIGINT == "SIGINT"
SIGTERM == "SIGTERM"

Init ==
  /\ mpc = "setup" /\ graceful = FALSE
  /\ pending = Method /\ launched = FALSE /\ open = {}
  /\ hpc = [c \in Conn |-> "none"]
  /\ num = 0
  /\ watch = "watching"
  /\ why = "none"
  /\ nsig = 0

Exit(reason) == mpc' = "exited" /\ why' = reason

-----------------------------------------------------------------------------
(* Setup: clientSetup or serverSetup.                                      *)

\* A transport gets its listener, or is skipped: unknown, no factory, no address.
SetupMethod(m) ==
  /\ mpc = "setup"
  /\ m \in pending
  /\ pending' = pending \ {m}
  /\ \/ open' = open \cup {m} /\ launched' = TRUE
     \/ UNCHANGED <<open, launched>>
  /\ UNCHANGED <<mpc, graceful, hpc, num, watch, why, nsig>>

\* Without a single listener the process gives up.
SetupDone ==
  /\ mpc = "setup"
  /\ pending = {}
  /\ IF launched THEN mpc' = "select" /\ UNCHANGED why ELSE Exit("setup")
  /\ UNCHANGED <<graceful, setupVars, open, hpc, num, watch, nsig>>

-----------------------------------------------------------------------------
(* The accept loops and the handlers.                                      *)

Accept(c) ==
  /\ mpc # "exited"
  /\ open # {}
  /\ hpc[c] = "none"
  /\ hpc' = [hpc EXCEPT ![c] = "starting"]
  /\ UNCHANGED <<mpc, graceful, setupVars, open, num, watch, why, nsig>>

\* Accept fails for good: the loop closes its listener and ends.
AcceptFail(m) ==
  /\ mpc # "exited"
  /\ m \in open
  /\ open' = open \ {m}
  /\ UNCHANGED <<mpc, graceful, setupVars, hpc, num, watch, why, nsig>>

\* A bug: the monitor forgets to count.
HandlerStartUncounted(c) ==
  /\ mpc = "select"
  /\ hpc[c] = "starting"
  /\ hpc' = [hpc EXCEPT ![c] = "running"]
  /\ mpc' = "check"
  /\ UNCHANGED <<graceful, setupVars, open, num, watch, why, nsig>>

\* onHandlerStart meets main.
HandlerStart(c) ==
  /\ mpc = "select"
  /\ hpc[c] = "starting"
  /\ hpc' = [hpc EXCEPT ![c] = "running"]
  /\ num' = num + 1
  /\ mpc' = "check"
  /\ UNCHANGED <<graceful, setupVars, open, watch, why, nsig>>

\* The handler's work is done, or failed; its deferred onHandlerFinish is next.
HandlerReturn(c) ==
  /\ mpc # "exited"
  /\ hpc[c] = "running"
  /\ hpc' = [hpc EXCEPT ![c] = "finishing"]
  /\ UNCHANGED <<mpc, graceful, setupVars, open, num, watch, why, nsig>>

\* onHandlerFinish meets main.
HandlerFinish(c) ==
  /\ mpc = "select"
  /\ hpc[c] = "finishing"
  /\ hpc' = [hpc EXCEPT ![c] = "gone"]
  /\ num' = num - 1
  /\ mpc' = "check"
  /\ UNCHANGED <<graceful, setupVars, open, watch, why, nsig>>

-----------------------------------------------------------------------------
(* main: the two waits.                                                    *)

\* A bug: the last handler but one ends the process.
CheckEarly ==
  /\ mpc = "check"
  /\ IF graceful /\ num <= 1 THEN Exit("idle") ELSE mpc' = "select" /\ UNCHANGED why
  /\ UNCHANGED <<graceful, setupVars, open, hpc, num, watch, nsig>>

\* A bug: the test for 0 handlers is left out.
CheckNever ==
  /\ mpc = "check"
  /\ mpc' = "select"
  /\ UNCHANGED <<graceful, setupVars, open, hpc, num, watch, why, nsig>>

\* After a message of a handler.
Check ==
  /\ mpc = "check"
  /\ IF graceful /\ num = 0 THEN Exit("idle") ELSE mpc' = "select" /\ UNCHANGED why
  /\ UNCHANGED <<graceful, setupVars, open, hpc, num, watch, nsig>>

\* wait returns the signal s: the first SIGINT leads on to the second wait.
WaitReturns(s) ==
  IF s = SIGINT /\ ~graceful THEN mpc' = "close" /\ UNCHANGED why ELSE Exit("signal")

\* The listeners are closed one by one, then wait(true) begins.
CloseListeners ==
  /\ mpc = "close"
  /\ \/ \E m \in open : open' = open \ {m} /\ UNCHANGED <<graceful, mpc>>
     \/ open = {} /\ graceful' = TRUE /\ mpc' = "select" /\ UNCHANGED open
  /\ UNCHANGED <<setupVars, hpc, num, watch, why, nsig>>

-----------------------------------------------------------------------------
(* Signals and the parent.                                                 *)

\* A signal, from the user, the parent or the kernel at the parent's death.
Signal(s) ==
  /\ mpc # "exited"
  /\ nsig < MaxSignals
  /\ nsig' = nsig + 1
  /\ IF mpc = "select" THEN WaitReturns(s) ELSE UNCHANGED <<mpc, why>>
  /\ UNCHANGED <<graceful, setupVars, open, hpc, num, watch>>

\* termOnStdinClose sees the end of stdin, or termOnPPIDChange another parent.
ParentDies ==
  /\ mpc # "exited"
  /\ watch = "watching"
  /\ watch' = "telling"
  /\ UNCHANGED <<mpc, graceful, setupVars, open, hpc, num, why, nsig>>

\* A bug: the watcher does not wait for main.
WatcherTellsOnce ==
  /\ mpc # "exited"
  /\ watch = "telling"
  /\ watch' = "gone"
  /\ IF mpc = "select" THEN WaitReturns(SIGTERM) ELSE UNCHANGED <<mpc, why>>
  /\ UNCHANGED <<graceful, setupVars, open, hpc, num, nsig>>

\* Its SIGTERM meets main: unlike a real signal, it waits for that.
WatcherTells ==
  /\ mpc = "select"
  /\ watch = "telling"
  /\ watch' = "gone"
  /\ WaitReturns(SIGTERM)
  /\ UNCHANGED <<graceful, setupVars, open, hpc, num, nsig>>

MainStep == (\E m \in Method : SetupMethod(m)) \/ SetupDone \/ Check \/ CloseListeners
Rendezvous(c) == HandlerStart(c) \/ HandlerFinish(c)

Next ==
  \/ MainStep \/ WatcherTells \/ ParentDies
  \/ \E c \in Conn : Accept(c) \/ Rendezvous(c) \/ HandlerReturn(c)
  \/ \E m \in Method : AcceptFail(m)
  \/ \E s \in {SIGINT, SIGTERM} : Signal(s)

Spec == Init /\ [][Next]_vars

\* main and the goroutines that want to meet it get their turn, and every connection
\* ends one day; nothing is assumed of the parent, the user and new connections.
Fairness ==
  /\ WF_vars(MainStep) /\ SF_vars(WatcherTells)
  /\ \A c \in Conn : SF_vars(Rendezvous(c)) /\ WF_vars(HandlerReturn(c))

FairSpec == Spec /\ Fairness

-----------------------------------------------------------------------------
(* Properties.                                                             *)

Registered == {c \in Conn : hpc[c] \in {"running", "finishing"}}

TypeOK ==
  /\ mpc \in {"setup", "select", "check", "close", "exited"}
  /\ graceful \in BOOLEAN /\ launched \in BOOLEAN
  /\ pending \subseteq Method /\ open \subseteq Method
  /\ hpc \in [Conn -> {"none", "starting", "running", "finishing", "gone"}]
  /\ num \in Nat
  /\ watch \in {"watching", "telling", "gone"}
  /\ why \in {"none", "setup", "signal", "idle"}
  /\ nsig \in 0..MaxSignals

\* numHandlers is the number of handlers that have registered and not signed off.
CountMatches == num = Cardinality(Registered)

\* A process that ends because it is idle cuts off no registered handler.
IdleExit == why = "idle" => Registered = {}

\* The parent's death, seen by the watcher, ends the process.
ParentDeathExits == watch = "telling" ~> mpc = "exited"

\* A process that drains registered handlers ends when they do.
DrainExits == graceful /\ num > 0 ~> mpc = "exited"
=============================================================================
