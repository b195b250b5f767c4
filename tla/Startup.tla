------------------------------- MODULE Startup -------------------------------
(***************************************************************************)
(* Starting the proxy: main, clientSetup and serverSetup (obfs4proxy), the *)
(* transports' ServerFactory and the state files they keep.                *)
(*                                                                         *)
(* A bridge's identity is in a state file.  Each server factory loads it,  *)
(* or makes and stores a new one when there is no file, writes the bridge  *)
(* line, and writes the state back in place: the file is truncated, then   *)
(* filled.  The transports built on defconn do all that twice, once in     *)
(* defconn's factory and once in their own with their parameters, and they *)
(* all use the same file.  A file that cannot be parsed is never replaced. *)
(***************************************************************************)
EXTENDS Integers, Sequences

CONSTANT Env  \* environments, records with fields
              \*   side     "client" or "bridge"
              \*   boot     does main get to the setup (environment, state directory,
              \*            log file, TOR_PT_PROXY)?
              \*   ts       the transports tor asks for, in order
              \*   starts   for each start, a function from transports to their options:
              \*            id "none", "given", "partial" or "malformed", and ok, whether
              \*            the transport's parameters are there and in range
              \*   faults   bound: crashes and failed writes, together

VARIABLES env,  \* the environment, fixed from the start
          sys   \* the process and its files
vars == <<env, sys>>

Derived == {"front", "tamaraw", "wfgan", "regulator"}  \* on top of defconn
Stateless == {"null", "obfs2", "obfs3"}
File(t) == IF t \in Derived THEN "defconn" ELSE t
Files == {"defconn", "obfs4", "randomwt"}

Absent == -2
Torn == -1
Given == 0   \* the identity in the arguments; generated ones are 1, 2, ...

Init == /\ env \in Env
        /\ sys = [start |-> 1, pc |-> "boot", t |-> 1, phase |-> "base", id |-> Torn, listeners |-> {},
                  file |-> [f \in Files |-> Absent], fresh |-> 1, faults |-> 0,
                  published |-> <<>>]  \* history: SMETHOD lines

\* r with the fields of rec.
With(r, rec) == [f \in DOMAIN r |-> IF f \in DOMAIN rec THEN rec[f] ELSE r[f]]
Step(rec) == sys' = With(sys, rec) /\ UNCHANGED env

T == env.ts[sys.t]
Options == env.starts[sys.start][T]
At(pc) == sys.pc = pc
CanFail == sys.faults < env.faults
Failed == [faults |-> sys.faults + 1]

-----------------------------------------------------------------------------
(* main and the setup loops.  A transport that fails is skipped.           *)

NextTransport(rec) ==
  /\ sys' = With(With(sys, rec),
                 IF sys.t < Len(env.ts) THEN [pc |-> "get", t |-> sys.t + 1, phase |-> "base"]
                 ELSE [pc |-> "done"])
  /\ UNCHANGED env
Skip == NextTransport(<<>>)
Fail == CanFail /\ NextTransport(Failed)

Boot == At("boot") /\ Step([pc |-> IF env.boot THEN "get" ELSE "exit"])

\* transports.Get and the factory: meek_lite and scramblesuit have no server.
Get == /\ At("get")
       /\ CASE env.side = "client" \/ T \in Stateless -> Step([pc |-> "listen"])
            [] T \in Files \cup Derived -> Step([pc |-> "load"])
            [] OTHER -> Skip

Listen == /\ At("listen")
          /\ \/ NextTransport([listeners |-> sys.listeners \cup {T}, published |->
                  IF env.side = "client" \/ T \in Stateless THEN sys.published
                  ELSE Append(sys.published, [t |-> T, id |-> sys.id])])
             \/ Fail

Launched == At("done") /\ Step([pc |-> IF sys.listeners = {} THEN "exit" ELSE "serving"])

-----------------------------------------------------------------------------
(* serverStateFromArgs: all three of node-id, private-key and drbg-seed,   *)
(* or none and the file.                                                   *)

\* A bug: a file that cannot be parsed counts as absent.
LoadTornAsAbsent ==
  /\ At("load")
  /\ CASE Options.id = "given" -> Step([pc |-> "check", id |-> Given])
       [] Options.id \in {"partial", "malformed"} -> Skip
       [] OTHER ->
            IF sys.file[File(T)] \in {Absent, Torn}
            THEN Step([pc |-> "new", id |-> sys.fresh, fresh |-> sys.fresh + 1])
            ELSE Step([pc |-> "check", id |-> sys.file[File(T)]])

Load ==
  /\ At("load")
  /\ CASE Options.id = "given" -> Step([pc |-> "check", id |-> Given])
       [] Options.id \in {"partial", "malformed"} -> Skip
       [] OTHER ->
            CASE sys.file[File(T)] = Torn   -> Skip
              [] sys.file[File(T)] = Absent -> Step([pc |-> "new", id |-> sys.fresh, fresh |-> sys.fresh + 1])
              [] OTHER                      -> Step([pc |-> "check", id |-> sys.file[File(T)]])

\* ioutil.WriteFile: open and truncate, then write.  It may fail at both.
Opens(pc, next) == /\ At(pc)
                   /\ \/ Step([pc |-> next, file |-> [sys.file EXCEPT ![File(T)] = Torn]])
                      \/ Fail
Fills(pc, next, phase) ==
  /\ At(pc)
  /\ \/ Step([pc |-> next, phase |-> phase, file |-> [sys.file EXCEPT ![File(T)] = sys.id]])
     \/ Fail

\* newJSONServerState.
New == Opens("new", "new_fill") \/ Fills("new_fill", "check", sys.phase)

\* The parameters are looked at by the transport's own factory, not by defconn's.
Check == /\ At("check")
         /\ IF ~Options.ok /\ (T \in Derived => sys.phase = "own") THEN Skip
            ELSE Step([pc |-> "bridge"])

\* newBridgeFile; nothing reads that file.
BridgeLine == At("bridge") /\ (Step([pc |-> "state"]) \/ Fail)

\* writeJSONServerState, then the transport's own factory or the end.
WriteBack == \/ Opens("state", "state_fill")
             \/ IF T \in Derived /\ sys.phase = "base" THEN Fills("state_fill", "load", "own")
                ELSE Fills("state_fill", "listen", sys.phase)

-----------------------------------------------------------------------------
(* Ends, crashes and the next start.                                       *)

Restart(faults) == Step([start |-> sys.start + 1, pc |-> "boot", t |-> 1, phase |-> "base", id |-> Torn,
                         listeners |-> {}, faults |-> faults])
Again == /\ sys.pc \in {"serving", "exit"} /\ sys.start < Len(env.starts) /\ Restart(sys.faults)
Crash == /\ sys.pc \notin {"boot", "serving", "exit"} /\ sys.start < Len(env.starts) /\ CanFail
         /\ Restart(sys.faults + 1)

Next == Boot \/ Get \/ Listen \/ Launched \/ Load \/ New \/ Check \/ BridgeLine \/ WriteBack \/ Again \/ Crash
Spec == Init /\ [][Next]_vars

-----------------------------------------------------------------------------
(* Properties. *)

\* Across restarts, crashes and failed writes, the identity a state file's transports publish
\* changes only to the one given in the arguments: clients that hold the bridge line are
\* never met by a fresh identity (jsonServerStateFromFile, WriteJSONServerState).
IdentityKept ==
  \A i, j \in DOMAIN sys.published :
    /\ i < j
    /\ File(sys.published[i].t) = File(sys.published[j].t)
    /\ sys.published[i].id # sys.published[j].id
    => sys.published[j].id = Given
=============================================================================
