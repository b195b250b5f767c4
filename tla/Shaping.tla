------------------------------ MODULE Shaping ------------------------------
(***************************************************************************)
(* What RegulaTor and WFGAN have in common: the two ends of a connection,  *)
(* whose bridge shapes its traffic, and the counters of the cells seen.    *)
(* What each bridge must keep to is a history counter of its own, and is   *)
(* stated here for both.                                                   *)
(***************************************************************************)
EXTENDS Integers

Client == "client"
Server == "server"
Side == {Client, Server}
Peer(s) == IF s = Client THEN Server ELSE Client

VARIABLES env,  \* the environment, fixed from the start
          end   \* the two ends
vars == <<env, end>>

\* NRealSegSent and NRealSegRcv are compared with 2.
UpTo2(n) == IF n > 2 THEN 2 ELSE n

\* RegulaTor, params.go:77: however main's use of the budget and the padder's new draw
\* interleave, the dummies queued since a draw never exceed it (and one whose unit came from
\* the budget before it).
BudgetKept == end[Server].credit >= 0

\* WFGAN, wfgan.go:270: the undefended bursts of a bridge whose defence is on are at most the
\* zeros that were queued, or in the detector's hand, when it came on.
StaleZeros == end[Server].stale >= 0
=============================================================================
