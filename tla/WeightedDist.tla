----------------------------- MODULE WeightedDist -----------------------------
(***************************************************************************)
(* The weighted distribution lengths and delays are drawn from             *)
(* (common/probdist): Reset, with the alias tables of genTables built step *)
(* by step, and what Sample returns with which probability.                *)
(*                                                                         *)
(* Finite precision is kept: a probability is an integer number of units,  *)
(* One units being 1.0, and division rounds down.                          *)
(***************************************************************************)
EXTENDS Integers, Sequences, SequencesExt, FiniteSetsExt, TLC

CONSTANTS One,        \* 1.0
          MaxValues,  \* maxValues
          Env  \* environments, records with fields
               \*   min, max  minValue, maxValue
               \*   weights   the weights drawn: those of genUniformWeights are independent,
               \*             those of genBiasedWeights take parts of what is left
               \*   biased    which of the two?

VARIABLES env,  \* the environment, fixed from the start
          sys   \* values, weights, the tables and the work lists
vars == <<env, sys>>

Init == env \in Env /\ sys = [pc |-> "values", values |-> <<>>, weights |-> <<>>, scaled |-> <<>>,
                              small |-> <<>>, large |-> <<>>, alias |-> <<>>, prob |-> <<>>]
Step(rec) == sys' = rec @@ sys /\ UNCHANGED env

\* genValues: the beginning of a permutation of the range, of at most maxValues values.
GenValues == /\ sys.pc = "values"
             /\ LET n == env.max + 1 - env.min
                IN \E k \in 1..Min({n, MaxValues}) : \E vs \in [1..k -> 0..(n - 1)] :
                     IsInjective(vs) /\ Step([values |-> vs, pc |-> "weights"])

GenWeights == /\ sys.pc = "weights"
              /\ \E ws \in [DOMAIN sys.values -> env.weights] :
                   /\ env.biased => FoldSeq(+, 0, ws) <= One
                   /\ FoldSeq(+, 0, ws) > 0
                   /\ Step([weights |-> ws, pc |-> "scale"])

N == Len(sys.values)
Scaled(i) == (sys.weights[i] * N * One) \div FoldSeq(+, 0, sys.weights)
Indices(set) == SelectSeq([i \in 1..N |-> i], LAMBDA i : i \in set)

\* genTables: scale, and divide into the two work lists.
Scale == /\ sys.pc = "scale"
         /\ Step([pc |-> "pair", scaled |-> [i \in 1..N |-> Scaled(i)],
                  small |-> Indices({i \in 1..N : Scaled(i) < One}),
                  large |-> Indices({i \in 1..N : Scaled(i) >= One}),
                  alias |-> [i \in 1..N |-> 1], prob |-> [i \in 1..N |-> 0]])

\* A bug: what the small one lacks is not taken from the large one.
LeftOverWhole(l, g) == sys.scaled[g]

LeftOver(l, g) == sys.scaled[g] + sys.scaled[l] - One

\* The first small and the first large index share a slot.
Pair == /\ sys.pc = "pair" /\ sys.small # <<>> /\ sys.large # <<>>
        /\ LET l == Head(sys.small)
               g == Head(sys.large)
               rest == LeftOver(l, g)
           IN Step([prob |-> [sys.prob EXCEPT ![l] = sys.scaled[l]], alias |-> [sys.alias EXCEPT ![l] = g],
                    scaled |-> [sys.scaled EXCEPT ![g] = rest],
                    small |-> Tail(sys.small) \o (IF rest < One THEN <<g>> ELSE <<>>),
                    large |-> Tail(sys.large) \o (IF rest < One THEN <<>> ELSE <<g>>)])

\* What is left of either list gets a slot of its own; small ones only by rounding.
Drain(rest) == Step([pc |-> "done", small |-> <<>>, large |-> <<>>,
                     prob |-> [i \in 1..N |-> IF \E k \in DOMAIN rest : rest[k] = i THEN One ELSE sys.prob[i]]])
DrainLarge == sys.pc = "pair" /\ sys.small = <<>> /\ Drain(sys.large)
DrainSmall == sys.pc = "pair" /\ sys.small # <<>> /\ sys.large = <<>> /\ Drain(sys.small)

Next == GenValues \/ GenWeights \/ Scale \/ Pair \/ DrainLarge \/ DrainSmall
Spec == Init /\ [][Next]_vars

\* Sample: of the N * One equally likely outcomes, those that return the i-th value.
Outcomes(i) == sys.prob[i] + FoldSet(LAMBDA j, n : One - sys.prob[j] + n, 0, {j \in 1..N : sys.alias[j] = i})

-----------------------------------------------------------------------------
(* Properties. *)

\* Sample returns every value with the probability its weight gives it, up to one rounding
\* error per value, whatever the weights and in whatever order the lists were worked off.
SampledAsWeighted == sys.pc = "done" =>
  \A i \in 1..N : LET err == Outcomes(i) - Scaled(i) IN err \in -N..N
=============================================================================
