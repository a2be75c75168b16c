-------------------------------- MODULE Clock --------------------------------
(***************************************************************************)
(* The time that the limiters and the sessions read, in ticks.             *)
(***************************************************************************)
EXTENDS Integers, Sequences, FiniteSets

CONSTANT MaxTime   \* bound: ticks

ASSUME MaxTimeAssumption == MaxTime \in Nat

VARIABLE now   \* time.Now()

Ticks == 0..MaxTime

\* How many times of a history, a sequence of ticks, lie in from..to.
Within(times, from, to) == Cardinality({i \in DOMAIN times : times[i] \in from..to})
=============================================================================
