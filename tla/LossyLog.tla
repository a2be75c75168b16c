------------------------------ MODULE LossyLog ------------------------------
(***************************************************************************)
(* What a log writer promises its callers: a first-in first-out buffer     *)
(* that never makes a caller wait.  A call is refused only when at least   *)
(* Capacity entries are held; the oldest entries leave together, at most   *)
(* Batch of them, either to the store, in order, or for good.              *)
(***************************************************************************)
EXTENDS Integers, Sequences

CONSTANTS
    Capacity,   \* entries held before a call may be refused
    Batch       \* entries stored or lost at a time

VARIABLES
    calls,    \* calls made; an entry is the number of its call
    held,     \* entries accepted and neither stored nor lost
    stored,   \* the log store
    gone      \* how many entries were refused or lost

vars == <<calls, held, stored, gone>>

Init == calls = 0 /\ held = <<>> /\ stored = <<>> /\ gone = 0

\* A call is accepted: the newest entry, after everything held.
Offer ==
    /\ Len(held) < Capacity + Batch
    /\ calls' = calls + 1
    /\ held' = Append(held, calls + 1)
    /\ UNCHANGED <<stored, gone>>

\* A call is refused.
Refuse ==
    /\ Len(held) >= Capacity
    /\ calls' = calls + 1
    /\ gone' = gone + 1
    /\ UNCHANGED <<held, stored>>

\* The n oldest entries leave.
Leave(n) == held' = SubSeq(held, n + 1, Len(held))

Store(n) ==
    /\ n <= Len(held)
    /\ Leave(n)
    /\ stored' = stored \o SubSeq(held, 1, n)
    /\ UNCHANGED <<calls, gone>>

Lose(n) ==
    /\ n <= Len(held)
    /\ Leave(n)
    /\ gone' = gone + n
    /\ UNCHANGED <<calls, stored>>

Next ==
    \/ Offer
    \/ Refuse
    \/ \E n \in 1..Batch : Store(n) \/ Lose(n)

Spec == Init /\ [][Next]_vars
=============================================================================
