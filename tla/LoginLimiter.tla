---------------------------- MODULE LoginLimiter ----------------------------
(***************************************************************************)
(* The limiter of login attempts (login_limiter.go), for one client        *)
(* address.  The time of an attempt is read before loginLimiter.mu is      *)
(* taken: attempts may be recorded out of order, and a trim with an old    *)
(* time may follow a trim with a newer one.                                *)
(*                                                                         *)
(* Of a window only its length counts and what is after a cutoff: it is    *)
(* the set of its times, each with the number of its attempt, which keeps  *)
(* equal times apart.                                                      *)
(***************************************************************************)
EXTENDS Clock

CONSTANTS
    Minute, Hour,             \* lengths of the two windows, in ticks
    MinuteLimit, HourLimit,   \* 5 and 20
    MaxDelay                  \* bound: ticks from reading the time to the mutex

ASSUME LoginAssumption ==
    /\ Minute \in Nat \ {0} /\ Hour \in Nat /\ Minute <= Hour
    /\ MinuteLimit \in Nat \ {0} /\ HourLimit \in Nat \ {0}
    /\ MaxDelay \in Nat

VARIABLES
    entry,      \* the loginEntry of the address; empty windows if there is none
    attempts    \* history: when attempts were let through

loginVars == <<entry, attempts>>

NoEntry == [minuteWindow |-> {}, hourWindow |-> {}]

LoginInit == entry = NoEntry /\ attempts = <<>>

trimBefore(times, cutoff) == {t \in times : t[1] > cutoff}

Trimmed(e, time) == [minuteWindow |-> trimBefore(e.minuteWindow, time - Minute),
                     hourWindow |-> trimBefore(e.hourWindow, time - Hour)]

\* Faulty variant: one attempt too many.
FullLate(e) ==
    Cardinality(e.minuteWindow) > MinuteLimit \/ Cardinality(e.hourWindow) > HourLimit

Full(e) ==
    Cardinality(e.minuteWindow) >= MinuteLimit \/ Cardinality(e.hourWindow) >= HourLimit

\* The middleware's section, for an attempt that read the time before, with
\* the answer ok.
LoginGate(time, ok) ==
    LET e == Trimmed(entry, time)
        t == <<time, Len(attempts) + 1>>
    IN  /\ ok = ~Full(e)
        /\ entry' = IF ok THEN [minuteWindow |-> e.minuteWindow \cup {t},
                                hourWindow |-> e.hourWindow \cup {t}]
                    ELSE e
        /\ attempts' = IF ok THEN Append(attempts, now) ELSE attempts

\* cleanup of the loginLimiter: an entry goes when its hour is over.
LoginCleanup ==
    LET e == Trimmed(entry, now)
    IN  /\ entry # NoEntry
        /\ entry' = IF e.hourWindow = {} THEN NoEntry ELSE e
        /\ UNCHANGED attempts

-----------------------------------------------------------------------------
\* No stretch of time a delay shorter than a window sees more logins than the
\* limit of that window, however attempts overtake each other between reading
\* the time and taking the mutex.  What HandleLogin tests is bounded by it.
LoginsBounded ==
    /\ Within(attempts, now - Minute + MaxDelay + 1, now) <= MinuteLimit
    /\ Within(attempts, now - Hour + MaxDelay + 1, now) <= HourLimit

\* A refusal now has its cause in the logins of the last minute or hour.
LoginRefusable ==
    \/ Within(attempts, now - Minute - MaxDelay, now) >= MinuteLimit
    \/ Within(attempts, now - Hour - MaxDelay, now) >= HourLimit
=============================================================================
