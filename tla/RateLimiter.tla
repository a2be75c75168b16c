----------------------------- MODULE RateLimiter -----------------------------
(***************************************************************************)
(* The token buckets of internal/ratelimit/ratelimit.go.  Every section    *)
(* runs, and reads the time, under Limiter.mu.  Tokens are counted in      *)
(* units of 1/Window, so that a refill is a whole number.                  *)
(***************************************************************************)
EXTENDS Clock

CONSTANTS
    Clients,       \* client ids: an address, or a gateway key
    Window,        \* RATE_LIMIT_WINDOW, in ticks
    IdleAge,       \* the age at which cleanup removes a bucket
    RPM, Burst     \* RATE_LIMIT_RPM, RATE_LIMIT_BURST

ASSUME RateAssumption ==
    /\ Window \in Nat \ {0} /\ RPM \in Nat \ {0} /\ Burst \in Nat \ {0}
    /\ IdleAge \in Nat

VARIABLES
    clients,    \* the bucket of each client
    admitted    \* history: when requests of each client were admitted

rateVars == <<clients, admitted>>

NoBucket == [tokens |-> 0, lastTime |-> -1]

RateInit ==
    /\ clients = [c \in Clients |-> NoBucket]
    /\ admitted = [c \in Clients |-> <<>>]

AtMost(n, max) == IF n < max THEN n ELSE max

\* Faulty variant: a refill goes beyond the burst.
RefilledUncapped(b, rpm, burst) ==
    IF b = NoBucket THEN burst * Window ELSE b.tokens + (now - b.lastTime) * rpm

\* The tokens of a bucket now, under the limits of this request: the whole
\* time since lastTime counts at the present rpm.  A new bucket is full.
Refilled(b, rpm, burst) ==
    IF b = NoBucket THEN burst * Window
    ELSE AtMost(b.tokens + (now - b.lastTime) * rpm, burst * Window)

\* Faulty variant: a refused request takes what is left.
AllowWithLimitCharging(c, rpm, burst, ok) ==
    LET t == Refilled(clients[c], rpm, burst)
    IN  /\ ok = (t >= Window)
        /\ clients' = [clients EXCEPT ![c] = [tokens |-> t - AtMost(t, Window),
                                              lastTime |-> now]]
        /\ admitted' = IF ok THEN [admitted EXCEPT ![c] = Append(@, now)] ELSE admitted

\* AllowWithLimit, with the answer ok.  Middleware lets requests without a
\* limit (rpm = 0) pass and never gives a burst of 0.
AllowWithLimit(c, rpm, burst, ok) ==
    LET t == Refilled(clients[c], rpm, burst)
    IN  /\ ok = (t >= Window)
        /\ clients' = [clients EXCEPT ![c] = [tokens |-> IF ok THEN t - Window ELSE t,
                                              lastTime |-> now]]
        /\ admitted' = IF ok THEN [admitted EXCEPT ![c] = Append(@, now)] ELSE admitted

\* cleanup: buckets idle for longer than IdleAge go.
RateCleanup ==
    LET idle == {c \in Clients : clients[c] # NoBucket /\ now - clients[c].lastTime > IdleAge}
    IN  /\ idle # {}
        /\ clients' = [c \in Clients |-> IF c \in idle THEN NoBucket ELSE clients[c]]
        /\ UNCHANGED admitted
=============================================================================
