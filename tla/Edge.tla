-------------------------------- MODULE Edge --------------------------------
(***************************************************************************)
(* The way of a request through the gateway's middlewares (main.go:190-212, *)
(* AuthMiddleware and AdminMiddleware of internal/auth/auth.go, HandleLogin *)
(* and HandleLogout of internal/handlers/handlers.go): the composition of   *)
(* RateLimiter, LoginLimiter and Sessions with one gateway key, which       *)
(* administrators change meanwhile.                                         *)
(*                                                                          *)
(* A login posts the key from one address: rate limiter by address, login   *)
(* limiter, Valid, role, Create.  A dashboard request carries a cookie:     *)
(* Lookup, Valid, the key's limits, rate limiter by key, role.  Each of     *)
(* these is a section under a mutex of its own.                             *)
(***************************************************************************)
EXTENDS RateLimiter, LoginLimiter, Sessions

CONSTANTS
    Requests,     \* goroutines of requests
    KeyLimits,    \* the <<RPM, Burst>> an administrator gives to the key
    MaxRequests,  \* bound: requests served
    MaxChanges    \* bound: changes of the key

ASSUME LimitsAssumption ==
    /\ {"address", "key"} \subseteq Clients
    /\ KeyLimits \subseteq Nat \X Nat
    /\ MaxRequests \in Nat /\ MaxChanges \in Nat

VARIABLES
    key,      \* the GatewayKeyInfo; "deleted" is not registered
    req,      \* each request
    count     \* requests and changes so far

edgeVars == <<now, rateVars, loginVars, sessionVars, key, req, count>>

-----------------------------------------------------------------------------
Key == [state : {"enabled", "disabled", "deleted"}, admin : BOOLEAN,
        limits : KeyLimits]

Valid(k) == k.state = "enabled"
IsAdmin(k) == k.state # "deleted" /\ k.admin

\* A request: its place, its token, the time or the limits it read, and, as
\* history, whether its token was dead when it came and whether the key was
\* valid, and an administrator's, at some time since.
Idle == [pc |-> "idle", tok |-> 0, time |-> 0, limits |-> <<0, 0>>,
         dead |-> FALSE, valid |-> FALSE, admin |-> FALSE]

EdgeInit ==
    /\ now = 0
    /\ RateInit /\ LoginInit /\ SessionInit
    /\ key \in {k \in Key : k.state = "enabled" /\ k.admin}
    /\ req = [r \in Requests |-> Idle]
    /\ count = [requests |-> 0, changes |-> 0]

At(r, pc) == req[r].pc = pc

Goto(r, pc) == req' = [req EXCEPT ![r].pc = pc]

\* A request is answered.
End(r) == req' = [req EXCEPT ![r] = Idle]

Dead(t) == t \in ended \/ TooOld(t)

Begin(r, pc, tok, dead) ==
    /\ At(r, "idle") \/ At(r, "answered")
    /\ count.requests < MaxRequests
    /\ count' = [count EXCEPT !.requests = @ + 1]
    /\ req' = [req EXCEPT ![r] = [Idle EXCEPT !.pc = pc, !.tok = tok, !.dead = dead,
                                    !.valid = Valid(key), !.admin = IsAdmin(key)]]
    /\ UNCHANGED <<now, rateVars, loginVars, sessionVars, key>>

-----------------------------------------------------------------------------
(***************************************************************************)
(* POST /login                                                             *)
(***************************************************************************)

Login(r) == Begin(r, "loginRate", 0, FALSE)

\* The rate limiter, and then now := time.Now() before l.mu.Lock().
LoginRate(r) ==
    /\ At(r, "loginRate")
    /\ \E ok \in BOOLEAN :
          /\ AllowWithLimit("address", RPM, Burst, ok)
          /\ IF ok THEN req' = [req EXCEPT ![r].pc = "gate", ![r].time = now] ELSE End(r)
    /\ UNCHANGED <<now, loginVars, sessionVars, key, count>>

Gate(r) ==
    /\ At(r, "gate")
    /\ \E ok \in BOOLEAN :
          /\ LoginGate(req[r].time, ok)
          /\ IF ok THEN req' = [req EXCEPT ![r].pc = "loginValid", ![r].time = 0] ELSE End(r)
    /\ UNCHANGED <<now, rateVars, sessionVars, key, count>>

\* HandleLogin: Valid ...
LoginValid(r) ==
    /\ At(r, "loginValid")
    /\ IF Valid(key) THEN Goto(r, "loginRole") ELSE End(r)
    /\ UNCHANGED <<now, rateVars, loginVars, sessionVars, key, count>>

\* ... then the role and Create.
HandleLogin(r) ==
    /\ At(r, "loginRole")
    /\ IF IsAdmin(key) THEN Create /\ Goto(r, "answered")
       ELSE End(r) /\ UNCHANGED sessionVars
    /\ UNCHANGED <<now, rateVars, loginVars, key, count>>

-----------------------------------------------------------------------------
(***************************************************************************)
(* Requests with a cookie                                                  *)
(***************************************************************************)

Dashboard(r) == \E t \in Issued : Begin(r, "lookup", t, Dead(t))

\* AuthMiddleware
LookupToken(r) ==
    /\ At(r, "lookup")
    /\ \E ok \in BOOLEAN :
          /\ Lookup(req[r].tok, ok)
          /\ IF ok THEN Goto(r, "valid") ELSE End(r)
    /\ UNCHANGED <<now, rateVars, loginVars, key, count>>

AuthMiddleware(r) ==
    /\ At(r, "valid")
    /\ IF Valid(key) THEN Goto(r, "limits") ELSE End(r)
    /\ UNCHANGED <<now, rateVars, loginVars, sessionVars, key, count>>

\* Middleware: the limits of the key, the global ones for what it does not
\* set and for a key that is no longer registered.
LimitsOf(k) ==
    IF k.state = "deleted" THEN <<RPM, Burst>>
    ELSE <<k.limits[1], IF k.limits[2] > 0 THEN k.limits[2] ELSE Burst>>

LookupKey(r) ==
    /\ At(r, "limits")
    /\ LET l == LimitsOf(key)
       IN  req' = [req EXCEPT ![r].pc = IF l[1] = 0 THEN "role" ELSE "rate",
                              ![r].limits = IF l[1] = 0 THEN req[r].limits ELSE l]
    /\ UNCHANGED <<now, rateVars, loginVars, sessionVars, key, count>>

RateLimit(r) ==
    /\ At(r, "rate")
    /\ \E ok \in BOOLEAN :
          /\ AllowWithLimit("key", req[r].limits[1], req[r].limits[2], ok)
          /\ IF ok THEN req' = [req EXCEPT ![r].pc = "role", ![r].limits = <<0, 0>>]
             ELSE End(r)
    /\ UNCHANGED <<now, loginVars, sessionVars, key, count>>

AdminMiddleware(r) ==
    /\ At(r, "role")
    /\ IF IsAdmin(key) THEN Goto(r, "answered") ELSE End(r)
    /\ UNCHANGED <<now, rateVars, loginVars, sessionVars, key, count>>

-----------------------------------------------------------------------------
(***************************************************************************)
(* Everything else                                                         *)
(***************************************************************************)

\* GET /logout: the rate limiter by address, and then Revoke.  The two sections
\* are one step: nothing another request does depends on their order.
HandleLogout ==
    /\ count.requests < MaxRequests
    /\ count' = [count EXCEPT !.requests = @ + 1]
    /\ \E t \in Issued \ ended, ok \in BOOLEAN :
          /\ AllowWithLimit("address", RPM, Burst, ok)
          /\ IF ok THEN Revoke(t) ELSE UNCHANGED sessionVars
    /\ UNCHANGED <<now, loginVars, key, req>>

\* An administrator changes a field of the key, or deletes it.
Changed(k) ==
    {[k EXCEPT !.state = s] : s \in {"enabled", "disabled", "deleted"}}
    \cup {[k EXCEPT !.admin = ~@]} \cup {[k EXCEPT !.limits = l] : l \in KeyLimits}

ChangeKey ==
    /\ count.changes < MaxChanges
    /\ key.state # "deleted"
    /\ count' = [count EXCEPT !.changes = @ + 1]
    /\ key' \in Changed(key) \ {key}
    /\ req' = [r \in Requests |->
                 IF At(r, "idle") THEN Idle
                 ELSE [req[r] EXCEPT !.valid = @ \/ Valid(key'), !.admin = @ \/ IsAdmin(key')]]
    /\ UNCHANGED <<now, rateVars, loginVars, sessionVars>>

\* The mutex of the login limiter is not waited for longer than MaxDelay.
TimePasses ==
    /\ now < MaxTime
    /\ \A r \in Requests : At(r, "gate") => now - req[r].time < MaxDelay
    /\ now' = now + 1
    /\ UNCHANGED <<rateVars, loginVars, sessionVars, key, req, count>>

Cleanups ==
    /\ \/ RateCleanup /\ UNCHANGED <<loginVars, sessionVars>>
       \/ LoginCleanup /\ UNCHANGED <<rateVars, sessionVars>>
       \/ SessionCleanup /\ UNCHANGED <<rateVars, loginVars>>
    /\ UNCHANGED <<now, key, req, count>>

EdgeNext ==
    \/ \E r \in Requests :
          \/ Login(r) \/ LoginRate(r) \/ Gate(r) \/ LoginValid(r) \/ HandleLogin(r)
          \/ Dashboard(r) \/ LookupToken(r) \/ AuthMiddleware(r) \/ LookupKey(r)
          \/ RateLimit(r) \/ AdminMiddleware(r)
    \/ HandleLogout \/ ChangeKey \/ TimePasses \/ Cleanups

EdgeSpec == EdgeInit /\ [][EdgeNext]_edgeVars

-----------------------------------------------------------------------------
(***************************************************************************)
(* Properties                                                              *)
(***************************************************************************)

\* The limits in force for a client at one time or another.
LimitsEver ==
    [c \in Clients |->
        IF c = "address" THEN {<<RPM, Burst>>}
        ELSE {<<RPM, Burst>>} \cup {LimitsOf(k) : k \in {k \in Key : k.limits[1] > 0}}]

Rates == [c \in Clients |-> {l[1] : l \in LimitsEver[c]}]
Bursts == [c \in Clients |-> {l[2] : l \in LimitsEver[c]}]

\* An idle bucket that cleanup removes would have been full.
RefillAssumption ==
    \A c \in Clients : \A l \in LimitsEver[c] : l[2] * Window <= l[1] * IdleAge

\* No stretch of time sees more admissions of a client than its largest burst
\* and what its largest rate refills, whatever the limits are changed to
\* between two requests, between looking them up and using them, and whatever
\* cleanup removes.
RateBounded ==
    \A c \in Clients : \A s \in 0..now :
        \E b \in Bursts[c], m \in Rates[c] :
            Within(admitted[c], s, now) * Window <= b * Window + m * (now - s)

\* Since some time the client has used its least burst and rate up.
UsedUp(c) ==
    \E s \in 0..now, b \in Bursts[c], m \in Rates[c] :
        (Within(admitted[c], s, now) + 1) * Window > b * Window + m * (now - s)

\* Who is refused has a limit used up: no needless 429, whatever limits are
\* changed, buckets and entries removed and attempts delayed.
RefusedForCause ==
    [][\A r \in Requests : req'[r].pc = "idle" =>
          /\ At(r, "loginRate") => UsedUp("address")
          /\ At(r, "rate") => UsedUp("key")
          /\ At(r, "gate") => LoginRefusable]_edgeVars

\* A cookie request that is answered, and a session that is created, had the
\* right to it: the token was neither revoked nor older than SessionTTL when
\* the request came, and since then the key was enabled and an
\* administrator's.  Sessions outlive neither their logout nor, for longer
\* than a request, their key.
AnsweredByRight ==
    \A r \in Requests : At(r, "answered") => ~req[r].dead /\ req[r].valid /\ req[r].admin
=============================================================================
