------------------------------ MODULE GrokPool ------------------------------
(***************************************************************************)
(* The Grok account pool and its OAuth tokens (internal/upstream/grok.go). *)
(*                                                                         *)
(* An account holds a token pair that auth.x.ai replaces at every refresh; *)
(* a refresh token that was already used is answered with invalid_grant,   *)
(* on which the account is disabled for good.  Refreshes of one e-mail are *)
(* therefore collapsed with singleflight; the account's mutex is not held  *)
(* during the HTTP call, nor during the Redis write that follows every     *)
(* change.  Requests, the pre-warm worker, the asynchronous refresh of     *)
(* Next, imports, deletions and restarts interleave between those steps.   *)
(***************************************************************************)
EXTENDS Integers, Sequences, FiniteSets, SequencesExt

CONSTANTS
    Emails,      \* account names
    MaxGen,      \* bound: GrokAccount objects created per e-mail
    MaxLogins,   \* bound: token pairs obtained by logging in (first or import)
    MaxRotate,   \* bound: successive refreshes of one login that rotate
    Requests,    \* ProxyGrok goroutines
    Workers,     \* goroutines of AutoRefreshWorker and ReenableWorker
    Admins,      \* import / delete / cleanup handler goroutines
    Faults       \* what may go wrong: subset of FaultKinds

FaultKinds == {"loss", "revoke", "crash", "redis"}

ASSUME EmailsAssumption == IsFiniteSet(Emails) /\ Emails # {}
ASSUME BoundsAssumption == MaxGen \in Nat \ {0} /\ MaxLogins \in Nat /\ MaxRotate \in Nat
ASSUME FaultsAssumption == Faults \subseteq FaultKinds

VARIABLES
    acc,            \* the fields of every GrokAccount object
    gen,            \* objects created so far for each e-mail
    accounts,       \* am.accounts
    next,           \* am.next
    stored, row,    \* e-mails with a Redis hash, and its contents
    logins,         \* token pairs obtained by logging in so far
    valid,          \* refresh tokens auth.x.ai accepts
    struck,         \* history: something of Faults has happened
    flight,         \* the singleflight call of each e-mail
    async,          \* accounts with a call of Refresh to come that ignores its result
    pc, obj, left, snap   \* each goroutine: place, account, attempts, save

poolVars == <<acc, gen, accounts, next>>
redisVars == <<stored, row>>
serverVars == <<logins, valid, struck>>
procVars == <<pc, obj, left, snap>>
vars == <<poolVars, redisVars, serverVars, flight, async, procVars>>

-----------------------------------------------------------------------------
(***************************************************************************)
(* Data.                                                                   *)
(***************************************************************************)

Procs == Requests \cup Workers \cup Admins

Obj == Emails \X (1..MaxGen)
Email(o) == o[1]
NoObj == CHOOSE o \in Obj : TRUE

\* A token pair: which login it descends from, and the rotations since.
Tok == [login : 0..MaxLogins, n : 0..MaxRotate]
NoTok == [login |-> 0, n |-> 0]

\* expiresAt: more than PRE_WARM_WINDOW away, more than REFRESH_BUFFER away,
\* or nearer (or past).  disabledAt as in CBPool.
Fields == [tok : Tok, life : {"valid", "warm", "near"}, disabled : BOOLEAN,
           disabledAt : {"zero", "recent", "old"}]

Blank == [tok |-> NoTok, life |-> "near", disabled |-> FALSE, disabledAt |-> "zero"]

WithLogin(t) == [tok |-> t, life |-> "valid", disabled |-> FALSE, disabledAt |-> "zero"]

Permanent(f) == f.disabled /\ f.disabledAt = "zero"
PutOff(f) == [f EXCEPT !.disabled = TRUE, !.disabledAt = "zero"]
CoolDown(f) == [f EXCEPT !.disabled = TRUE, !.disabledAt = "recent"]

\* LoadFromRedis: disabled_at matters only for a disabled account.
Parsed(f) == IF f.disabled THEN f ELSE [f EXCEPT !.disabledAt = "zero"]

\* A refresh of one e-mail: nobody's, or the account it was called on, the
\* token sent or received, and the result its callers will get.
NoFlight == [phase |-> "none", obj |-> NoObj, tok |-> NoTok, res |-> "none",
             snap |-> Blank]
Flights == [phase : {"none", "begin", "asking", "apply", "dto", "hset", "done"},
            obj : Obj, tok : Tok, res : {"none", "ok", "invalid_grant", "err"},
            snap : Fields]

Pool == ToSet(accounts)

TypeOK ==
    /\ acc \in [Obj -> Fields]
    /\ gen \in [Emails -> 0..MaxGen]
    /\ accounts \in Seq(Obj)
    /\ next \in Nat
    /\ stored \subseteq Emails
    /\ row \in [Emails -> Fields]
    /\ logins \in 0..MaxLogins
    /\ valid \subseteq Tok
    /\ flight \in [Emails -> Flights]
    /\ async \subseteq Obj
    /\ pc \in [Procs -> {"idle", "pick", "sent", "retry", "wait", "ok",
                         "invalid_grant", "err", "dto", "hset"}]
    /\ obj \in [Procs -> Obj]
    /\ left \in [Procs -> Nat]
    /\ snap \in [Procs -> Fields]
    /\ struck \in BOOLEAN

\* The token pair a login gives.
Login(n) == [login |-> n, n |-> 0]

\* The start of the process: LoadFromRedis finds some of the accounts, which an
\* earlier run left with valid tokens.
Init ==
    /\ \E es \in UNION {SetToSeqs(s) : s \in SUBSET Emails} :
          /\ accounts = [i \in DOMAIN es |-> <<es[i], 1>>]
          /\ stored = ToSet(es)
          /\ logins = Len(es)
          /\ valid = {Login(i) : i \in DOMAIN es}
          /\ row = [e \in Emails |->
                       IF e \in ToSet(es)
                       THEN WithLogin(Login(CHOOSE i \in DOMAIN es : es[i] = e))
                       ELSE Blank]
    /\ logins <= MaxLogins
    /\ acc = [o \in Obj |-> IF o[2] = 1 THEN row[Email(o)] ELSE Blank]
    /\ gen = [e \in Emails |-> IF e \in stored THEN 1 ELSE 0]
    /\ next = 0
    /\ struck = FALSE
    /\ flight = [e \in Emails |-> NoFlight]
    /\ async = {}
    /\ pc = [p \in Procs |-> "idle"]
    /\ obj = [p \in Procs |-> NoObj]
    /\ left = [p \in Procs |-> 0]
    /\ snap = [p \in Procs |-> Blank]

Go(p, where) == pc' = [pc EXCEPT ![p] = where]

-----------------------------------------------------------------------------
(***************************************************************************)
(* Refresh: singleflight around refreshLocked.                             *)
(***************************************************************************)

Begin(o) == [NoFlight EXCEPT !.phase = "begin", !.obj = o]

\* Faulty variant: every caller runs a refresh of its own.
JoinAlone(o) == flight' = [flight EXCEPT ![Email(o)] = Begin(o)]

\* refreshSF.Do: the first caller starts the call, later ones share it.
Join(o) ==
    flight' = IF flight[Email(o)].phase = "none"
              THEN [flight EXCEPT ![Email(o)] = Begin(o)]
              ELSE flight

\* rt := a.RefreshToken, under the lock, which is then released.
ReadToken(e) ==
    /\ flight[e].phase = "begin"
    /\ flight' = [flight EXCEPT ![e].phase = "asking",
                                ![e].tok = acc[flight[e].obj].tok]
    /\ UNCHANGED <<poolVars, redisVars, serverVars, async, procVars>>

\* What auth.x.ai gives for the token t: it replaces it, or keeps it and
\* renews only the access token.
Successors(t) == {t} \cup {u \in Tok : u.login = t.login /\ u.n = t.n + 1}

\* auth.x.ai answers 200.
Granted(e) ==
    /\ flight[e].phase = "asking"
    /\ flight[e].tok \in valid
    /\ \E t \in Successors(flight[e].tok) :
          /\ valid' = (valid \ {flight[e].tok}) \cup {t}
          /\ flight' = [flight EXCEPT ![e].phase = "apply", ![e].tok = t]
    /\ UNCHANGED <<poolVars, redisVars, logins, struck, async, procVars>>

\* auth.x.ai does not know the token any more.
Denied(e) ==
    /\ flight[e].phase = "asking"
    /\ flight[e].tok \notin valid
    /\ flight' = [flight EXCEPT ![e].phase = "done", ![e].res = "invalid_grant"]
    /\ UNCHANGED <<poolVars, redisVars, serverVars, async, procVars>>

\* The call fails: before auth.x.ai saw it, or with its answer lost.
Lost(e) ==
    /\ "loss" \in Faults
    /\ flight[e].phase = "asking"
    /\ \/ UNCHANGED valid
       \/ /\ flight[e].tok \in valid
          /\ \E t \in Successors(flight[e].tok) :
                valid' = (valid \ {flight[e].tok}) \cup {t}
    /\ flight' = [flight EXCEPT ![e].phase = "done", ![e].res = "err"]
    /\ struck' = TRUE
    /\ UNCHANGED <<poolVars, redisVars, logins, async, procVars>>

\* The new tokens are stored in the account, whatever happened to it since.
Apply(e) ==
    LET o == flight[e].obj
    IN  /\ flight[e].phase = "apply"
        /\ acc' = [acc EXCEPT ![o].tok = flight[e].tok, ![o].life = "valid"]
        /\ flight' = [flight EXCEPT ![e].phase = "dto"]
        /\ UNCHANGED <<gen, accounts, next, redisVars, serverVars, async, procVars>>

\* saveGrokAccount(a.db, a.toDTO()): a snapshot under the lock, then the HSET.
FlightDTO(e) ==
    /\ flight[e].phase = "dto"
    /\ flight' = [flight EXCEPT ![e].phase = "hset",
                                ![e].snap = acc[flight[e].obj]]
    /\ UNCHANGED <<poolVars, redisVars, serverVars, async, procVars>>

\* SaveGrokAccount: one HSET of all fields; a failure is only logged.
HSet(e, f) ==
    \/ /\ stored' = stored \cup {e}
       /\ row' = [row EXCEPT ![e] = f]
       /\ UNCHANGED struck
    \/ /\ "redis" \in Faults
       /\ struck' = TRUE
       /\ UNCHANGED redisVars

FlightHSet(e) ==
    /\ flight[e].phase = "hset"
    /\ HSet(e, flight[e].snap)
    /\ flight' = [flight EXCEPT ![e].phase = "done", ![e].res = "ok"]
    /\ UNCHANGED <<poolVars, logins, valid, async, procVars>>

\* The call returns to everyone who waits for a refresh of this e-mail.
FlightDone(e) ==
    /\ flight[e].phase = "done"
    /\ flight' = [flight EXCEPT ![e] = NoFlight]
    /\ pc' = [p \in Procs |-> IF pc[p] = "wait" /\ Email(obj[p]) = e
                              THEN flight[e].res ELSE pc[p]]
    /\ UNCHANGED <<poolVars, redisVars, serverVars, async, obj, left, snap>>

\* The goroutine Next started, or HandleRefresh, calls Refresh.
AsyncRefresh(o) ==
    /\ o \in async
    /\ async' = async \ {o}
    /\ Join(o)
    /\ UNCHANGED <<poolVars, redisVars, serverVars, procVars>>

FlightStep(e) ==
    \/ ReadToken(e) \/ Granted(e) \/ Denied(e) \/ Lost(e) \/ Apply(e)
    \/ FlightDTO(e) \/ FlightHSet(e) \/ FlightDone(e)

-----------------------------------------------------------------------------
(***************************************************************************)
(* Saves outside a refresh, and where the goroutine goes on afterwards.    *)
(***************************************************************************)

SaveDTO(p) ==
    /\ pc[p] = "dto"
    /\ snap' = [snap EXCEPT ![p] = acc[obj[p]]]
    /\ Go(p, "hset")
    /\ UNCHANGED <<poolVars, redisVars, serverVars, flight, async, obj, left>>

SaveHSet(p) ==
    /\ pc[p] = "hset"
    /\ HSet(Email(obj[p]), snap[p])
    /\ Go(p, IF p \in Requests THEN "pick" ELSE "idle")
    /\ snap' = [snap EXCEPT ![p] = Blank]
    /\ obj' = [obj EXCEPT ![p] = NoObj]
    /\ UNCHANGED <<poolVars, logins, valid, flight, async, left>>

\* An update of the account p works on, to be saved.
Set(p, f) ==
    /\ acc' = [acc EXCEPT ![obj[p]] = f]
    /\ Go(p, "dto")
    /\ UNCHANGED <<gen, accounts, next, redisVars, serverVars, flight, async,
                   obj, left, snap>>

-----------------------------------------------------------------------------
(***************************************************************************)
(* A request: ProxyGrok.                                                   *)
(***************************************************************************)

\* total := am.Len().
Start(q) ==
    /\ pc[q] = "idle"
    /\ Go(q, "pick")
    /\ left' = [left EXCEPT ![q] = Len(accounts)]
    /\ UNCHANGED <<poolVars, redisVars, serverVars, flight, async, obj, snap>>

Ahead(i) == (i - 1 - next) % Len(accounts)

\* Pass 1 of Next looks for these, in rotation.
Ready(i) == ~acc[accounts[i]].disabled /\ acc[accounts[i]].life # "near"

\* Pass 2 takes the one that expires last; only "near" ones are left by then,
\* and any of them may be it.
Pick(q) ==
    /\ pc[q] = "pick"
    /\ left[q] > 0
    /\ \E i \in DOMAIN accounts :
          /\ \/ /\ Ready(i)
                /\ \A j \in DOMAIN accounts : Ready(j) => Ahead(i) <= Ahead(j)
                /\ next' = i % Len(accounts)
                /\ UNCHANGED async
             \/ /\ \A j \in DOMAIN accounts : ~Ready(j)
                /\ ~acc[accounts[i]].disabled
                /\ next' = (next + 1) % Len(accounts)
                /\ async' = async \cup {accounts[i]}
          /\ obj' = [obj EXCEPT ![q] = accounts[i]]
    /\ Go(q, "sent")
    /\ left' = [left EXCEPT ![q] = @ - 1]
    /\ UNCHANGED <<acc, gen, accounts, redisVars, serverVars, flight, snap>>

\* The request ends: answered (with any status the loop does not handle),
\* nothing left to try, or the client gone.
End(q) ==
    /\ pc[q] \in {"pick", "sent", "retry"}
    /\ Go(q, "idle")
    /\ left' = [left EXCEPT ![q] = 0]
    /\ obj' = [obj EXCEPT ![q] = NoObj]
    /\ UNCHANGED <<poolVars, redisVars, serverVars, flight, async, snap>>

\* A network error, a 5xx, or a refresh that failed for another reason.
TryNext(q) ==
    /\ pc[q] \in {"sent", "retry", "err"}
    /\ Go(q, "pick")
    /\ obj' = [obj EXCEPT ![q] = NoObj]
    /\ UNCHANGED <<poolVars, redisVars, serverVars, flight, async, left, snap>>

\* The first 401: refresh and wait.
Unauthorized(q) ==
    /\ pc[q] = "sent"
    /\ Join(obj[q])
    /\ Go(q, "wait")
    /\ UNCHANGED <<poolVars, redisVars, serverVars, async, obj, left, snap>>

\* Refreshed: the call is repeated with the account's current token.
Retry(q) ==
    /\ pc[q] = "ok"
    /\ Go(q, "retry")
    /\ UNCHANGED <<poolVars, redisVars, serverVars, flight, async, obj, left, snap>>

\* A second 401, a 402, a 403 that names a ban, or invalid_grant.
PutOffFor(q) ==
    /\ pc[q] \in {"sent", "retry", "invalid_grant"}
    /\ Set(q, PutOff(acc[obj[q]]))

\* Any other 403.
Forbidden(q) ==
    /\ pc[q] \in {"sent", "retry"}
    /\ Set(q, CoolDown(acc[obj[q]]))

-----------------------------------------------------------------------------
(***************************************************************************)
(* The pre-warm worker, the cooldown worker, administration.               *)
(***************************************************************************)

\* Faulty variant: passes over tokens that are already about to expire.
DueEarly(f) == ~Permanent(f) /\ f.life = "warm"

\* needsRefresh: within the window, unless disabled for good.
Due(f) == ~Permanent(f) /\ f.life # "valid"

\* One goroutine of AutoRefreshWorker.
PreWarm(w, o) ==
    /\ pc[w] = "idle"
    /\ o \in Pool
    /\ Due(acc[o])
    /\ Join(o)
    /\ Go(w, "wait")
    /\ obj' = [obj EXCEPT ![w] = o]
    /\ UNCHANGED <<poolVars, redisVars, serverVars, async, left, snap>>

PreWarmed(w) ==
    /\ pc[w] \in {"ok", "err"}
    /\ Go(w, "idle")
    /\ obj' = [obj EXCEPT ![w] = NoObj]
    /\ UNCHANGED <<poolVars, redisVars, serverVars, flight, async, left, snap>>

\* Faulty variant: treats a dead refresh token like any other error.
RevokedIgnored(w) ==
    /\ pc[w] = "invalid_grant"
    /\ Go(w, "idle")
    /\ obj' = [obj EXCEPT ![w] = NoObj]
    /\ UNCHANGED <<poolVars, redisVars, serverVars, flight, async, left, snap>>

\* invalid_grant: disabled for good, then saved.
Revoked(w) ==
    /\ pc[w] = "invalid_grant"
    /\ Set(w, PutOff(acc[obj[w]]))

\* Faulty variant: the comparison is the wrong way round.
ExpiredReversed(f) == f.disabled /\ f.disabledAt = "recent"

\* ReenableCooldowns' test.
Expired(f) == f.disabled /\ f.disabledAt # "zero" /\ f.disabledAt = "old"

\* ReenableCooldowns for one account; the save that follows is w's.
Reenable(w, o) ==
    /\ pc[w] = "idle"
    /\ o \in Pool
    /\ Expired(acc[o])
    /\ acc' = [acc EXCEPT ![o].disabled = FALSE]
    /\ obj' = [obj EXCEPT ![w] = o]
    /\ Go(w, "dto")
    /\ UNCHANGED <<gen, accounts, next, redisVars, serverVars, flight, async,
                   left, snap>>

\* The loop of UpsertAccount that looks for the e-mail, under am.mu.
Known(e) == {o \in Pool : Email(o) = e}

\* UpsertAccount with the tokens of a new login.
Upsert(a, e) ==
    LET t == Login(logins + 1)
    IN  /\ pc[a] = "idle"
        /\ logins < MaxLogins
        /\ logins' = logins + 1
        /\ valid' = valid \cup {t}
        /\ \/ \E o \in Known(e) :
                 /\ acc' = [acc EXCEPT ![o] = WithLogin(t)]
                 /\ obj' = [obj EXCEPT ![a] = o]
                 /\ UNCHANGED <<gen, accounts>>
           \/ /\ Known(e) = {}
              /\ gen[e] < MaxGen
              /\ gen' = [gen EXCEPT ![e] = @ + 1]
              /\ acc' = [acc EXCEPT ![<<e, gen[e] + 1>>] = WithLogin(t)]
              /\ accounts' = Append(accounts, <<e, gen[e] + 1>>)
              /\ obj' = [obj EXCEPT ![a] = <<e, gen[e] + 1>>]
        /\ Go(a, "dto")
        /\ UNCHANGED <<next, redisVars, struck, flight, async, left, snap>>

\* Faulty variant: deletes the row and leaves the account in the pool.
DropRowOnly(gone) ==
    /\ stored' = stored \ gone
    /\ row' = [e \in Emails |-> IF e \in gone THEN Blank ELSE row[e]]
    /\ UNCHANGED <<poolVars, serverVars, flight, async, procVars>>

\* The slice of the accounts that are not in gone, in their order (a set of one).
Kept(gone) ==
    LET places == {i \in DOMAIN accounts : Email(accounts[i]) \notin gone}
        Upwards(p) == \A m, n \in DOMAIN p : m < n => p[m] < p[n]
    IN  {[n \in DOMAIN p |-> accounts[p[n]]] : p \in {s \in SetToSeqs(places) : Upwards(s)}}

\* The removal and the DELs happen under am.mu; a DEL that fails is only
\* logged.
Drop(gone) ==
    /\ accounts' \in Kept(gone)
    /\ \E done \in IF "redis" \in Faults THEN SUBSET gone ELSE {gone} :
          /\ stored' = stored \ done
          /\ row' = [e \in Emails |-> IF e \in done THEN Blank ELSE row[e]]
          /\ struck' = (struck \/ done # gone)
    /\ UNCHANGED <<acc, gen, next, logins, valid, flight, async, procVars>>

DeleteAccount(a, e) ==
    /\ pc[a] = "idle"
    /\ e \in {Email(o) : o \in Pool}
    /\ Drop({e})

\* HandleRefresh: Refresh on a copy of the pool, one account after the other,
\* disabled or not; the results are only reported to the client.
HandleRefresh(a) ==
    /\ pc[a] = "idle"
    /\ Pool # {}
    /\ async' = async \cup Pool
    /\ UNCHANGED <<poolVars, redisVars, serverVars, flight, procVars>>

\* CleanupDisabled and CleanupBanned.
Cleanup(a) ==
    LET gone == {Email(o) : o \in {x \in Pool : Permanent(acc[x])}}
    IN  /\ pc[a] = "idle"
        /\ gone # {}
        /\ Drop(gone)

-----------------------------------------------------------------------------
(***************************************************************************)
(* The environment.                                                        *)
(***************************************************************************)

Later(f) ==
    [f EXCEPT !.life = IF @ = "valid" THEN "warm" ELSE "near",
              !.disabledAt = IF @ = "recent" THEN "old" ELSE @]

\* Time passes: every token gets closer to its expiry, every cooldown older.
Tick ==
    /\ acc' = [o \in Obj |-> Later(acc[o])]
    /\ row' = [e \in Emails |-> Later(row[e])]
    /\ snap' = [p \in Procs |-> Later(snap[p])]
    /\ flight' = [e \in Emails |-> [flight[e] EXCEPT !.snap = Later(@)]]
    /\ UNCHANGED <<gen, accounts, next, stored, serverVars, async, pc, obj, left>>

\* auth.x.ai ends a login.
Revoke ==
    /\ "revoke" \in Faults
    /\ \E t \in valid : valid' = valid \ {t}
    /\ struck' = TRUE
    /\ UNCHANGED <<poolVars, redisVars, logins, flight, async, procVars>>

\* The process stops at any point and loads the pool from Redis.
Restart ==
    /\ "crash" \in Faults
    /\ acc' = [o \in Obj |-> IF Email(o) \in stored /\ o[2] = 1
                             THEN Parsed(row[Email(o)]) ELSE Blank]
    /\ gen' = [e \in Emails |-> IF e \in stored THEN 1 ELSE 0]
    /\ accounts' \in {[i \in DOMAIN s |-> <<s[i], 1>>] : s \in SetToSeqs(stored)}
    /\ next' = 0
    /\ flight' = [e \in Emails |-> NoFlight]
    /\ async' = {}
    /\ pc' = [p \in Procs |-> "idle"]
    /\ obj' = [p \in Procs |-> NoObj]
    /\ left' = [p \in Procs |-> 0]
    /\ snap' = [p \in Procs |-> Blank]
    /\ struck' = TRUE
    /\ UNCHANGED <<redisVars, logins, valid>>

-----------------------------------------------------------------------------
RequestStep(q) ==
    \/ Pick(q) \/ End(q) \/ TryNext(q) \/ Unauthorized(q) \/ Retry(q)
    \/ PutOffFor(q) \/ Forbidden(q)

WorkerStep(w) == PreWarmed(w) \/ Revoked(w)

Next ==
    \/ \E e \in Emails : FlightStep(e)
    \/ \E o \in Obj : AsyncRefresh(o)
    \/ \E p \in Procs : SaveDTO(p) \/ SaveHSet(p)
    \/ \E q \in Requests : Start(q) \/ RequestStep(q)
    \/ \E w \in Workers : WorkerStep(w)
    \/ \E w \in Workers, o \in Obj : PreWarm(w, o) \/ Reenable(w, o)
    \/ \E a \in Admins : HandleRefresh(a)
    \/ \E a \in Admins : Cleanup(a) \/ \E e \in Emails : Upsert(a, e) \/ DeleteAccount(a, e)
    \/ Tick
    \/ Revoke
    \/ Restart

\* HTTP calls end by their timeouts, started operations go on, and each tick
\* of the pre-warm worker visits every account it finds within the window.
Fairness ==
    /\ WF_vars(Tick)
    /\ \A e \in Emails : WF_vars(FlightStep(e))
    /\ \A p \in Procs : WF_vars(SaveDTO(p) \/ SaveHSet(p))
    /\ \A w \in Workers : WF_vars(WorkerStep(w))
    /\ \A o \in Obj : SF_vars(\E w \in Workers : PreWarm(w, o))
    /\ \A o \in Obj : SF_vars(\E w \in Workers : Reenable(w, o))

Spec == Init /\ [][Next]_vars /\ Fairness

-----------------------------------------------------------------------------
(***************************************************************************)
(* Properties.                                                             *)
(***************************************************************************)

\* Singleflight keeps the pool from using a refresh token twice: until an
\* answer is lost, a login is ended or the process crashes, no refresh is
\* denied, whatever requests, workers, imports and deletions run together.  A
\* denied refresh disables the account for good.
NeverReplaysToken ==
    \A e \in Emails : flight[e].res = "invalid_grant" => struck

\* A restart finds every account the pool works with: unless a Redis command
\* failed, each pooled e-mail has a row between the administrators' operations.
ImportsPersisted ==
    (\A a \in Admins : pc[a] = "idle") => struck \/ \A o \in Pool : Email(o) \in stored

\* Tokens are renewed before they run out: an account that nears its expiry is
\* refreshed in the background, unless it is removed or disabled for good.
NeedsRefresh(o) == o \in Pool /\ ~Permanent(acc[o]) /\ acc[o].life = "near"
TokensRenewed == \A o \in Obj : NeedsRefresh(o) ~> ~NeedsRefresh(o)

\* An account whose login auth.x.ai has ended does not stay in rotation: the
\* worker finds out and disables it for good, unless it is removed or gets the
\* tokens of a new login first.
DeadLogin(o) == o \in Pool /\ ~Permanent(acc[o]) /\ acc[o].tok \notin valid
DeadLoginEnds == \A o \in Obj : DeadLogin(o) ~> ~DeadLogin(o)

\* A cooldown ends, as in CBPool.
Cooling(o) == o \in Pool /\ acc[o].disabled /\ ~Permanent(acc[o])
CooldownEnds == \A o \in Obj : Cooling(o) ~> ~Cooling(o)
=============================================================================
