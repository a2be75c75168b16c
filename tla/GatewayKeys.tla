---------------------------- MODULE GatewayKeys ----------------------------
(***************************************************************************)
(* The gateway's own API keys (internal/auth/auth.go), their Redis hashes  *)
(* (internal/db/db.go) and the key handlers (internal/handlers).           *)
(*                                                                         *)
(* A client request is admitted by Valid, runs, and is charged to its key  *)
(* when it ends: in memory under the key's mutex, then in Redis by an      *)
(* HINCRBY and, when the key is disabled, by a save of the whole hash.     *)
(* Administrators create, change and delete keys meanwhile; every one of   *)
(* these is a section under a mutex followed by a Redis command.           *)
(*                                                                         *)
(* Left out: names, model lists, rate limits and the request counter,      *)
(* which no decision here depends on.                                      *)
(***************************************************************************)
EXTENDS Integers, FiniteSets

CONSTANTS
    Keys,       \* key strings; a generated key is never issued twice
    BootKeys,   \* keys named by GATEWAY_API_KEYS or the key file
    Requests,   \* client requests
    Admins,     \* goroutines of the key handlers
    Quotas,     \* values an administrator gives to token_quota; 0 is unlimited
    UsedCap,    \* bound: usage counters saturate here
    MaxEdited   \* bound: keys ever changed through Update

ASSUME KeysAssumption == BootKeys # {} /\ BootKeys \subseteq Keys
ASSUME QuotasAssumption == Quotas \subseteq Nat /\ UsedCap \in Nat /\ MaxEdited \in Nat
ASSUME ProcsAssumption ==
    Requests \cap Admins = {} /\ IsFiniteSet(Requests) /\ IsFiniteSet(Admins)

VARIABLES
    pool,     \* the domain of am.keys
    info,     \* the GatewayKeyInfo of every key
    row,      \* the Redis hash of every key
    issued,   \* keys in use now or earlier
    edited,   \* history: keys changed through Update
    crashed,  \* history: the process stopped while work was under way
    pc, key, snap   \* each goroutine: place, key it works on, DTO to save

histVars == <<edited, crashed>>
vars == <<pool, info, row, issued, histVars, pc, key, snap>>

-----------------------------------------------------------------------------
(***************************************************************************)
(* Data.                                                                   *)
(***************************************************************************)

Procs == Requests \cup Admins

Info == [role : {"inference", "admin"}, disabled : BOOLEAN,
         quota : Quotas \cup {0}, used : 0..UsedCap]

NewInfo(role, quota) ==
    [role |-> role, disabled |-> FALSE, quota |-> quota, used |-> 0]

Blank == NewInfo("inference", 0)
Boot == NewInfo("admin", 0)

\* A hash is whole once SaveGatewayKey wrote it.  HINCRBY on a missing hash
\* leaves one without a "key" field, which the loader passes over.
Row == [whole : BOOLEAN, info : Info]
NoRow == [whole |-> FALSE, info |-> Blank]
Whole(f) == [whole |-> TRUE, info |-> f]

Add(n, amount) == IF n + amount <= UsedCap THEN n + amount ELSE UsedCap

Exhausted(f) == f.quota > 0 /\ f.used >= f.quota

ActiveAdmin(k) == k \in pool /\ info[k].role = "admin" /\ ~info[k].disabled

NoKey == CHOOSE k \in Keys : TRUE

Idle == \A p \in Procs : pc[p] = "idle"

TypeOK ==
    /\ pool \subseteq issued
    /\ issued \subseteq Keys
    /\ edited \subseteq Keys
    /\ crashed \in BOOLEAN
    /\ info \in [Keys -> Info]
    /\ row \in [Keys -> Row]
    /\ pc \in [Procs -> {"idle", "run", "hincr", "bump", "dto", "hset", "remove", "del"}]
    /\ key \in [Procs -> Keys]
    /\ snap \in [Procs -> Info]

\* NewManager on an empty Redis.
Init ==
    /\ pool = BootKeys
    /\ issued = BootKeys
    /\ edited = {}
    /\ crashed = FALSE
    /\ info = [k \in Keys |-> IF k \in BootKeys THEN Boot ELSE Blank]
    /\ row = [k \in Keys |-> IF k \in BootKeys THEN Whole(Boot) ELSE NoRow]
    /\ pc = [p \in Procs |-> "idle"]
    /\ key = [p \in Procs |-> NoKey]
    /\ snap = [p \in Procs |-> Blank]

\* p goes on at `where` with the key k and the DTO f.
Go(p, where, k, f) ==
    /\ pc' = [pc EXCEPT ![p] = where]
    /\ key' = [key EXCEPT ![p] = k]
    /\ snap' = [snap EXCEPT ![p] = f]

Done(p) == Go(p, "idle", NoKey, Blank)

-----------------------------------------------------------------------------
(***************************************************************************)
(* Redis commands.                                                         *)
(***************************************************************************)

HIncrBy(k, amount) == row' = [row EXCEPT ![k].info.used = Add(@, amount)]

\* SaveGatewayKey: one HSET of every field.
SaveGatewayKey(k, f) == row' = [row EXCEPT ![k] = Whole(f)]

-----------------------------------------------------------------------------
(***************************************************************************)
(* A client request.                                                       *)
(***************************************************************************)

\* AuthMiddleware and Valid.  A key just generated is not known to anyone
\* before its handler has answered.
Admit(q, k) ==
    /\ pc[q] = "idle"
    /\ k \in pool
    /\ ~info[k].disabled
    /\ \A a \in Admins : ~(key[a] = k /\ pc[a] \in {"dto", "hset"} /\ ~row[k].whole)
    /\ Go(q, "run", k, Blank)
    /\ UNCHANGED <<pool, info, row, issued, histVars>>

\* Faulty variant: lets a key have exactly its quota.
ChargeLate(f, amount) ==
    LET n == Add(f.used, amount)
    IN  [f EXCEPT !.used = n, !.disabled = @ \/ (f.quota > 0 /\ n > f.quota)]

\* IncrementTokens, the part under the mutex.
Charge(f, amount) ==
    LET n == Add(f.used, amount)
    IN  [f EXCEPT !.used = n, !.disabled = @ \/ (f.quota > 0 /\ n >= f.quota)]

\* The end of a request that used tokens: IncrementTokens.
IncrementTokens(q) ==
    LET k == key[q]
        f == Charge(info[k], 1)
    IN  /\ pc[q] = "run"
        /\ k \in pool
        /\ info' = [info EXCEPT ![k] = f]
        /\ Go(q, "hincr", k, f)
        /\ UNCHANGED <<pool, row, issued, histVars>>

\* The end of a request that used none: IncrementRequests.
IncrementRequests(q) ==
    /\ pc[q] = "run"
    /\ key[q] \in pool
    /\ Go(q, "bump", key[q], Blank)
    /\ UNCHANGED <<pool, info, row, issued, histVars>>

\* The key is gone: neither does anything.
Unknown(q) ==
    /\ pc[q] = "run"
    /\ key[q] \notin pool
    /\ Done(q)
    /\ UNCHANGED <<pool, info, row, issued, histVars>>

\* Faulty variant: the increment reaches Redis although a save follows.
IncrementGatewayKeyTokensTwice(q) ==
    /\ pc[q] = "hincr"
    /\ HIncrBy(key[q], 2)
    /\ IF snap[q].disabled THEN Go(q, "hset", key[q], snap[q]) ELSE Done(q)
    /\ UNCHANGED <<pool, info, issued, histVars>>

\* Faulty variant: every charge saves the whole hash.
IncrementGatewayKeyTokensSaves(q) ==
    /\ pc[q] = "hincr"
    /\ HIncrBy(key[q], 1)
    /\ Go(q, "hset", key[q], snap[q])
    /\ UNCHANGED <<pool, info, issued, histVars>>

\* The HINCRBY of tokens_used; the save follows only for a disabled key.
IncrementGatewayKeyTokens(q) ==
    /\ pc[q] = "hincr"
    /\ HIncrBy(key[q], 1)
    /\ IF snap[q].disabled THEN Go(q, "hset", key[q], snap[q]) ELSE Done(q)
    /\ UNCHANGED <<pool, info, issued, histVars>>

\* The HINCRBY of requests.
IncrementGatewayKeyRequests(q) ==
    /\ pc[q] = "bump"
    /\ HIncrBy(key[q], 0)
    /\ Done(q)
    /\ UNCHANGED <<pool, info, issued, histVars>>

-----------------------------------------------------------------------------
(***************************************************************************)
(* Key handlers.                                                           *)
(***************************************************************************)

\* AuthMiddleware and AdminMiddleware let the handler start.
MayStart(a) ==
    /\ pc[a] = "idle"
    /\ \E k \in Keys : ActiveAdmin(k)

\* HandleCreateKey, AddWithRole: into the map; the DTO is read afterwards.
CreateKey(a, k) ==
    /\ MayStart(a)
    /\ k \notin issued
    /\ pool' = pool \cup {k}
    /\ issued' = issued \cup {k}
    /\ \E role \in {"inference", "admin"}, quota \in Quotas :
          info' = [info EXCEPT ![k] = NewInfo(role, quota)]
    /\ Go(a, "dto", k, Blank)
    /\ UNCHANGED <<row, histVars>>

\* saveGatewayKey: the DTO, under the key's mutex.
ReadDTO(a) ==
    /\ pc[a] = "dto"
    /\ Go(a, "hset", key[a], info[key[a]])
    /\ UNCHANGED <<pool, info, row, issued, histVars>>

\* The save at the end of a creation, an update or a charge.
Save(p) ==
    /\ pc[p] = "hset"
    /\ SaveGatewayKey(key[p], snap[p])
    /\ Done(p)
    /\ UNCHANGED <<pool, info, issued, histVars>>

\* HandleUpdateKey, Update: any of the fields, the DTO in the same section.
UpdateKey(a, k) ==
    /\ MayStart(a)
    /\ k \in pool
    /\ Cardinality(edited \cup {k}) <= MaxEdited
    /\ \E role \in {"inference", "admin"}, disabled \in BOOLEAN,
          quota \in Quotas \cup {info[k].quota} :
          LET f == [info[k] EXCEPT !.role = role, !.disabled = disabled, !.quota = quota]
          IN  /\ info' = [info EXCEPT ![k] = f]
              /\ Go(a, "hset", k, f)
    /\ edited' = edited \cup {k}
    /\ UNCHANGED <<pool, row, issued, crashed>>

\* Faulty variant: compares with 0, as if the key were not counted itself.
LastAdminOffByOne(k) ==
    info[k].role = "admin" /\ Cardinality({x \in Keys : ActiveAdmin(x)}) <= 0

\* HandleDeleteKey's guard: an admin key, and CountAdmins() <= 1.
LastAdmin(k) ==
    info[k].role = "admin" /\ Cardinality({x \in Keys : ActiveAdmin(x)}) <= 1

\* HandleDeleteKey up to its guard; 409 otherwise.
DeleteKey(a, k) ==
    /\ MayStart(a)
    /\ k \in pool
    /\ ~LastAdmin(k)
    /\ Go(a, "remove", k, Blank)
    /\ UNCHANGED <<pool, info, row, issued, histVars>>

\* Remove: out of the map ...
Remove(a) ==
    /\ pc[a] = "remove"
    /\ pool' = pool \ {key[a]}
    /\ Go(a, "del", key[a], Blank)
    /\ UNCHANGED <<info, row, issued, histVars>>

\* ... and then the DEL.
DeleteGatewayKey(a) ==
    /\ pc[a] = "del"
    /\ row' = [row EXCEPT ![key[a]] = NoRow]
    /\ Done(a)
    /\ UNCHANGED <<pool, info, issued, histVars>>

-----------------------------------------------------------------------------
\* The process stops, in the middle of anything or with everything finished,
\* and NewManager loads the whole hashes; without any, the bootstrap keys.
Restart ==
    LET loaded == {k \in Keys : row[k].whole}
        ks == IF loaded = {} THEN BootKeys ELSE loaded
    IN  /\ pool' = ks
        /\ issued' = issued \cup ks
        /\ row' = [k \in Keys |-> IF k \in ks \ loaded THEN Whole(Boot) ELSE row[k]]
        /\ info' = [k \in Keys |-> IF k \in ks \ loaded THEN Boot
                                   ELSE IF k \in ks THEN row[k].info ELSE Blank]
        /\ pc' = [p \in Procs |-> "idle"]
        /\ key' = [p \in Procs |-> NoKey]
        /\ snap' = [p \in Procs |-> Blank]
        /\ crashed' = (crashed \/ ~Idle)
        /\ UNCHANGED edited

RequestStep(q) ==
    \/ IncrementTokens(q) \/ IncrementRequests(q) \/ Unknown(q)
    \/ IncrementGatewayKeyTokens(q) \/ IncrementGatewayKeyRequests(q)

AdminStep(a) == ReadDTO(a) \/ Remove(a) \/ DeleteGatewayKey(a)

Next ==
    \/ \E q \in Requests, k \in Keys : Admit(q, k)
    \/ \E q \in Requests : RequestStep(q)
    \/ \E a \in Admins, k \in Keys : CreateKey(a, k) \/ UpdateKey(a, k) \/ DeleteKey(a, k)
    \/ \E a \in Admins : AdminStep(a)
    \/ \E p \in Procs : Save(p)
    \/ Restart

Spec == Init /\ [][Next]_vars

-----------------------------------------------------------------------------
(***************************************************************************)
(* Properties.                                                             *)
(***************************************************************************)

\* IncrementTokens' promise: a key whose quota is used up is disabled, however
\* charges, their late HINCRBYs and saves, and orderly restarts interleave; only
\* an administrator's change of the key, or a crash between the HINCRBY and the
\* save, can make it otherwise.
QuotaStops ==
    \A k \in pool \ edited : Exhausted(info[k]) => info[k].disabled \/ crashed

\* The overrun of a quota is bounded: at most the requests admitted before it
\* was used up are still charged.
OverrunBounded ==
    \A k \in pool \ edited :
        info[k].quota > 0 =>
            crashed \/ info[k].used <= info[k].quota - 1 + Cardinality(Requests)

\* Usage in Redis is exact once nothing is under way, for a key that was neither
\* disabled nor changed by hand: every charge arrives there exactly once.
UsageExact ==
    Idle /\ ~crashed => \A k \in pool \ edited :
        info[k].disabled \/ row[k].info.used = info[k].used

Single == Cardinality(Admins) = 1 /\ edited = {}

\* HandleDeleteKey's guard suffices for one administrator who only creates and
\* deletes: an admin key always remains that nothing but its quota disables,
\* wherever the process stops.  (Of two deletions at once both may count before
\* either removes, and an update may disable or demote the last one.)
SoleAdminKeepsOne ==
    Single => \E k \in pool :
        info[k].role = "admin" /\ (info[k].disabled => info[k].quota > 0)

\* What a late save re-creates in Redis after a deletion cannot be used: the
\* only saves a request makes are of disabled keys, so a key that comes back
\* at the next start is disabled.
GhostsAreDisabled ==
    Single => \A k \in Keys \ pool :
        row[k].whole /\ (\A a \in Admins : key[a] # k \/ pc[a] = "idle") =>
            row[k].info.disabled
=============================================================================
