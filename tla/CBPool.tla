------------------------------- MODULE CBPool -------------------------------
(***************************************************************************)
(* The CodeBuddy key pool (internal/upstream/codebuddy.go) and its rows in *)
(* Redis (internal/db/db.go).  A key lives in memory as a CBKey object,    *)
(* shared by every request that picked it; every change of an object is a  *)
(* critical section under its own mutex followed, after the unlock, by a   *)
(* Redis write of the values seen inside the section.  The model keeps     *)
(* those two steps apart, so writes can land late, out of order, or after  *)
(* the key was deleted.  The process may stop at any point and reload the  *)
(* pool from Redis.                                                        *)
(*                                                                         *)
(* Left out: the circuit breaker (module CircuitBreaker), the outbound     *)
(* proxy, the bytes of requests and answers, and the totalReqs statistic.  *)
(***************************************************************************)
EXTENDS Integers, Sequences, FiniteSets, SequencesExt

CONSTANTS
    Keys,             \* API key strings
    MaxGen,           \* bound: CBKey objects created per key between restarts
    Requests,         \* ProxyCodeBuddy goroutines
    Admins,           \* import / delete / cleanup handler goroutines
    BootKeys,         \* keys named by CB_API_KEYS or the key file
    CB_CREDIT_LIMIT,  \* credits at which a key is disabled
    CreditCap,        \* the credit counter saturates here (only >= is tested)
    RedisFails        \* whether a Redis write may fail (it is logged, not retried)

ASSUME KeysAssumption == IsFiniteSet(Keys) /\ Keys # {}
ASSUME MaxGenAssumption == MaxGen \in Nat \ {0}
ASSUME BootAssumption == BootKeys \subseteq Keys
ASSUME LimitAssumption == CB_CREDIT_LIMIT \in Nat \ {0}
ASSUME CreditCapAssumption == CreditCap \in Nat /\ CreditCap >= CB_CREDIT_LIMIT
ASSUME RedisFailsAssumption == RedisFails \in BOOLEAN

VARIABLES
    st,       \* the fields of every CBKey object
    gen,      \* objects created so far for each key
    keys,     \* km.keys
    next,     \* km.next
    stored,   \* keys that have a Redis hash
    row,      \* its contents
    pc, left, held, snap,   \* each request: place, attempts left, key, save
    op,       \* each admin: the operation it is in the middle of
    unsaved   \* the cooldown worker's saves still to be made

poolVars == <<st, gen, keys, next>>
redisVars == <<stored, row>>
requestVars == <<pc, left, held, snap>>
vars == <<poolVars, redisVars, requestVars, op, unsaved>>

-----------------------------------------------------------------------------
(***************************************************************************)
(* Data.                                                                   *)
(***************************************************************************)

\* A CBKey object: objects of one key differ when it was deleted and added
\* again while a request still used the old one.
Obj == Keys \X (1..MaxGen)
KeyOf(o) == o[1]

\* disabledAt: the zero time, less than the ten minutes of a cooldown ago, or
\* longer ago.
Instant == {"zero", "recent", "old"}

\* The fields of a CBKey, and of its Redis hash.  dg is history: a cooldown
\* was written over a permanent disable.
Fields == [disabled : BOOLEAN, disabledAt : Instant, credits : 0..CreditCap,
           dg : BOOLEAN]

Fresh == [disabled |-> FALSE, disabledAt |-> "zero", credits |-> 0, dg |-> FALSE]

Permanent(f) == f.disabled /\ f.disabledAt = "zero"

PutOff(f) == [f EXCEPT !.disabled = TRUE, !.disabledAt = "zero", !.dg = FALSE]

\* The 429 and 4xx branches: a cooldown, without a look at the fields' values.
CoolDown(f) == [f EXCEPT !.disabled = TRUE, !.disabledAt = "recent",
                         !.dg = @ \/ Permanent(f)]

Exhausted(f) == f.credits >= CB_CREDIT_LIMIT

\* Faulty variant: disables one credit late.
AddCreditsLate(f, c) ==
    LET sum == IF f.credits + c <= CreditCap THEN f.credits + c ELSE CreditCap
        g == [f EXCEPT !.credits = sum]
    IN  IF sum > CB_CREDIT_LIMIT THEN PutOff(g) ELSE g

\* AddCredits, the part under the mutex.
AddCredits(f, c) ==
    LET sum == IF f.credits + c <= CreditCap THEN f.credits + c ELSE CreditCap
        g == [f EXCEPT !.credits = sum]
    IN  IF sum >= CB_CREDIT_LIMIT THEN PutOff(g) ELSE g

\* What LoadFromRedis makes of a hash: disabled_at is read only for a disabled
\* key, and a number <= 0 (the Unix time of Go's zero time) is the zero time.
Parsed(f) == IF f.disabled THEN f ELSE [f EXCEPT !.disabledAt = "zero"]

\* The ten-minute boundary passes for every timestamp taken so far.
Aged(f) == IF f.disabledAt = "recent" THEN [f EXCEPT !.disabledAt = "old"] ELSE f

\* Faulty variant: the comparison is the wrong way round.
ExpiredReversed(f) == f.disabled /\ f.disabledAt # "zero" /\ f.disabledAt # "old"

\* ReenableCooldowns' test.
Expired(f) == f.disabled /\ f.disabledAt # "zero" /\ f.disabledAt = "old"

Pooled == {KeyOf(keys[i]) : i \in DOMAIN keys}

\* km.mu is held by a cleanup from its scan to its last Redis DEL.
PoolFree == \A a \in Admins : op[a].kind # "cleanup"

NoObj == CHOOSE o \in Obj : TRUE
NoOp == [kind |-> "idle", todo |-> {}]

Ops == [kind : {"idle", "add", "delete", "cleanup"}, todo : SUBSET Keys]

TypeOK ==
    /\ st \in [Obj -> Fields]
    /\ gen \in [Keys -> 0..MaxGen]
    /\ keys \in Seq(Obj)
    /\ next \in Nat
    /\ stored \subseteq Keys
    /\ row \in [Keys -> Fields]
    /\ pc \in [Requests -> {"idle", "pick", "sent", "stream", "save", "savestream"}]
    /\ left \in [Requests -> Nat]
    /\ held \in [Requests -> Obj]
    /\ snap \in [Requests -> Fields]
    /\ op \in [Admins -> Ops]
    /\ unsaved \subseteq (Keys \X Fields)

-----------------------------------------------------------------------------
(***************************************************************************)
(* Start-up: LoadFromRedis into an empty manager.                          *)
(***************************************************************************)

\* The objects after a load of the hashes r of the keys ks.
LoadedFields(ks, r) ==
    [o \in Obj |-> IF KeyOf(o) \in ks /\ o[2] = 1 THEN Parsed(r[KeyOf(o)]) ELSE Fresh]

LoadedGen(ks) == [k \in Keys |-> IF k \in ks THEN 1 ELSE 0]

\* The slices a load may build: Go walks the map in an order of its own.
LoadedKeys(ks) == {[i \in DOMAIN s |-> <<s[i], 1>>] : s \in SetToSeqs(ks)}

\* The first start, on an empty Redis: the bootstrap keys are loaded and saved.
Init ==
    /\ stored = BootKeys
    /\ row = [k \in Keys |-> Fresh]
    /\ st = LoadedFields(BootKeys, row)
    /\ gen = LoadedGen(BootKeys)
    /\ keys \in LoadedKeys(BootKeys)
    /\ next = 0
    /\ pc = [q \in Requests |-> "idle"]
    /\ left = [q \in Requests |-> 0]
    /\ held = [q \in Requests |-> NoObj]
    /\ snap = [q \in Requests |-> Fresh]
    /\ op = [a \in Admins |-> NoOp]
    /\ unsaved = {}

\* A crash or stop at any point, and the next start.  Whatever was not yet
\* written is gone; an empty Redis is seeded from the bootstrap keys again.
Restart ==
    LET ks == IF stored = {} THEN BootKeys ELSE stored
    IN  /\ stored' = ks
        /\ row' = row
        /\ st' = LoadedFields(ks, row)
        /\ gen' = LoadedGen(ks)
        /\ keys' \in LoadedKeys(ks)
        /\ next' = 0
        /\ pc' = [q \in Requests |-> "idle"]
        /\ left' = [q \in Requests |-> 0]
        /\ held' = [q \in Requests |-> NoObj]
        /\ snap' = [q \in Requests |-> Fresh]
        /\ op' = [a \in Admins |-> NoOp]
        /\ unsaved' = {}

-----------------------------------------------------------------------------
(***************************************************************************)
(* A request: ProxyCodeBuddy.                                              *)
(***************************************************************************)

\* total := km.Len().
Start(q) ==
    /\ pc[q] = "idle"
    /\ PoolFree
    /\ pc' = [pc EXCEPT ![q] = "pick"]
    /\ left' = [left EXCEPT ![q] = Len(keys)]
    /\ UNCHANGED <<poolVars, redisVars, held, snap, op, unsaved>>

\* The distance from km.next to the position i, going round.
Ahead(i) == (i - 1 - next) % Len(keys)

\* km.Next(): the first enabled key at or after km.next.
IsNext(i) ==
    /\ ~st[keys[i]].disabled
    /\ \A j \in DOMAIN keys : ~st[keys[j]].disabled => Ahead(i) <= Ahead(j)

\* Faulty variant: leaves km.next on the key it returns.
PickInPlace(q) ==
    /\ pc[q] = "pick"
    /\ left[q] > 0
    /\ PoolFree
    /\ \E i \in DOMAIN keys :
          /\ IsNext(i)
          /\ next' = i - 1
          /\ held' = [held EXCEPT ![q] = keys[i]]
    /\ pc' = [pc EXCEPT ![q] = "sent"]
    /\ left' = [left EXCEPT ![q] = @ - 1]
    /\ UNCHANGED <<st, gen, keys, redisVars, snap, op, unsaved>>

\* km.Next() and the call of the upstream with the key it returns.
Pick(q) ==
    /\ pc[q] = "pick"
    /\ left[q] > 0
    /\ PoolFree
    /\ \E i \in DOMAIN keys :
          /\ IsNext(i)
          /\ next' = i % Len(keys)
          /\ held' = [held EXCEPT ![q] = keys[i]]
    /\ pc' = [pc EXCEPT ![q] = "sent"]
    /\ left' = [left EXCEPT ![q] = @ - 1]
    /\ UNCHANGED <<st, gen, keys, redisVars, snap, op, unsaved>>

\* The end of a request without an answer: the loop is used up, no key is
\* enabled, the client went away, or CodeBuddy refused the parameters.
GiveUp(q) ==
    /\ pc[q] \in {"pick", "sent"}
    /\ pc' = [pc EXCEPT ![q] = "idle"]
    /\ left' = [left EXCEPT ![q] = 0]
    /\ held' = [held EXCEPT ![q] = NoObj]
    /\ UNCHANGED <<poolVars, redisVars, snap, op, unsaved>>

\* A network error or a 5xx: on to the next key.
TryNext(q) ==
    /\ pc[q] = "sent"
    /\ pc' = [pc EXCEPT ![q] = "pick"]
    /\ held' = [held EXCEPT ![q] = NoObj]
    /\ UNCHANGED <<poolVars, redisVars, left, snap, op, unsaved>>

\* A 2xx or 3xx: the stream begins.
Accept(q) ==
    /\ pc[q] = "sent"
    /\ pc' = [pc EXCEPT ![q] = "stream"]
    /\ UNCHANGED <<poolVars, redisVars, left, held, snap, op, unsaved>>

\* The critical section of an update by q of the object it holds, with the
\* values for the save captured inside it.
Update(q, f, then) ==
    /\ st' = [st EXCEPT ![held[q]] = f]
    /\ snap' = [snap EXCEPT ![q] = f]
    /\ pc' = [pc EXCEPT ![q] = then]
    /\ UNCHANGED <<gen, keys, next, redisVars, left, held, op, unsaved>>

\* 401, 429 with 14017, 403 with 11140, 14018: disabled for good.
Refused(q) ==
    /\ pc[q] = "sent"
    /\ Update(q, PutOff(st[held[q]]), "save")

\* 429 and any other 4xx: ten minutes.
RateLimited(q) ==
    /\ pc[q] = "sent"
    /\ Update(q, CoolDown(st[held[q]]), "save")

\* An error chunk with 14018 or 14017 inside the stream.
StreamError(q) ==
    /\ pc[q] = "stream"
    /\ Update(q, PutOff(st[held[q]]), "savestream")

\* A usage chunk with a positive credit.
Charge(q) ==
    /\ pc[q] = "stream"
    /\ Update(q, AddCredits(st[held[q]], 1), "savestream")

EndStream(q) ==
    /\ pc[q] = "stream"
    /\ pc' = [pc EXCEPT ![q] = "idle"]
    /\ left' = [left EXCEPT ![q] = 0]
    /\ held' = [held EXCEPT ![q] = NoObj]
    /\ UNCHANGED <<poolVars, redisVars, snap, op, unsaved>>

\* Faulty variant: updates a hash but does not create one.
HSetExisting(k, f) ==
    /\ row' = IF k \in stored THEN [row EXCEPT ![k] = f] ELSE row
    /\ UNCHANGED stored

\* SaveCBKey: one HSET of all fields, which creates the hash if it is gone.
HSet(k, f) ==
    /\ stored' = stored \cup {k}
    /\ row' = [row EXCEPT ![k] = f]

LostWrite == RedisFails /\ UNCHANGED redisVars

\* The save after an update.
Save(q) ==
    /\ pc[q] \in {"save", "savestream"}
    /\ HSet(KeyOf(held[q]), snap[q]) \/ LostWrite
    /\ pc' = [pc EXCEPT ![q] = IF pc[q] = "save" THEN "pick" ELSE "stream"]
    /\ held' = IF pc[q] = "save" THEN [held EXCEPT ![q] = NoObj] ELSE held
    /\ snap' = [snap EXCEPT ![q] = Fresh]
    /\ UNCHANGED <<poolVars, left, op, unsaved>>

-----------------------------------------------------------------------------
(***************************************************************************)
(* Administration.                                                         *)
(***************************************************************************)

\* AddKey: the check and the append are one section under km.mu.
AddKey(a, k) ==
    /\ op[a] = NoOp
    /\ PoolFree
    /\ k \notin Pooled
    /\ gen[k] < MaxGen
    /\ gen' = [gen EXCEPT ![k] = @ + 1]
    /\ keys' = Append(keys, <<k, gen[k] + 1>>)
    /\ op' = [op EXCEPT ![a] = [kind |-> "add", todo |-> {k}]]
    /\ UNCHANGED <<st, next, redisVars, requestVars, unsaved>>

\* DeleteKey: the first that matches goes out of the slice under km.mu; the DEL
\* follows the unlock.
DeleteKey(a, k) ==
    /\ op[a] = NoOp
    /\ PoolFree
    /\ \E i \in DOMAIN keys :
          /\ KeyOf(keys[i]) = k /\ \A j \in 1..i - 1 : KeyOf(keys[j]) # k
          /\ keys' = RemoveAt(keys, i)
    /\ op' = [op EXCEPT ![a] = [kind |-> "delete", todo |-> {k}]]
    /\ UNCHANGED <<st, gen, next, redisVars, requestVars, unsaved>>

\* The slice of the keys that are not in gone, in their order (a set of one).
Kept(gone) ==
    LET places == {i \in DOMAIN keys : KeyOf(keys[i]) \notin gone}
        Upwards(p) == \A m, n \in DOMAIN p : m < n => p[m] < p[n]
    IN  {[n \in DOMAIN p |-> keys[p[n]]] : p \in {s \in SetToSeqs(places) : Upwards(s)}}

\* CleanupDisabled: the scan under km.mu, which is kept until the last DEL.
Cleanup(a) ==
    /\ op[a] = NoOp
    /\ PoolFree
    /\ LET gone == {KeyOf(o) : o \in {p \in ToSet(keys) : Permanent(st[p])}}
       IN  /\ gone # {}
           /\ op' = [op EXCEPT ![a] = [kind |-> "cleanup", todo |-> gone]]
           /\ keys' \in Kept(gone)
    /\ UNCHANGED <<st, gen, next, redisVars, requestVars, unsaved>>

\* One Redis command of the operation: the HSET of an import or a DEL.
Finish(a) ==
    /\ op[a].kind # "idle"
    /\ \E k \in op[a].todo :
          /\ \/ op[a].kind = "add" /\ HSet(k, Fresh)
             \/ /\ op[a].kind # "add"
                /\ stored' = stored \ {k}
                /\ row' = [row EXCEPT ![k] = Fresh]
             \/ LostWrite
          /\ op' = [op EXCEPT ![a] =
                       IF op[a].todo = {k} THEN NoOp ELSE [op[a] EXCEPT !.todo = op[a].todo \ {k}]]
    /\ UNCHANGED <<poolVars, requestVars, unsaved>>

-----------------------------------------------------------------------------
(***************************************************************************)
(* The cooldown worker and the clock.                                      *)
(***************************************************************************)

\* ReenableCooldowns: one section per key, then the saves.  disabledAt stays.
Reenable ==
    /\ unsaved = {}
    /\ PoolFree
    /\ LET due == {o \in ToSet(keys) : Expired(st[o])}
           On(o) == [st[o] EXCEPT !.disabled = FALSE]
       IN  /\ due # {}
           /\ st' = [o \in Obj |-> IF o \in due THEN On(o) ELSE st[o]]
           /\ unsaved' = {<<KeyOf(o), On(o)>> : o \in due}
    /\ UNCHANGED <<gen, keys, next, redisVars, requestVars, op>>

ReenableSave ==
    \E u \in unsaved :
        /\ unsaved' = unsaved \ {u}
        /\ HSet(u[1], u[2]) \/ LostWrite
        /\ UNCHANGED <<poolVars, requestVars, op>>

\* Ten minutes pass, for every timestamp taken so far.
Tick ==
    /\ st' = [o \in Obj |-> Aged(st[o])]
    /\ row' = [k \in Keys |-> Aged(row[k])]
    /\ snap' = [q \in Requests |-> Aged(snap[q])]
    /\ unsaved' = {<<u[1], Aged(u[2])>> : u \in unsaved}
    /\ UNCHANGED <<gen, keys, next, stored, pc, left, held, op>>

-----------------------------------------------------------------------------
RequestStep(q) ==
    \/ Pick(q) \/ GiveUp(q) \/ TryNext(q) \/ Accept(q) \/ Refused(q)
    \/ RateLimited(q) \/ StreamError(q) \/ Charge(q) \/ EndStream(q) \/ Save(q)

AdminStart(a) ==
    \/ \E k \in Keys : AddKey(a, k) \/ DeleteKey(a, k)
    \/ Cleanup(a)

Next ==
    \/ \E q \in Requests : Start(q) \/ RequestStep(q)
    \/ \E a \in Admins : AdminStart(a) \/ Finish(a)
    \/ Reenable
    \/ ReenableSave
    \/ Tick
    \/ Restart

\* Time passes, a started operation goes on, and the worker's ticker keeps
\* calling ReenableCooldowns.  It needs km.mu, which Go hands to every waiter
\* in the end however often it is taken: hence strong fairness.
Fairness ==
    /\ WF_vars(Tick)
    /\ SF_vars(Reenable)
    /\ WF_vars(ReenableSave)
    /\ \A a \in Admins : WF_vars(Finish(a))

Spec == Init /\ [][Next]_vars /\ Fairness

-----------------------------------------------------------------------------
(***************************************************************************)
(* Properties.                                                             *)
(***************************************************************************)

Revivable(f) == Exhausted(f) /\ ~Permanent(f)

\* A key whose credits are used up is disabled for good, in memory, in Redis
\* and in every save under way, unless a 429 or 4xx of another request wrote a
\* cooldown over the disable.  That is the one way an exhausted key comes
\* back: not through the worker, a late save, a re-import or a restart.
OnlyDowngradeRevives ==
    /\ \A o \in Obj : Revivable(st[o]) => st[o].dg
    /\ \A k \in Keys : Revivable(row[k]) => row[k].dg
    /\ \A q \in Requests : Revivable(snap[q]) => snap[q].dg
    /\ \A u \in unsaved : Revivable(u[2]) => u[2].dg

\* The pool never holds two objects for one key, which would each count only
\* its own credits.  With one administrator at a time and a Redis that answers,
\* whatever is in it between operations survives a restart: no late save,
\* cleanup or restart removes the row of a key that is in use.
PoolPersisted ==
    /\ \A i, j \in DOMAIN keys : KeyOf(keys[i]) = KeyOf(keys[j]) => i = j
    /\ (~RedisFails /\ \A a \in Admins : op[a] = NoOp) => Pooled \subseteq stored

\* A cooldown ends: a pooled key that is cooling down is enabled again, unless
\* it is removed or disabled for good first.  Restarts do not lose it, and a
\* worker busy with saves or waiting for km.mu gets to it.
Cooling(o) == o \in ToSet(keys) /\ st[o].disabled /\ ~Permanent(st[o])
CooldownEnds == \A o \in Obj : Cooling(o) ~> ~Cooling(o)

\* Rotation: every pick brings each other enabled key strictly closer to its
\* turn, so no enabled key is passed over for ever, whatever is disabled,
\* re-enabled or reloaded in between.
PickBringsOthersCloser ==
    [][\A q \in Requests : pc[q] = "pick" /\ pc'[q] = "sent" =>
          \A i \in DOMAIN keys :
              keys[i] # held'[q] /\ ~st[keys[i]].disabled => Ahead(i)' < Ahead(i)]_vars
=============================================================================
