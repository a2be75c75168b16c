----------------------------- MODULE ProxyPool -----------------------------
(***************************************************************************)
(* The pool of outbound proxies (internal/proxy/pool.go), its Redis keys   *)
(* (internal/db/db.go) and its use by upstream calls (getClient and        *)
(* markProxyResult in internal/upstream/upstream.go).                      *)
(*                                                                         *)
(* An entry lives in memory, in a Redis hash and, while enabled, in the    *)
(* Redis set of enabled ids; the HTTP transport built for it is cached by  *)
(* id.  Each operation changes memory under p.mu and then, unlocked, the   *)
(* cache and Redis, one command at a time.  p.enabled is not a variable:   *)
(* it is rebuilt in every section that changes Enabled or the settings.    *)
(* Next may return any enabled entry: the counter it takes modulo the      *)
(* length of the list is shared by lists of every length, and moved by     *)
(* every call.                                                             *)
(***************************************************************************)
EXTENDS Integers, FiniteSets

CONSTANTS
    Ids,                    \* proxy ids; a generated id is never used twice
    Configs,                \* protocol, host, port, credentials
    Requests,               \* upstream calls
    Admins,                 \* goroutines of the proxy handlers
    PROXY_FAIL_THRESHOLD

ASSUME ThresholdAssumption == PROXY_FAIL_THRESHOLD \in Nat \ {0}
ASSUME ConfigsAssumption == Configs # {} /\ "none" \notin Configs
ASSUME IdsAssumption == Ids # {}
ASSUME ProcsAssumption == Requests \cap Admins = {} /\ IsFiniteSet(Admins)

VARIABLES
    pool,         \* ids in p.entries
    entry,        \* their ProxyEntry
    transports,   \* the settings of the cached transport of an id, or "none"
    row, eset,    \* Redis: the hash of each id, and fr:proxy:enabled
    issued,       \* ids generated so far
    touch,        \* `go UpdateProxyLastUsed` goroutines not yet run
    pc, id, snap, \* each goroutine: place, id, copy of the entry
    passed        \* history: ids whose last invalidation an old copy survived

memVars == <<pool, entry, transports>>
redisVars == <<row, eset>>
vars == <<memVars, redisVars, issued, touch, pc, id, snap, passed>>

-----------------------------------------------------------------------------
(***************************************************************************)
(* Data.                                                                   *)
(***************************************************************************)

Procs == Requests \cup Admins

Settings == Configs \cup {"none"}

\* FailCount is only compared with the threshold and saturates there.
Entry == [cfg : Settings, enabled : BOOLEAN, fails : 0..PROXY_FAIL_THRESHOLD]
NoEntry == [cfg |-> "none", enabled |-> FALSE, fails |-> 0]

\* A hash that a single-field HSET created has no settings.
Row == [present : BOOLEAN, cfg : Settings, fails : 0..PROXY_FAIL_THRESHOLD]
NoRow == [present |-> FALSE, cfg |-> "none", fails |-> 0]

NoId == CHOOSE i \in Ids : TRUE

Usable(i) == i \in pool /\ entry[i].enabled

TypeOK ==
    /\ pool \subseteq Ids
    /\ entry \in [Ids -> Entry]
    /\ transports \in [Ids -> Settings]
    /\ row \in [Ids -> Row]
    /\ eset \subseteq Ids
    /\ issued \subseteq Ids
    /\ touch \subseteq Ids
    /\ pc \in [Procs -> {"idle", "dial", "build", "use", "inval", "hset", "sset",
                         "count", "addhset", "addsset", "addmem", "delinval", "del",
                         "srem"}]
    /\ id \in [Procs -> Ids]
    /\ snap \in [Procs -> Entry]
    /\ passed \subseteq Ids

Init ==
    /\ pool = {}
    /\ entry = [i \in Ids |-> NoEntry]
    /\ transports = [i \in Ids |-> "none"]
    /\ row = [i \in Ids |-> NoRow]
    /\ eset = {}
    /\ issued = {}
    /\ touch = {}
    /\ pc = [p \in Procs |-> "idle"]
    /\ id = [p \in Procs |-> NoId]
    /\ snap = [p \in Procs |-> NoEntry]
    /\ passed = {}

\* p goes on at `where` with the id i and the copy e.
Go(p, where, i, e) ==
    /\ pc' = [pc EXCEPT ![p] = where]
    /\ id' = [id EXCEPT ![p] = i]
    /\ snap' = [snap EXCEPT ![p] = e]

Done(p) == Go(p, "idle", NoId, NoEntry)

\* Where p goes on when its operation is complete: a request with its client.
Resume(p) == IF p \in Requests THEN Go(p, "use", id[p], NoEntry) ELSE Done(p)

-----------------------------------------------------------------------------
(***************************************************************************)
(* Redis commands, each a step of its own.                                 *)
(***************************************************************************)

\* SaveProxy's HSET.
HSet(i, e) == row' = [row EXCEPT ![i] = [present |-> TRUE, cfg |-> e.cfg, fails |-> e.fails]]

\* SaveProxy's SADD or SREM.
SyncEnabled(i, e) == eset' = IF e.enabled THEN eset \cup {i} ELSE eset \ {i}

SaveHSet(p) ==
    /\ pc[p] = "hset"
    /\ HSet(id[p], snap[p])
    /\ Go(p, "sset", id[p], snap[p])
    /\ UNCHANGED <<memVars, eset, issued, touch, passed>>

\* Faulty variant: the set only ever grows.
SaveSAddOnly(p) ==
    /\ pc[p] = "sset"
    /\ eset' = eset \cup {id[p]}
    /\ Resume(p)
    /\ UNCHANGED <<memVars, row, issued, touch, passed>>

SaveSync(p) ==
    /\ pc[p] = "sset"
    /\ SyncEnabled(id[p], snap[p])
    /\ Resume(p)
    /\ UNCHANGED <<memVars, row, issued, touch, passed>>

\* UpdateProxyFailCount.
SaveCount(p) ==
    /\ pc[p] = "count"
    /\ row' = [row EXCEPT ![id[p]].present = TRUE, ![id[p]].fails = snap[p].fails]
    /\ Resume(p)
    /\ UNCHANGED <<memVars, eset, issued, touch, passed>>

\* UpdateProxyLastUsed, in its own goroutine.
Touch(i) ==
    /\ i \in touch
    /\ touch' = touch \ {i}
    /\ row' = [row EXCEPT ![i].present = TRUE]
    /\ UNCHANGED <<memVars, eset, issued, pc, id, snap, passed>>

-----------------------------------------------------------------------------
(***************************************************************************)
(* An upstream call.                                                       *)
(***************************************************************************)

\* Next: a copy of an enabled entry.
Pick(q, i) ==
    /\ pc[q] = "idle"
    /\ Usable(i)
    /\ touch' = touch \cup {i}
    /\ Go(q, "dial", i, entry[i])
    /\ UNCHANGED <<memVars, redisVars, issued, passed>>

\* Transport: the cached one, if there is one.
Dial(q) ==
    /\ pc[q] = "dial"
    /\ IF transports[id[q]] # "none" THEN Go(q, "use", id[q], NoEntry)
                                     ELSE Go(q, "build", id[q], snap[q])
    /\ UNCHANGED <<memVars, redisVars, issued, touch, passed>>

\* Otherwise buildTransport for the copy, and LoadOrStore.
Build(q) ==
    /\ pc[q] = "build"
    /\ snap[q].cfg # "none"
    /\ transports' = IF transports[id[q]] = "none"
                     THEN [transports EXCEPT ![id[q]] = snap[q].cfg] ELSE transports
    /\ Go(q, "use", id[q], NoEntry)
    /\ UNCHANGED <<pool, entry, redisVars, issued, touch, passed>>

\* Faulty variant: forgets to count a failure of a disabled entry, and
\* disables only above the threshold.
CountFailureLate(e) ==
    LET n == IF e.fails < PROXY_FAIL_THRESHOLD THEN e.fails + 1 ELSE e.fails
    IN  [e EXCEPT !.fails = n, !.enabled = @ /\ n <= PROXY_FAIL_THRESHOLD]

\* MarkFailed, the part under p.mu.
CountFailure(e) ==
    LET n == IF e.fails < PROXY_FAIL_THRESHOLD THEN e.fails + 1 ELSE e.fails
    IN  [e EXCEPT !.fails = n, !.enabled = @ /\ n < PROXY_FAIL_THRESHOLD]

\* MarkFailed, after a failed call or when no transport can be built (which
\* happens for an entry without settings; the model lets such a call report
\* further results, although it goes on without a proxy).  An entry just
\* disabled loses its transport and is saved whole.
MarkFailed(q) ==
    LET i == id[q]
        e == CountFailure(entry[i])
    IN  /\ pc[q] = "use" \/ (pc[q] = "build" /\ snap[q].cfg = "none")
        /\ i \in pool
        /\ entry' = [entry EXCEPT ![i] = e]
        /\ Go(q, IF entry[i].enabled /\ ~e.enabled THEN "inval" ELSE "count", i, e)
        /\ UNCHANGED <<pool, transports, redisVars, issued, touch, passed>>

\* MarkSuccess; nothing is written when the count was 0.
MarkSuccess(q) ==
    LET i == id[q]
    IN  /\ pc[q] = "use"
        /\ i \in pool
        /\ entry[i].fails # 0
        /\ entry' = [entry EXCEPT ![i].fails = 0]
        /\ Go(q, "count", i, NoEntry)
        /\ UNCHANGED <<pool, transports, redisVars, issued, touch, passed>>

\* The call ends; its results found the entry gone, or nothing to change.
End(q) ==
    /\ pc[q] = "use" \/ (pc[q] = "build" /\ snap[q].cfg = "none" /\ id[q] \notin pool)
    /\ Done(q)
    /\ UNCHANGED <<memVars, redisVars, issued, touch, passed>>

\* A call has a copy of the entry, with other settings, to build from.
OldCopy(i) ==
    \E q \in Requests : pc[q] \in {"dial", "build"} /\ id[q] = i /\ snap[q].cfg # entry[i].cfg

\* Faulty variant: a disabled entry keeps its transport.
InvalidateEnabled(p) ==
    /\ pc[p] = "inval"
    /\ transports' = IF snap[p].enabled THEN [transports EXCEPT ![id[p]] = "none"]
                     ELSE transports
    /\ passed' = IF OldCopy(id[p]) THEN passed \cup {id[p]} ELSE passed \ {id[p]}
    /\ Go(p, "hset", id[p], snap[p])
    /\ UNCHANGED <<pool, entry, redisVars, issued, touch>>

\* transports.Delete of an update or an automatic disable; SaveProxy follows.
Invalidate(p) ==
    /\ pc[p] = "inval"
    /\ transports' = [transports EXCEPT ![id[p]] = "none"]
    /\ passed' = IF OldCopy(id[p]) THEN passed \cup {id[p]} ELSE passed \ {id[p]}
    /\ Go(p, "hset", id[p], snap[p])
    /\ UNCHANGED <<pool, entry, redisVars, issued, touch>>

-----------------------------------------------------------------------------
(***************************************************************************)
(* The proxy handlers.                                                     *)
(***************************************************************************)

\* Add: Redis first, memory last.
Add(a, i) ==
    /\ pc[a] = "idle"
    /\ i \notin issued
    /\ issued' = issued \cup {i}
    /\ \E c \in Configs, on \in BOOLEAN :
          Go(a, "addhset", i, [cfg |-> c, enabled |-> on, fails |-> 0])
    /\ UNCHANGED <<memVars, redisVars, touch, passed>>

AddHSet(a) ==
    /\ pc[a] = "addhset"
    /\ HSet(id[a], snap[a])
    /\ Go(a, "addsset", id[a], snap[a])
    /\ UNCHANGED <<memVars, eset, issued, touch, passed>>

AddSync(a) ==
    /\ pc[a] = "addsset"
    /\ SyncEnabled(id[a], snap[a])
    /\ Go(a, "addmem", id[a], snap[a])
    /\ UNCHANGED <<memVars, row, issued, touch, passed>>

AddToMemory(a) ==
    /\ pc[a] = "addmem"
    /\ pool' = pool \cup {id[a]}
    /\ entry' = [entry EXCEPT ![id[a]] = snap[a]]
    /\ Done(a)
    /\ UNCHANGED <<transports, redisVars, issued, touch, passed>>

\* Update: any settings, any Enabled; the failures are forgotten.
Update(a, i) ==
    /\ pc[a] = "idle"
    /\ i \in pool
    /\ \E c \in Configs, on \in BOOLEAN :
          LET e == [cfg |-> c, enabled |-> on, fails |-> 0]
          IN  /\ entry' = [entry EXCEPT ![i] = e]
              /\ Go(a, "inval", i, e)
    /\ UNCHANGED <<pool, transports, redisVars, issued, touch, passed>>

\* Re-enabling forgets the failures.
Flipped(e) == [e EXCEPT !.enabled = ~@, !.fails = IF e.enabled THEN @ ELSE 0]

Toggle(a, i) ==
    /\ pc[a] = "idle"
    /\ i \in pool
    /\ entry' = [entry EXCEPT ![i] = Flipped(@)]
    /\ Go(a, "hset", i, Flipped(entry[i]))
    /\ UNCHANGED <<pool, transports, redisVars, issued, touch, passed>>

\* Delete: memory, transport, hash, set.
Delete(a, i) ==
    /\ pc[a] = "idle"
    /\ i \in pool
    /\ pool' = pool \ {i}
    /\ Go(a, "delinval", i, NoEntry)
    /\ UNCHANGED <<entry, transports, redisVars, issued, touch, passed>>

DeleteTransport(a) ==
    /\ pc[a] = "delinval"
    /\ transports' = [transports EXCEPT ![id[a]] = "none"]
    /\ Go(a, "del", id[a], NoEntry)
    /\ UNCHANGED <<pool, entry, redisVars, issued, touch, passed>>

DeleteHash(a) ==
    /\ pc[a] = "del"
    /\ row' = [row EXCEPT ![id[a]] = NoRow]
    /\ Go(a, "srem", id[a], NoEntry)
    /\ UNCHANGED <<memVars, eset, issued, touch, passed>>

DeleteFromSet(a) ==
    /\ pc[a] = "srem"
    /\ eset' = eset \ {id[a]}
    /\ Done(a)
    /\ UNCHANGED <<memVars, row, issued, touch, passed>>

\* The process stops at any point; Load reads the hashes, and the set says
\* which are enabled.
Restart ==
    /\ pool' = {i \in Ids : row[i].present}
    /\ entry' = [i \in Ids |->
                    IF row[i].present
                    THEN [cfg |-> row[i].cfg, enabled |-> i \in eset, fails |-> row[i].fails]
                    ELSE NoEntry]
    /\ transports' = [i \in Ids |-> "none"]
    /\ touch' = {}
    /\ pc' = [p \in Procs |-> "idle"]
    /\ id' = [p \in Procs |-> NoId]
    /\ snap' = [p \in Procs |-> NoEntry]
    /\ passed' = {}
    /\ UNCHANGED <<redisVars, issued>>

-----------------------------------------------------------------------------
SaveStep(p) == Invalidate(p) \/ SaveHSet(p) \/ SaveSync(p)

RequestStep(q) ==
    \/ Dial(q) \/ Build(q) \/ MarkFailed(q) \/ MarkSuccess(q) \/ End(q) \/ SaveCount(q)

AdminStep(a) ==
    \/ AddHSet(a) \/ AddSync(a) \/ AddToMemory(a)
    \/ DeleteTransport(a) \/ DeleteHash(a) \/ DeleteFromSet(a)

Next ==
    \/ \E q \in Requests : RequestStep(q) \/ \E i \in Ids : Pick(q, i)
    \/ \E a \in Admins : AdminStep(a)
    \/ \E a \in Admins, i \in Ids : Add(a, i) \/ Update(a, i) \/ Toggle(a, i) \/ Delete(a, i)
    \/ \E p \in Procs : SaveStep(p)
    \/ \E i \in Ids : Touch(i)
    \/ Restart

Spec == Init /\ [][Next]_vars

-----------------------------------------------------------------------------
(***************************************************************************)
(* Properties.                                                             *)
(***************************************************************************)

\* Auto-disable is complete: no step of the running process leaves an enabled
\* entry at the threshold that was not there before, whichever failures,
\* successes, toggles and updates interleave; an entry brought back by hand
\* starts with a clean count.  Only a restart between MarkFailed and its save
\* can find such an entry in Redis.
AtThreshold == {i \in pool : entry[i].enabled /\ entry[i].fails >= PROXY_FAIL_THRESHOLD}
ThresholdDisables == [][Restart \/ AtThreshold' \subseteq AtThreshold]_vars

\* With one administrator at a time, a deleted proxy never comes back enabled:
\* whatever late writes re-create its hash, the set of enabled ids, which Load
\* goes by, does not name it once the deletion is complete.
GhostsStayOff ==
    Cardinality(Admins) = 1 => \A i \in Ids \ pool :
        row[i].present /\ (\A a \in Admins : pc[a] = "idle" \/ id[a] # i) => i \notin eset

\* pool.go:15 "the cache is invalidated on Update/Delete": between the
\* invalidation of an update and the next update a cached transport has the
\* settings of its entry, unless a call held a copy of the old entry at that
\* moment: such a call may store its transport afterwards, for every later call
\* to use.
TransportsCurrent ==
    \A i \in pool \ passed :
        (\A p \in Procs : pc[p] # "inval" \/ id[p] # i) =>
            transports[i] \in {"none", entry[i].cfg}
=============================================================================
