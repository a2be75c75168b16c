-------------------------- MODULE ProxyPoolProofs --------------------------
(***************************************************************************)
(* Proofs about ProxyPool, for every set of proxies, settings, upstream    *)
(* calls and administrators and every failure threshold.                   *)
(***************************************************************************)
EXTENDS ProxyPool, FiniteSetTheorems, TLAPS

Adding == {"addhset", "addsset", "addmem"}
Saving == {"inval", "hset", "sset"}
Deleting == {"delinval", "del", "srem"}

\* p is in the middle of an operation on i.
On(p, i) == pc[p] # "idle" /\ id[p] = i

\* An id that was not generated yet is known to nothing.
Unissued ==
    \A i \in Ids \ issued :
        /\ i \notin pool /\ transports[i] = "none"
        /\ ~row[i].present /\ i \notin eset /\ i \notin touch
        /\ \A p \in Procs : ~On(p, i)

\* An id that is being added is known to the goroutine that adds it, and
\* outside of Redis to nothing else; its count starts at 0.
AddsAlone ==
    \A a \in Procs : pc[a] \in Adding =>
        /\ id[a] \notin pool /\ transports[id[a]] = "none" /\ id[a] \notin touch
        /\ snap[a].fails = 0
        /\ \A p \in Procs \ {a} : ~On(p, id[a])

\* TransportsCurrent, with the copies that transports are built from.
CopiesCurrent ==
    \A i \in pool \ passed :
        (\A p \in Procs : ~(pc[p] = "inval" /\ id[p] = i)) =>
            /\ transports[i] \in {"none", entry[i].cfg}
            /\ \A q \in Requests :
                  pc[q] \in {"dial", "build"} /\ id[q] = i => snap[q].cfg = entry[i].cfg

\* Who does what, and what a call saves is disabled.
Roles ==
    /\ \A q \in Requests : pc[q] \notin Adding \cup Deleting
    /\ \A a \in Admins : pc[a] \in {"idle"} \cup Adding \cup Deleting \cup Saving
    /\ \A q \in Requests : pc[q] \in Saving => ~snap[q].enabled

\* With one administrator: what he saves is in the pool; an id out of the pool
\* that the set still names, left by a crash in the middle of a deletion, is
\* known to nothing else.
Sole ==
    Cardinality(Admins) = 1 =>
        /\ \A a \in Admins : pc[a] \in Saving => id[a] \in pool
        /\ \A i \in Ids \ pool :
              i \in eset /\ (\A a \in Admins : ~On(a, i)) =>
                  /\ ~row[i].present /\ i \notin touch
                  /\ \A q \in Requests : ~On(q, i)

\* The inductive invariant.
PoolInv == TypeOK /\ Unissued /\ AddsAlone /\ CopiesCurrent /\ Roles /\ Sole

-----------------------------------------------------------------------------
\* An idle goroutine's id is one.
LEMMA NoIdType == NoId \in Ids
BY IdsAssumption DEF NoId

\* The places of the goroutines.
LEMMA GoType ==
    ASSUME TypeOK, NEW p \in Procs, NEW i \in Ids, NEW e \in Entry,
           NEW where \in {"idle", "dial", "build", "use", "inval", "hset", "sset",
                          "count", "addhset", "addsset", "addmem", "delinval", "del",
                          "srem"},
           Go(p, where, i, e)
    PROVE  /\ pc' \in [Procs -> {"idle", "dial", "build", "use", "inval", "hset", "sset",
                                 "count", "addhset", "addsset", "addmem", "delinval",
                                 "del", "srem"}]
           /\ id' \in [Procs -> Ids]
           /\ snap' \in [Procs -> Entry]
BY DEF TypeOK, Go

\* Counting a failure, and flipping, give an entry; of the former an enabled one
\* is below the threshold, the latter brings an entry back with a clean count.
LEMMA FailureType ==
    ASSUME NEW e \in Entry
    PROVE  /\ CountFailure(e) \in Entry
           /\ CountFailure(e).enabled => CountFailure(e).fails < PROXY_FAIL_THRESHOLD
<1> DEFINE n == IF e.fails < PROXY_FAIL_THRESHOLD THEN e.fails + 1 ELSE e.fails
<1>1. n \in 0..PROXY_FAIL_THRESHOLD /\ e.enabled \in BOOLEAN /\ e.cfg \in Settings
  BY ThresholdAssumption DEF Entry
<1>2. CASE e.enabled = TRUE /\ n < PROXY_FAIL_THRESHOLD
  <2>1. CountFailure(e) = [e EXCEPT !.fails = n, !.enabled = TRUE]
    BY <1>2 DEF CountFailure
  <2>2. QED
    BY <1>1, <1>2, <2>1 DEF Entry
<1>3. CASE ~(e.enabled = TRUE /\ n < PROXY_FAIL_THRESHOLD)
  <2>1. CountFailure(e) = [e EXCEPT !.fails = n, !.enabled = FALSE]
    BY <1>1, <1>3 DEF CountFailure
  <2>2. QED
    BY <1>1, <2>1 DEF Entry
<1>4. QED
  BY <1>2, <1>3

\* A toggle gives an entry again, and one it enables starts without failures.
LEMMA FlippedType ==
    ASSUME NEW e \in Entry
    PROVE  /\ Flipped(e) \in Entry
           /\ Flipped(e).enabled => Flipped(e).fails = 0
<1>1. CASE e.enabled = TRUE
  <2>1. Flipped(e) = [e EXCEPT !.enabled = FALSE, !.fails = e.fails]
    BY <1>1 DEF Flipped
  <2>2. QED
    BY <2>1 DEF Entry
<1>2. CASE e.enabled = FALSE
  <2>1. Flipped(e) = [e EXCEPT !.enabled = TRUE, !.fails = 0]
    BY <1>2 DEF Flipped
  <2>2. 0 \in 0..PROXY_FAIL_THRESHOLD
    BY ThresholdAssumption
  <2>3. QED
    BY <2>1, <2>2 DEF Entry
<1>3. QED
  BY <1>1, <1>2 DEF Entry

\* Type correctness is inductive by itself.
LEMMA TypeStep == TypeOK /\ [Next]_vars => TypeOK'
<1> SUFFICES ASSUME TypeOK, [Next]_vars PROVE TypeOK'
  OBVIOUS
<1> USE ThresholdAssumption, NoIdType
<1>0. NoEntry \in Entry /\ NoRow \in Row
  BY DEF NoEntry, Entry, NoRow, Row, Settings
<1>1. ASSUME NEW q \in Requests, RequestStep(q) PROVE TypeOK'
  <2> q \in Procs
    BY DEF Procs
  <2>1. CASE Dial(q)
    BY <1>0, <2>1, GoType DEF Dial, TypeOK, memVars, redisVars
  <2>2. CASE Build(q)
    BY <1>0, <2>2, GoType DEF Build, TypeOK, redisVars, Entry
  <2>3. CASE MarkFailed(q)
    <3>1. CountFailure(entry[id[q]]) \in Entry
      BY FailureType DEF TypeOK
    <3>2. QED
      BY <2>3, <3>1, GoType DEF MarkFailed, TypeOK, redisVars
  <2>4. CASE MarkSuccess(q)
    <3>1. entry' \in [Ids -> Entry]
      BY <2>4 DEF MarkSuccess, TypeOK, Entry
    <3>2. QED
      BY <1>0, <2>4, <3>1, GoType DEF MarkSuccess, TypeOK, redisVars
  <2>5. CASE End(q)
    BY <1>0, <2>5, GoType DEF End, Done, TypeOK, memVars, redisVars
  <2>6. CASE SaveCount(q)
    <3>1. row' \in [Ids -> Row]
      BY <2>6, ZenonT(40) DEF SaveCount, TypeOK, Row, Entry
    <3>2. QED
      BY <1>0, <2>6, <3>1, GoType DEF SaveCount, Resume, Done, TypeOK, memVars
  <2>7. QED
    BY <1>1, <2>1, <2>2, <2>3, <2>4, <2>5, <2>6 DEF RequestStep
<1>2. ASSUME NEW q \in Requests, NEW i \in Ids, Pick(q, i) PROVE TypeOK'
  BY <1>2, GoType DEF Pick, TypeOK, memVars, redisVars, Procs
<1>3. ASSUME NEW a \in Admins, AdminStep(a) PROVE TypeOK'
  <2> a \in Procs
    BY DEF Procs
  <2>1. CASE AddHSet(a)
    <3>1. row' \in [Ids -> Row]
      BY <2>1 DEF AddHSet, HSet, TypeOK, Row, Entry
    <3>2. QED
      BY <2>1, <3>1, GoType DEF AddHSet, TypeOK, memVars
  <2>2. CASE AddSync(a)
    BY <2>2, GoType DEF AddSync, SyncEnabled, TypeOK, memVars
  <2>3. CASE AddToMemory(a)
    BY <1>0, <2>3, GoType DEF AddToMemory, Done, TypeOK, redisVars
  <2>4. CASE DeleteTransport(a)
    BY <1>0, <2>4, GoType DEF DeleteTransport, TypeOK, redisVars, Settings
  <2>5. CASE DeleteHash(a)
    BY <1>0, <2>5, GoType DEF DeleteHash, TypeOK, memVars
  <2>6. CASE DeleteFromSet(a)
    BY <1>0, <2>6, GoType DEF DeleteFromSet, Done, TypeOK, memVars
  <2>7. QED
    BY <1>3, <2>1, <2>2, <2>3, <2>4, <2>5, <2>6 DEF AdminStep
<1>4. ASSUME NEW a \in Admins, NEW i \in Ids,
             Add(a, i) \/ Update(a, i) \/ Toggle(a, i) \/ Delete(a, i)
      PROVE  TypeOK'
  <2> a \in Procs
    BY DEF Procs
  <2>0. \A c \in Configs, on \in BOOLEAN : [cfg |-> c, enabled |-> on, fails |-> 0] \in Entry
    BY DEF Entry, Settings
  <2>1. CASE Add(a, i)
    BY <2>0, <2>1, GoType DEF Add, TypeOK, memVars, redisVars
  <2>2. CASE Update(a, i)
    BY <2>0, <2>2, GoType DEF Update, TypeOK, redisVars
  <2>3. CASE Toggle(a, i)
    <3>1. Flipped(entry[i]) \in Entry
      BY FlippedType DEF TypeOK
    <3>2. QED
      BY <2>3, <3>1, GoType DEF Toggle, TypeOK, redisVars
  <2>4. CASE Delete(a, i)
    BY <1>0, <2>4, GoType DEF Delete, TypeOK, redisVars
  <2>5. QED
    BY <1>4, <2>1, <2>2, <2>3, <2>4
<1>5. ASSUME NEW p \in Procs, SaveStep(p) PROVE TypeOK'
  <2>1. CASE Invalidate(p)
    BY <2>1, GoType DEF Invalidate, TypeOK, redisVars, Settings
  <2>2. CASE SaveHSet(p)
    <3>1. row' \in [Ids -> Row]
      BY <2>2 DEF SaveHSet, HSet, TypeOK, Row, Entry
    <3>2. QED
      BY <2>2, <3>1, GoType DEF SaveHSet, TypeOK, memVars
  <2>3. CASE SaveSync(p)
    BY <1>0, <2>3, GoType DEF SaveSync, SyncEnabled, Resume, Done, TypeOK, memVars
  <2>4. QED
    BY <1>5, <2>1, <2>2, <2>3 DEF SaveStep
<1>6. ASSUME NEW i \in Ids, Touch(i) PROVE TypeOK'
  <2>1. row' \in [Ids -> Row]
    BY <1>6 DEF Touch, TypeOK, Row
  <2>2. QED
    BY <1>6, <2>1 DEF Touch, TypeOK, memVars
<1>7. CASE Restart
  BY <1>0, <1>7 DEF Restart, TypeOK, redisVars, Entry, Row, Settings, Procs
<1>8. CASE UNCHANGED vars
  BY <1>8 DEF vars, memVars, redisVars, TypeOK
<1>9. QED
  BY <1>1, <1>2, <1>3, <1>4, <1>5, <1>6, <1>7, <1>8 DEF Next

\* A single administrator is every administrator.
LEMMA OneAdmin ==
    ASSUME Cardinality(Admins) = 1
    PROVE  \A a, b \in Admins : a = b
BY FS_Singleton, ProcsAssumption

\* Every step keeps the invariant.
LEMMA StepInv == PoolInv /\ [Next]_vars => PoolInv'
<1> SUFFICES ASSUME PoolInv, [Next]_vars, TypeOK' PROVE PoolInv'
  BY TypeStep DEF PoolInv
<1> USE ThresholdAssumption, ConfigsAssumption, ProcsAssumption, NoIdType
    DEF PoolInv, TypeOK, Procs, On, Adding, Saving, Deleting, NoEntry, NoRow, memVars, redisVars
<1>1. ASSUME NEW q \in Requests, NEW i \in Ids, Pick(q, i)
      PROVE  PoolInv'
  <2> USE <1>1 DEF Pick, Go, Usable
  <2>1. Unissued' /\ AddsAlone'
    BY DEF Unissued, AddsAlone, Roles
  <2>2. CopiesCurrent'
    BY DEF CopiesCurrent, AddsAlone
  <2>3. Roles'
    BY DEF Roles
  <2>4. Sole'
    BY OneAdmin DEF Sole, Roles, Unissued, AddsAlone
  <2>5. QED
    BY <2>1, <2>2, <2>3, <2>4
<1>2. ASSUME NEW q \in Requests, Dial(q)
      PROVE  PoolInv'
  <2> USE <1>2 DEF Dial, Go
  <2>1. Unissued' /\ AddsAlone'
    BY DEF Unissued, AddsAlone, Roles
  <2>2. CopiesCurrent'
    BY DEF CopiesCurrent, AddsAlone
  <2>3. Roles'
    BY DEF Roles
  <2>4. Sole'
    BY OneAdmin DEF Sole, Roles, Unissued, AddsAlone
  <2>5. QED
    BY <2>1, <2>2, <2>3, <2>4
<1>3. ASSUME NEW q \in Requests, Build(q)
      PROVE  PoolInv'
  <2> USE <1>3 DEF Build, Go
  <2>1. Unissued' /\ AddsAlone'
    BY DEF Unissued, AddsAlone, Roles
  <2>2. CopiesCurrent'
    BY DEF CopiesCurrent, AddsAlone
  <2>3. Roles'
    BY DEF Roles
  <2>4. Sole'
    BY OneAdmin DEF Sole, Roles, Unissued, AddsAlone
  <2>5. QED
    BY <2>1, <2>2, <2>3, <2>4
<1>4. ASSUME NEW q \in Requests, MarkFailed(q)
      PROVE  PoolInv'
  <2> USE <1>4 DEF MarkFailed, Go, CountFailure
  <2>1. Unissued' /\ AddsAlone'
    BY DEF Unissued, AddsAlone, Roles
  <2>2. CopiesCurrent'
    BY DEF CopiesCurrent, AddsAlone
  <2>3. Roles'
    BY DEF Roles
  <2>4. Sole'
    BY OneAdmin DEF Sole, Roles, Unissued, AddsAlone
  <2>5. QED
    BY <2>1, <2>2, <2>3, <2>4
<1>5. ASSUME NEW q \in Requests, MarkSuccess(q)
      PROVE  PoolInv'
  <2> USE <1>5 DEF MarkSuccess, Go
  <2>1. Unissued' /\ AddsAlone'
    BY DEF Unissued, AddsAlone, Roles
  <2>2. CopiesCurrent'
    BY DEF CopiesCurrent, AddsAlone
  <2>3. Roles'
    BY DEF Roles
  <2>4. Sole'
    BY OneAdmin DEF Sole, Roles, Unissued, AddsAlone
  <2>5. QED
    BY <2>1, <2>2, <2>3, <2>4
<1>6. ASSUME NEW q \in Requests, End(q)
      PROVE  PoolInv'
  <2> USE <1>6 DEF End, Go, Done
  <2>1. Unissued' /\ AddsAlone'
    BY DEF Unissued, AddsAlone, Roles
  <2>2. CopiesCurrent'
    BY DEF CopiesCurrent, AddsAlone
  <2>3. Roles'
    BY DEF Roles
  <2>4. Sole'
    BY OneAdmin DEF Sole, Roles, Unissued, AddsAlone
  <2>5. QED
    BY <2>1, <2>2, <2>3, <2>4
<1>7. ASSUME NEW q \in Requests, SaveCount(q)
      PROVE  PoolInv'
  <2> USE <1>7 DEF SaveCount, Go, Resume, Done
  <2>1. Unissued' /\ AddsAlone'
    BY DEF Unissued, AddsAlone, Roles
  <2>2. CopiesCurrent'
    BY DEF CopiesCurrent, AddsAlone
  <2>3. Roles'
    BY DEF Roles
  <2>4. Sole'
    BY OneAdmin DEF Sole, Roles, Unissued, AddsAlone
  <2>5. QED
    BY <2>1, <2>2, <2>3, <2>4
<1>8. ASSUME NEW a \in Admins, NEW i \in Ids, Add(a, i)
      PROVE  PoolInv'
  <2> USE <1>8 DEF Add, Go
  <2>1. Unissued' /\ AddsAlone'
    BY DEF Unissued, AddsAlone, Roles
  <2>2. CopiesCurrent'
    BY DEF CopiesCurrent, AddsAlone
  <2>3. Roles'
    BY DEF Roles
  <2>4. Sole'
    BY OneAdmin DEF Sole, Roles, Unissued, AddsAlone
  <2>5. QED
    BY <2>1, <2>2, <2>3, <2>4
<1>9. ASSUME NEW a \in Admins, AddHSet(a)
      PROVE  PoolInv'
  <2> USE <1>9 DEF AddHSet, Go, HSet
  <2>1. Unissued' /\ AddsAlone'
    BY DEF Unissued, AddsAlone, Roles
  <2>2. CopiesCurrent'
    BY DEF CopiesCurrent, AddsAlone
  <2>3. Roles'
    BY DEF Roles
  <2>4. Sole'
    BY OneAdmin DEF Sole, Roles, Unissued, AddsAlone
  <2>5. QED
    BY <2>1, <2>2, <2>3, <2>4
<1>10. ASSUME NEW a \in Admins, AddSync(a)
      PROVE  PoolInv'
  <2> USE <1>10 DEF AddSync, Go, SyncEnabled
  <2>1. Unissued' /\ AddsAlone'
    BY DEF Unissued, AddsAlone, Roles
  <2>2. CopiesCurrent'
    BY DEF CopiesCurrent, AddsAlone
  <2>3. Roles'
    BY DEF Roles
  <2>4. Sole'
    BY OneAdmin DEF Sole, Roles, Unissued, AddsAlone
  <2>5. QED
    BY <2>1, <2>2, <2>3, <2>4
<1>11. ASSUME NEW a \in Admins, AddToMemory(a)
      PROVE  PoolInv'
  <2> USE <1>11 DEF AddToMemory, Go, Done
  <2>1. Unissued' /\ AddsAlone'
    BY DEF Unissued, AddsAlone, Roles
  <2>2. CopiesCurrent'
    BY DEF CopiesCurrent, AddsAlone
  <2>3. Roles'
    BY DEF Roles
  <2>4. Sole'
    BY OneAdmin DEF Sole, Roles, Unissued, AddsAlone
  <2>5. QED
    BY <2>1, <2>2, <2>3, <2>4
<1>12. ASSUME NEW a \in Admins, NEW i \in Ids, Update(a, i)
      PROVE  PoolInv'
  <2> USE <1>12 DEF Update, Go
  <2>1. Unissued' /\ AddsAlone'
    BY DEF Unissued, AddsAlone, Roles
  <2>2. CopiesCurrent'
    BY DEF CopiesCurrent, AddsAlone
  <2>3. Roles'
    BY DEF Roles
  <2>4. Sole'
    BY OneAdmin DEF Sole, Roles, Unissued, AddsAlone
  <2>5. QED
    BY <2>1, <2>2, <2>3, <2>4
<1>13. ASSUME NEW a \in Admins, NEW i \in Ids, Toggle(a, i)
      PROVE  PoolInv'
  <2> USE <1>13 DEF Toggle, Go, Flipped
  <2>1. Unissued' /\ AddsAlone'
    BY DEF Unissued, AddsAlone, Roles
  <2>2. CopiesCurrent'
    BY DEF CopiesCurrent, AddsAlone
  <2>3. Roles'
    BY DEF Roles
  <2>4. Sole'
    BY OneAdmin DEF Sole, Roles, Unissued, AddsAlone
  <2>5. QED
    BY <2>1, <2>2, <2>3, <2>4
<1>14. ASSUME NEW a \in Admins, NEW i \in Ids, Delete(a, i)
      PROVE  PoolInv'
  <2> USE <1>14 DEF Delete, Go
  <2>1. Unissued' /\ AddsAlone'
    BY DEF Unissued, AddsAlone, Roles
  <2>2. CopiesCurrent'
    BY DEF CopiesCurrent, AddsAlone
  <2>3. Roles'
    BY DEF Roles
  <2>4. Sole'
    BY OneAdmin DEF Sole, Roles, Unissued, AddsAlone
  <2>5. QED
    BY <2>1, <2>2, <2>3, <2>4
<1>15. ASSUME NEW a \in Admins, DeleteTransport(a)
      PROVE  PoolInv'
  <2> USE <1>15 DEF DeleteTransport, Go
  <2>1. Unissued' /\ AddsAlone'
    BY DEF Unissued, AddsAlone, Roles
  <2>2. CopiesCurrent'
    BY DEF CopiesCurrent, AddsAlone
  <2>3. Roles'
    BY DEF Roles
  <2>4. Sole'
    BY OneAdmin DEF Sole, Roles, Unissued, AddsAlone
  <2>5. QED
    BY <2>1, <2>2, <2>3, <2>4
<1>16. ASSUME NEW a \in Admins, DeleteHash(a)
      PROVE  PoolInv'
  <2> USE <1>16 DEF DeleteHash, Go
  <2>1. Unissued' /\ AddsAlone'
    BY DEF Unissued, AddsAlone, Roles
  <2>2. CopiesCurrent'
    BY DEF CopiesCurrent, AddsAlone
  <2>3. Roles'
    BY DEF Roles
  <2>4. Sole'
    BY OneAdmin DEF Sole, Roles, Unissued, AddsAlone
  <2>5. QED
    BY <2>1, <2>2, <2>3, <2>4
<1>17. ASSUME NEW a \in Admins, DeleteFromSet(a)
      PROVE  PoolInv'
  <2> USE <1>17 DEF DeleteFromSet, Go, Done
  <2>1. Unissued' /\ AddsAlone'
    BY DEF Unissued, AddsAlone, Roles
  <2>2. CopiesCurrent'
    BY DEF CopiesCurrent, AddsAlone
  <2>3. Roles'
    BY DEF Roles
  <2>4. Sole'
    BY OneAdmin DEF Sole, Roles, Unissued, AddsAlone
  <2>5. QED
    BY <2>1, <2>2, <2>3, <2>4
<1>18. ASSUME NEW p \in Procs, Invalidate(p)
      PROVE  PoolInv'
  <2> USE <1>18 DEF Invalidate, Go, OldCopy
  <2>1. Unissued' /\ AddsAlone'
    BY DEF Unissued, AddsAlone, Roles
  <2>2. CopiesCurrent'
    BY DEF CopiesCurrent, AddsAlone
  <2>3. Roles'
    BY DEF Roles
  <2>4. Sole'
    BY OneAdmin DEF Sole, Roles, Unissued, AddsAlone
  <2>5. QED
    BY <2>1, <2>2, <2>3, <2>4
<1>19. ASSUME NEW p \in Procs, SaveHSet(p)
      PROVE  PoolInv'
  <2> USE <1>19 DEF SaveHSet, Go, HSet
  <2>1. Unissued' /\ AddsAlone'
    BY DEF Unissued, AddsAlone, Roles
  <2>2. CopiesCurrent'
    BY DEF CopiesCurrent, AddsAlone
  <2>3. Roles'
    BY DEF Roles
  <2>4. Sole'
    BY OneAdmin DEF Sole, Roles, Unissued, AddsAlone
  <2>5. QED
    BY <2>1, <2>2, <2>3, <2>4
<1>20. ASSUME NEW p \in Procs, SaveSync(p)
      PROVE  PoolInv'
  <2> USE <1>20 DEF SaveSync, Go, SyncEnabled, Resume, Done
  <2>1. Unissued' /\ AddsAlone'
    BY DEF Unissued, AddsAlone, Roles
  <2>2. CopiesCurrent'
    BY DEF CopiesCurrent, AddsAlone
  <2>3. Roles'
    BY DEF Roles
  <2>4. Sole'
    BY OneAdmin DEF Sole, Roles, Unissued, AddsAlone
  <2>5. QED
    BY <2>1, <2>2, <2>3, <2>4
<1>21. ASSUME NEW i \in Ids, Touch(i)
       PROVE  PoolInv'
  BY <1>21 DEF Touch, Unissued, AddsAlone, CopiesCurrent, Roles, Sole
<1>22. CASE Restart
  BY <1>22 DEF Restart, Unissued, AddsAlone, CopiesCurrent, Roles, Sole
<1>23. CASE UNCHANGED vars
  BY <1>23 DEF vars, Unissued, AddsAlone, CopiesCurrent, Roles, Sole
<1>24. QED
  BY <1>1, <1>2, <1>3, <1>4, <1>5, <1>6, <1>7, <1>8, <1>9, <1>10, <1>11, <1>12, <1>13,
     <1>14, <1>15, <1>16, <1>17, <1>18, <1>19, <1>20, <1>21, <1>22, <1>23
     DEF Next, RequestStep, AdminStep, SaveStep

\* The first start satisfies the invariant.
LEMMA InitInv == Init => PoolInv
BY ThresholdAssumption, NoIdType DEF Init, PoolInv, TypeOK, Unissued, AddsAlone,
   CopiesCurrent, Roles, Sole, Adding, Saving, Deleting, On, Entry, NoEntry, Row, NoRow,
   Settings, Procs

\* The invariant of the pool holds in every reachable state.
THEOREM Invariance == Spec => []PoolInv
BY InitInv, StepInv, PTL DEF Spec

\* A cached transport has the settings of its entry, unless a call held a copy
\* of the entry from before its last update while the cache was cleared.
THEOREM TransportsAreCurrent == Spec => []TransportsCurrent
<1>1. PoolInv => TransportsCurrent
  BY DEF PoolInv, CopiesCurrent, TransportsCurrent
<1>2. QED
  BY Invariance, <1>1, PTL

\* With one administrator no late write of a call brings a deleted proxy back
\* enabled.
THEOREM DeletedStayOff == Spec => []GhostsStayOff
<1>1. PoolInv => GhostsStayOff
  BY DEF PoolInv, Sole, On, GhostsStayOff
<1>2. QED
  BY Invariance, <1>1, PTL

\* No interleaving of failures, successes, toggles and updates leaves an enabled
\* entry at the failure threshold; only a restart can find one.
THEOREM AutoDisableComplete == Spec => ThresholdDisables
<1>1. ASSUME PoolInv, [Next]_vars
      PROVE  [Restart \/ AtThreshold' \subseteq AtThreshold]_vars
  <2> USE ThresholdAssumption DEF AtThreshold
  <2>0. TypeOK /\ AddsAlone /\ TypeOK'
    BY <1>1, TypeStep DEF PoolInv
  <2>1. ASSUME NEW q \in Requests, MarkFailed(q) PROVE AtThreshold' \subseteq AtThreshold
    <3>1. entry[id[q]] \in Entry
      BY <2>0 DEF TypeOK, Procs
    <3>2. QED
      BY <2>0, <2>1, <3>1, FailureType DEF MarkFailed, TypeOK, Entry
  <2>2. ASSUME NEW q \in Requests, MarkSuccess(q) PROVE AtThreshold' \subseteq AtThreshold
    BY <2>0, <2>2 DEF MarkSuccess, TypeOK, Entry
  <2>3. ASSUME NEW a \in Admins, AddToMemory(a) PROVE AtThreshold' \subseteq AtThreshold
    BY <2>0, <2>3 DEF AddToMemory, TypeOK, Entry, AddsAlone, Adding, Procs
  <2>4. ASSUME NEW a \in Admins, NEW i \in Ids, Update(a, i)
        PROVE  AtThreshold' \subseteq AtThreshold
    BY <2>0, <2>4 DEF Update, TypeOK, Entry
  <2>5. ASSUME NEW a \in Admins, NEW i \in Ids, Toggle(a, i)
        PROVE  AtThreshold' \subseteq AtThreshold
    BY <2>0, <2>5, FlippedType DEF Toggle, TypeOK
  <2>6. ASSUME NEW a \in Admins, NEW i \in Ids, Delete(a, i)
        PROVE  AtThreshold' \subseteq AtThreshold
    BY <2>6 DEF Delete
  <2>7. CASE pool' = pool /\ entry' = entry
    BY <2>7
  <2>8. QED
    BY <1>1, <2>1, <2>2, <2>3, <2>4, <2>5, <2>6, <2>7
       DEF Next, RequestStep, Dial, Build, End, SaveCount, Pick, AdminStep, AddHSet,
           AddSync, DeleteTransport, DeleteHash, DeleteFromSet, Add, SaveStep, Invalidate,
           SaveHSet, SaveSync, Touch, memVars, vars
<1>2. QED
  BY Invariance, <1>1, PTL DEF Spec, ThresholdDisables
=============================================================================
