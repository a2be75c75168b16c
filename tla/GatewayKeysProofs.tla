------------------------- MODULE GatewayKeysProofs -------------------------
(***************************************************************************)
(* Proofs about GatewayKeys, for every set of keys, quotas, requests and   *)
(* administrators.                                                         *)
(***************************************************************************)
EXTENDS GatewayKeys, FiniteSetTheorems, TLAPS

\* p is in the middle of something on k.
On(p, k) == pc[p] # "idle" /\ key[p] = k

\* A charge or a save of k on its way to Redis.
Writes(p, k) == pc[p] \in {"hincr", "hset"} /\ key[p] = k

\* a has a new key k that is not saved yet.
Creates(a, k) == pc[a] \in {"dto", "hset"} /\ key[a] = k

Deleting(k) == \E a \in Admins : pc[a] = "del" /\ key[a] = k

\* A request is on its way to save k as disabled.
Disabling(k) == \E q \in Requests : Writes(q, k) /\ snap[q].disabled

\* Requests charged in memory and not in Redis.
Charged(k) == {q \in Requests : pc[q] = "hincr" /\ key[q] = k}

\* Requests that will still add to the usage in memory, or to the one in Redis
\* without a save that follows.
Owing(k) == {q \in Requests :
                key[q] = k /\ (pc[q] = "run" \/ (pc[q] = "hincr" /\ ~snap[q].disabled))}

Weight(k) == Cardinality(Owing(k))

\* n more charges leave the overrun of f's quota bounded.
Within(f, n) == f.quota > 0 => f.used + n <= f.quota - 1 + Cardinality(Requests)

-----------------------------------------------------------------------------
\* Who is where; what a request saves is disabled, what is deleted is removed.
Places ==
    /\ \A q \in Requests : /\ pc[q] \in {"idle", "run", "hincr", "bump", "hset"}
                           /\ pc[q] = "hset" => snap[q].disabled
    /\ \A a \in Admins : /\ pc[a] \in {"idle", "dto", "hset", "remove", "del"}
                         /\ pc[a] = "del" => key[a] \notin pool

\* A key that was not issued yet is known to nothing.
Unissued == \A k \in Keys \ issued : row[k] = NoRow /\ \A p \in Procs : ~On(p, k)

\* Until its first save a new key has one creator, no row and no request.
Creation ==
    \A k \in Keys \ edited, a \in Admins : Creates(a, k) =>
        /\ row[k] = NoRow
        /\ info[k].used = 0 /\ ~info[k].disabled
        /\ pc[a] = "hset" => snap[a] = info[k]
        /\ \A q \in Requests : ~On(q, k)
        /\ \A b \in Admins \ {a} : ~Creates(b, k)

\* What is on its way to Redis is of the key as it is, or as it was when it had
\* used less.
SnapsMatch ==
    \A k \in Keys \ edited :
        /\ \A p \in Procs : Writes(p, k) =>
              /\ snap[p].quota = info[k].quota /\ snap[p].role = info[k].role
              /\ snap[p].used <= info[k].used
        /\ k \in pool /\ Disabling(k) => info[k].disabled

RowsMatch ==
    \A k \in Keys \ edited : row[k].whole =>
        /\ row[k].info.quota = info[k].quota /\ row[k].info.role = info[k].role
        /\ k \in pool /\ row[k].info.disabled => info[k].disabled

\* Usage in Redis and what is on its way there add up to the usage in memory.
Counted ==
    ~crashed => \A k \in pool \ edited :
        info[k].disabled \/ Add(row[k].info.used, Cardinality(Charged(k))) = info[k].used

\* That a key is disabled reaches its row.
DisableReaches ==
    ~crashed => \A k \in pool \ edited :
        info[k].disabled /\ row[k].whole => row[k].info.disabled \/ Disabling(k)

\* The row of a key that was removed is disabled, about to be deleted, or was
\* written by a creator who came too late.
GhostRows ==
    ~crashed => \A k \in Keys \ (pool \cup edited) :
        row[k].whole => \/ row[k].info.disabled
                        \/ Deleting(k)
                        \/ row[k].info.used = 0 /\ \A q \in Requests : ~On(q, k)

\* OverrunBounded with what is still to come, in memory, on its way to Redis and,
\* once every save has arrived, in Redis.
Overruns ==
    ~crashed => \A k \in Keys \ edited :
        /\ k \in pool /\ info[k].disabled => Within(info[k], Weight(k))
        /\ \A q \in Requests : Writes(q, k) /\ snap[q].disabled => Within(snap[q], Weight(k))
        /\ row[k].whole /\ row[k].info.disabled /\ ~Disabling(k) =>
              Within(row[k].info, Weight(k))

\* Without changes by hand only its quota disables a key.
QuotaDisables ==
    edited = {} =>
        /\ \A k \in Keys : /\ info[k].disabled => info[k].quota > 0
                           /\ row[k].info.disabled => row[k].info.quota > 0
        /\ \A p \in Procs : snap[p].disabled => snap[p].quota > 0

\* One administrator who only creates and deletes: what he works on is in the
\* pool until he removes it, another admin key is in the pool, and all others
\* in the pool are in Redis.
Sole ==
    Single => \A a \in Admins :
        /\ pc[a] \in {"dto", "hset", "remove"} => key[a] \in pool
        /\ \E k \in pool : info[k].role = "admin" /\ ~On(a, k)
        /\ \A k \in pool : row[k].whole \/ Creates(a, k)

\* The inductive invariant.
KeysInv ==
    /\ TypeOK /\ Places /\ Unissued /\ Creation /\ SnapsMatch /\ RowsMatch
    /\ QuotaStops /\ Counted /\ DisableReaches /\ GhostRows /\ Overruns
    /\ QuotaDisables /\ Sole /\ GhostsAreDisabled

-----------------------------------------------------------------------------
\* What a key, a row and a boot key are at first.
LEMMA Blanks ==
    /\ NoKey \in Keys /\ BootKeys \subseteq Keys
    /\ Blank \in Info /\ Boot \in Info /\ NoRow \in Row
    /\ Boot.role = "admin" /\ ~Boot.disabled /\ Boot.quota = 0
    /\ NoRow.whole = FALSE /\ NoRow.info.used = 0 /\ ~NoRow.info.disabled /\ ~Blank.disabled
    /\ \A f \in Info : Whole(f) \in Row /\ Whole(f).whole = TRUE /\ Whole(f).info = f
<1>1. NoKey \in Keys
  BY KeysAssumption DEF NoKey
<1>2. Blank \in Info /\ Boot \in Info
  BY QuotasAssumption DEF Blank, Boot, NewInfo, Info
<1>3. QED
  BY <1>1, <1>2, KeysAssumption DEF NoRow, Row, Whole, Boot, Blank, NewInfo

\* The fields of a key.
LEMMA InfoType ==
    ASSUME NEW f \in Info
    PROVE  f.used \in 0..UsedCap /\ f.used \in Nat /\ f.disabled \in BOOLEAN /\ f.quota \in Nat
<1>1. Quotas \cup {0} \subseteq Nat
  BY QuotasAssumption
<1>2. f.used \in 0..UsedCap /\ f.quota \in Quotas \cup {0}
  BY DEF Info
<1>3. f.disabled \in BOOLEAN
  BY DEF Info
<1>4. f.quota \in Nat
  BY <1>1, <1>2
<1>5. f.used \in Nat
  BY <1>2, QuotasAssumption
<1>6. QED
  BY <1>2, <1>3, <1>4, <1>5

\* Adding to a usage.
LEMMA AddFacts ==
    ASSUME NEW u \in 0..UsedCap, NEW n \in Nat
    PROVE  /\ Add(u, n) \in 0..UsedCap /\ u <= Add(u, n) /\ Add(u, n) <= u + n
           /\ Add(u, 0) = u
           /\ Add(Add(u, 1), n) = Add(u, n + 1)
           /\ Add(Add(u, n), 1) = Add(u, n + 1)
BY QuotasAssumption DEF Add

\* IncrementTokens adds one and disables a key whose quota is used up.
LEMMA ChargeFacts ==
    ASSUME NEW f \in Info
    PROVE  /\ Charge(f, 1) \in Info
           /\ Charge(f, 1).role = f.role /\ Charge(f, 1).quota = f.quota
           /\ Charge(f, 1).used = Add(f.used, 1)
           /\ f.disabled => Charge(f, 1).disabled
           /\ Exhausted(Charge(f, 1)) => Charge(f, 1).disabled
           /\ Charge(f, 1).disabled => f.disabled \/ f.quota > 0
<1> DEFINE n == Add(f.used, 1)
<1>1. n \in 0..UsedCap /\ f.disabled \in BOOLEAN /\ f.quota \in Nat
  BY InfoType, AddFacts, 1 \in Nat
<1>2. CASE f.disabled = TRUE \/ (f.quota > 0 /\ n >= f.quota)
  <2>1. Charge(f, 1) = [f EXCEPT !.used = n, !.disabled = TRUE]
    BY <1>2 DEF Charge
  <2>2. QED
    BY <1>1, <1>2, <2>1 DEF Info
<1>3. CASE ~(f.disabled = TRUE \/ (f.quota > 0 /\ n >= f.quota))
  <2>1. Charge(f, 1) = [f EXCEPT !.used = n, !.disabled = FALSE]
    BY <1>1, <1>3 DEF Charge
  <2>2. QED
    BY <1>1, <1>3, <2>1 DEF Info, Exhausted
<1>4. QED
  BY <1>2, <1>3

\* The places of the goroutines.
LEMMA GoType ==
    ASSUME TypeOK, NEW p \in Procs, NEW k \in Keys, NEW f \in Info,
           NEW where \in {"idle", "run", "hincr", "bump", "dto", "hset", "remove", "del"},
           Go(p, where, k, f)
    PROVE  /\ pc' \in [Procs -> {"idle", "run", "hincr", "bump", "dto", "hset", "remove", "del"}]
           /\ key' \in [Procs -> Keys]
           /\ snap' \in [Procs -> Info]
BY DEF TypeOK, Go

\* HINCRBY changes the usage and nothing else.
LEMMA HIncrFacts ==
    ASSUME TypeOK, NEW k \in Keys, NEW n \in Nat, HIncrBy(k, n)
    PROVE  /\ row' \in [Keys -> Row]
           /\ \A x \in Keys \ {k} : row'[x] = row[x]
           /\ row'[k].whole = row[k].whole
           /\ row'[k].info.used = Add(row[k].info.used, n)
           /\ row'[k].info.quota = row[k].info.quota
           /\ row'[k].info.role = row[k].info.role
           /\ row'[k].info.disabled = row[k].info.disabled
<1>1. Add(row[k].info.used, n) \in 0..UsedCap
  BY AddFacts DEF TypeOK, Row, Info
<1> DEFINE r == [row[k] EXCEPT !.info.used = Add(row[k].info.used, n)]
<1>2. row[k] \in Row /\ row[k].info \in Info
  BY DEF TypeOK, Row
<1>3. row' = [row EXCEPT ![k] = r]
  BY DEF HIncrBy, TypeOK
<1>4. /\ r \in Row
      /\ r.whole = row[k].whole /\ r.info.used = Add(row[k].info.used, n)
      /\ r.info.quota = row[k].info.quota /\ r.info.role = row[k].info.role
      /\ r.info.disabled = row[k].info.disabled
  BY <1>1, <1>2 DEF Row, Info
<1>5. QED
  BY <1>3, <1>4 DEF TypeOK

\* Type correctness is inductive by itself.
LEMMA TypeStep == TypeOK /\ [Next]_vars => TypeOK'
<1> SUFFICES ASSUME TypeOK, [Next]_vars PROVE TypeOK'
  OBVIOUS
<1> USE Blanks DEF histVars
<1>1. ASSUME NEW q \in Requests, NEW k \in Keys, Admit(q, k) PROVE TypeOK'
  BY <1>1, GoType DEF Admit, TypeOK, Procs
<1>2. ASSUME NEW q \in Requests, RequestStep(q) PROVE TypeOK'
  <2> q \in Procs /\ key[q] \in Keys /\ 0 \in Nat /\ 1 \in Nat
    BY DEF Procs, TypeOK
  <2>1. CASE IncrementTokens(q)
    <3>1. Charge(info[key[q]], 1) \in Info
      BY ChargeFacts DEF TypeOK
    <3>2. QED
      BY <2>1, <3>1, GoType DEF IncrementTokens, TypeOK
  <2>2. CASE IncrementRequests(q)
    BY <2>2, GoType DEF IncrementRequests, TypeOK
  <2>3. CASE Unknown(q)
    BY <2>3, GoType DEF Unknown, Done, TypeOK
  <2>4. CASE IncrementGatewayKeyTokens(q)
    <3>1. row' \in [Keys -> Row]
      BY <2>4, HIncrFacts DEF IncrementGatewayKeyTokens
    <3>2. QED
      BY <2>4, <3>1, GoType DEF IncrementGatewayKeyTokens, Done, TypeOK
  <2>5. CASE IncrementGatewayKeyRequests(q)
    <3>1. row' \in [Keys -> Row]
      BY <2>5, HIncrFacts DEF IncrementGatewayKeyRequests
    <3>2. QED
      BY <2>5, <3>1, GoType DEF IncrementGatewayKeyRequests, Done, TypeOK
  <2>6. QED
    BY <1>2, <2>1, <2>2, <2>3, <2>4, <2>5 DEF RequestStep
<1>3. ASSUME NEW a \in Admins, NEW k \in Keys,
             CreateKey(a, k) \/ UpdateKey(a, k) \/ DeleteKey(a, k)
      PROVE  TypeOK'
  <2> a \in Procs
    BY DEF Procs
  <2>1. CASE CreateKey(a, k)
    <3>1. \A role \in {"inference", "admin"}, quota \in Quotas : NewInfo(role, quota) \in Info
      BY QuotasAssumption DEF NewInfo, Info
    <3>2. QED
      BY <2>1, <3>1, GoType DEF CreateKey, TypeOK
  <2>2. CASE UpdateKey(a, k)
    <3>1. PICK f \in Info : info' = [info EXCEPT ![k] = f] /\ Go(a, "hset", k, f)
      BY <2>2 DEF UpdateKey, TypeOK, Info
    <3>2. QED
      BY <2>2, <3>1, GoType DEF UpdateKey, TypeOK
  <2>3. CASE DeleteKey(a, k)
    BY <2>3, GoType DEF DeleteKey, TypeOK
  <2>4. QED
    BY <1>3, <2>1, <2>2, <2>3
<1>4. ASSUME NEW a \in Admins, AdminStep(a) PROVE TypeOK'
  <2> a \in Procs
    BY DEF Procs
  <2>1. CASE ReadDTO(a)
    BY <2>1, GoType DEF ReadDTO, TypeOK
  <2>2. CASE Remove(a)
    BY <2>2, GoType DEF Remove, TypeOK
  <2>3. CASE DeleteGatewayKey(a)
    BY <2>3, GoType DEF DeleteGatewayKey, Done, TypeOK
  <2>4. QED
    BY <1>4, <2>1, <2>2, <2>3 DEF AdminStep
<1>5. ASSUME NEW p \in Procs, Save(p) PROVE TypeOK'
  BY <1>5, GoType DEF Save, SaveGatewayKey, Done, TypeOK
<1>6. CASE Restart
  <2>1. \A k \in Keys : row[k].info \in Info
    BY DEF TypeOK, Row
  <2>2. QED
    BY <1>6, <2>1 DEF Restart, TypeOK
<1>7. CASE UNCHANGED vars
  BY <1>7 DEF vars, TypeOK
<1>8. QED
  BY <1>1, <1>2, <1>3, <1>4, <1>5, <1>6, <1>7 DEF Next

-----------------------------------------------------------------------------
\* Numbers of requests.
LEMMA Sizes ==
    /\ Cardinality(Requests) \in Nat
    /\ \A k : /\ IsFiniteSet(Owing(k)) /\ IsFiniteSet(Charged(k))
              /\ Weight(k) \in Nat /\ Weight(k) <= Cardinality(Requests)
              /\ Cardinality(Charged(k)) \in Nat
    /\ \A k : /\ IsFiniteSet(Owing(k)') /\ IsFiniteSet(Charged(k)')
              /\ Weight(k)' \in Nat /\ Weight(k)' <= Cardinality(Requests)
              /\ Cardinality(Charged(k)') \in Nat
<1>1. Cardinality(Requests) \in Nat
  BY ProcsAssumption, FS_CardinalityType
<1>2. \A S \in SUBSET Requests : /\ IsFiniteSet(S) /\ Cardinality(S) \in Nat
                                 /\ Cardinality(S) <= Cardinality(Requests)
  BY <1>1, ProcsAssumption, FS_Subset, FS_CardinalityType
<1>3. \A k : /\ Owing(k) \in SUBSET Requests /\ Charged(k) \in SUBSET Requests
             /\ Owing(k)' \in SUBSET Requests /\ Charged(k)' \in SUBSET Requests
  BY DEF Owing, Charged
<1>4. QED
  BY <1>1, <1>2, <1>3 DEF Weight

\* The weight of a key does not grow while no request comes to owe it ...
LEMMA OwingShrinks ==
    ASSUME NEW k, Owing(k)' \subseteq Owing(k)
    PROVE  Weight(k)' <= Weight(k)
BY Sizes, FS_Subset DEF Weight

\* ... and falls when one no longer does.
LEMMA OwingLess ==
    ASSUME NEW k, NEW q \in Owing(k), Owing(k)' \subseteq Owing(k) \ {q}
    PROVE  Weight(k)' <= Weight(k) - 1
<1>1. /\ IsFiniteSet(Owing(k) \ {q})
      /\ Cardinality(Owing(k) \ {q}) = Cardinality(Owing(k)) - 1
  BY Sizes, FS_RemoveElement
<1>2. Weight(k)' <= Cardinality(Owing(k) \ {q})
  BY <1>1, FS_Subset DEF Weight
<1>3. QED
  BY <1>1, <1>2 DEF Weight

\* Fewer charges to come are within the bound too, and so is one of them charged.
LEMMA WithinLess ==
    ASSUME NEW f \in Info, NEW m \in Nat, NEW n \in Nat, Within(f, n)
    PROVE  /\ m <= n => Within(f, m)
           /\ \A g \in Info : g.quota = f.quota /\ g.used <= f.used + 1 /\ m <= n - 1 =>
                 Within(g, m)
           /\ \A g \in Info : g.quota = f.quota /\ g.used <= f.used /\ m <= n => Within(g, m)
<1>1. /\ f.quota \in Nat /\ f.used \in Nat
      /\ \A g \in Info : g.quota \in Nat /\ g.used \in Nat
  BY InfoType
<1>2. QED
  BY <1>1, Sizes DEF Within

\* With Single there is no second administrator.
LEMMA SoleAdmin ==
    ASSUME Single, NEW a \in Admins, NEW b \in Admins
    PROVE  a = b
BY ProcsAssumption, FS_Singleton DEF Single

\* Every step preserves the invariant.
LEMMA KeysStep == KeysInv /\ [Next]_vars => KeysInv'
<1> SUFFICES ASSUME KeysInv, [Next]_vars, TypeOK' PROVE KeysInv'
  BY TypeStep DEF KeysInv
<1> USE DEF KeysInv
<1> Requests \subseteq Procs /\ Admins \subseteq Procs /\ Requests \cap Admins = {}
  BY ProcsAssumption DEF Procs
<1>t. /\ \A k \in Keys : info[k] \in Info /\ row[k].info \in Info
      /\ \A p \in Procs : snap[p] \in Info /\ key[p] \in Keys
      /\ pool \subseteq issued /\ issued \subseteq Keys
  BY DEF TypeOK, Row
<1>n. /\ \A k \in Keys : /\ info[k].used \in Nat /\ info[k].quota \in Nat
                         /\ row[k].info.used \in Nat /\ row[k].info.quota \in Nat
      /\ \A p \in Procs : snap[p].used \in Nat /\ snap[p].quota \in Nat
  BY <1>t, InfoType
<1>g. ASSUME NEW p \in Procs, NEW w, NEW k, NEW f, Go(p, w, k, f)
      PROVE  /\ pc'[p] = w /\ key'[p] = k /\ snap'[p] = f
             /\ \A x \in Procs \ {p} : pc'[x] = pc[x] /\ key'[x] = key[x] /\ snap'[x] = snap[x]
  BY <1>g DEF Go, TypeOK
<1>1. ASSUME NEW q \in Requests, NEW k \in Keys, NEW w \in {"idle", "run", "bump"},
             pc[q] \in {"idle", "run", "bump"}, Go(q, w, k, Blank),
             w = "run" => /\ k \in pool /\ ~info[k].disabled
                          /\ \A a \in Admins : Creates(a, k) => row[k].whole,
             w = "bump" => pc[q] = "run" /\ key[q] = k,
             UNCHANGED <<pool, info, row, issued, histVars>>
      PROVE  KeysInv'
  <2>0. /\ pc'[q] = w /\ key'[q] = k /\ snap'[q] = Blank
        /\ \A x \in Procs \ {q} : pc'[x] = pc[x] /\ key'[x] = key[x] /\ snap'[x] = snap[x]
        /\ UNCHANGED <<pool, info, row, issued, edited, crashed>>
        /\ w = "idle" \/ k \in issued
    BY <1>1, <1>g, <1>t DEF histVars, Unissued, On
  <2>1. Places'
    BY <2>0, <1>1 DEF Places
  <2>2. Unissued'
    BY <2>0, <1>1, <1>t DEF Unissued, On
  <2>3. Creation'
    BY <2>0, <1>1, Blanks DEF Creation, Creates, On
  <2>4. SnapsMatch'
    BY <2>0, <1>1 DEF SnapsMatch, Writes, Disabling
  <2>5. RowsMatch'
    BY <2>0 DEF RowsMatch
  <2>6. QuotaStops'
    BY <2>0 DEF QuotaStops, Exhausted
  <2>7. Counted'
    <3>1. \A x \in Keys : Charged(x)' = Charged(x)
      BY <1>1, <2>0 DEF Charged
    <3>2. QED
      BY <2>0, <3>1 DEF Counted, TypeOK
  <2>8. DisableReaches'
    BY <2>0, <1>1 DEF DisableReaches, Disabling, Writes
  <2>9. GhostRows'
    BY <2>0, <1>1 DEF GhostRows, Deleting, On
  <2>10. Overruns'
    <3>1. \A x \in Keys : Disabling(x)' <=> Disabling(x)
      BY <1>1, <2>0 DEF Disabling, Writes
    <3>2. ASSUME NEW x \in Keys, x # k \/ w # "run"
          PROVE  Weight(x)' <= Weight(x)
      <4>1. Owing(x)' \subseteq Owing(x)
        BY <1>1, <2>0, <3>2 DEF Owing
      <4>2. QED
        BY <4>1, OwingShrinks
    <3>3. w = "run" /\ k \notin edited =>
             /\ \A x \in Requests : ~(Writes(x, k) /\ snap[x].disabled)
             /\ ~(row[k].whole /\ row[k].info.disabled)
      BY <1>1 DEF SnapsMatch, RowsMatch, Disabling
    <3>4. \A x \in Keys : Weight(x) \in Nat /\ Weight(x)' \in Nat
      BY Sizes
    <3>5. ASSUME NEW x \in Requests, NEW y PROVE Writes(x, y)' <=> Writes(x, y)
      BY <1>1, <2>0 DEF Writes
    <3>6. ASSUME NEW x \in Keys \ edited, ~crashed
          PROVE  /\ x \in pool /\ info[x].disabled => Within(info[x], Weight(x)')
                 /\ \A p \in Requests : Writes(p, x) /\ snap[p].disabled =>
                       Within(snap[p], Weight(x)')
                 /\ row[x].whole /\ row[x].info.disabled /\ ~Disabling(x) =>
                       Within(row[x].info, Weight(x)')
      <4>1. CASE x = k /\ w = "run"
        BY <1>1, <3>3, <4>1
      <4>2. CASE x # k \/ w # "run"
        <5>1. /\ x \in pool /\ info[x].disabled => Within(info[x], Weight(x))
              /\ \A p \in Requests : Writes(p, x) /\ snap[p].disabled =>
                    Within(snap[p], Weight(x))
              /\ row[x].whole /\ row[x].info.disabled /\ ~Disabling(x) =>
                    Within(row[x].info, Weight(x))
          BY <3>6 DEF Overruns
        <5>2. \A f \in Info : Within(f, Weight(x)) => Within(f, Weight(x)')
          BY <3>2, <3>4, <4>2, WithinLess
        <5>3. QED
          BY <1>t, <5>1, <5>2
      <4>3. QED
        BY <4>1, <4>2
    <3>7. \A x \in Requests, y \in Keys : Writes(x, y) => snap'[x] = snap[x]
      BY <1>1, <2>0 DEF Writes
    <3>8. QED
      BY <2>0, <3>1, <3>5, <3>6, <3>7 DEF Overruns
  <2>11. QuotaDisables'
    BY <2>0, Blanks DEF QuotaDisables
  <2>12. Sole'
    BY <2>0, <1>1 DEF Sole, Single, On, Creates
  <2>13. GhostsAreDisabled'
    BY <2>0, <1>1 DEF GhostsAreDisabled, Single
  <2>14. QED
    BY <2>1, <2>2, <2>3, <2>4, <2>5, <2>6, <2>7, <2>8, <2>9, <2>10, <2>11, <2>12, <2>13
<1>2. ASSUME NEW q \in Requests, NEW k \in Keys, k = key[q], IncrementTokens(q)
      PROVE  KeysInv'
  <2>0. /\ pc[q] = "run" /\ pc'[q] = "hincr" /\ key[q] = k /\ key'[q] = k /\ k \in pool
        /\ snap'[q] = info'[k]
        /\ info'[k].role = info[k].role /\ info'[k].quota = info[k].quota
        /\ info'[k].used = Add(info[k].used, 1)
        /\ info[k].disabled => info'[k].disabled
        /\ Exhausted(info'[k]) => info'[k].disabled
        /\ info'[k].disabled => info[k].disabled \/ info[k].quota > 0
        /\ info[k].used <= info'[k].used /\ info'[k].used <= info[k].used + 1
        /\ \A x \in Keys \ {k} : info'[x] = info[x]
        /\ \A x \in Procs \ {q} : pc'[x] = pc[x] /\ key'[x] = key[x] /\ snap'[x] = snap[x]
        /\ UNCHANGED <<pool, row, issued, edited, crashed>>
    <3>1. info' = [info EXCEPT ![k] = Charge(info[k], 1)]
      BY <1>2 DEF IncrementTokens
    <3>2. info'[k] = Charge(info[k], 1) /\ \A x \in Keys \ {k} : info'[x] = info[x]
      BY <3>1 DEF TypeOK
    <3>3. Go(q, "hincr", k, info'[k])
      BY <1>2, <3>2 DEF IncrementTokens
    <3>4. info[k].used \in 0..UsedCap /\ 1 \in Nat
      BY <1>t, InfoType
    <3>5. info[k].used <= Add(info[k].used, 1) /\ Add(info[k].used, 1) <= info[k].used + 1
      BY <3>4, AddFacts
    <3>6. QED
      BY <1>2, <1>g, <1>t, <3>2, <3>3, <3>5, ChargeFacts DEF IncrementTokens, histVars
  <2>1. Places'
    BY <2>0 DEF Places
  <2>2. Unissued'
    BY <2>0 DEF Unissued, On
  <2>3. Creation'
    BY <2>0, <1>t DEF Creation, Creates, On
  <2>4. SnapsMatch'
    <3>1. ASSUME NEW x \in Keys \ edited, NEW p \in Procs, Writes(p, x)'
          PROVE  /\ snap'[p].quota = info'[x].quota /\ snap'[p].role = info'[x].role
                 /\ snap'[p].used <= info'[x].used
      <4>1. info'[k].used \in Nat
        BY <1>t, InfoType DEF TypeOK
      <4>2. CASE p = q
        BY <2>0, <3>1, <4>1, <4>2 DEF Writes
      <4>3. CASE p # q
        <5>1. Writes(p, x)
          BY <2>0, <3>1, <4>3 DEF Writes
        <5>2. /\ snap[p].quota = info[x].quota /\ snap[p].role = info[x].role
              /\ snap[p].used <= info[x].used
          BY <5>1 DEF SnapsMatch
        <5>3. QED
          BY <1>n, <2>0, <4>1, <4>3, <5>2
      <4>4. QED
        BY <4>2, <4>3
    <3>2. ASSUME NEW x \in Keys \ edited, x \in pool, Disabling(x)' PROVE info'[x].disabled
      BY <2>0, <3>2 DEF SnapsMatch, Disabling, Writes
    <3>3. QED
      BY <2>0, <3>1, <3>2 DEF SnapsMatch
  <2>5. RowsMatch'
    <3>1. \A x \in Keys : /\ info'[x].quota = info[x].quota /\ info'[x].role = info[x].role
                          /\ info[x].disabled => info'[x].disabled
      BY <2>0
    <3>2. QED
      BY <2>0, <3>1 DEF RowsMatch
  <2>6. QuotaStops'
    BY <1>t, <2>0 DEF QuotaStops
  <2>7. Counted'
    <3>1. ASSUME NEW x \in pool \ edited, ~crashed, ~info'[x].disabled
          PROVE  Add(row[x].info.used, Cardinality(Charged(x)')) = info'[x].used
      <4>1. CASE x = k
        <5>1. q \notin Charged(k) /\ Charged(k)' = Charged(k) \cup {q}
          BY <2>0 DEF Charged
        <5>2. Cardinality(Charged(k)') = Cardinality(Charged(k)) + 1
          BY <5>1, Sizes, FS_AddElement
        <5>3. Add(row[k].info.used, Cardinality(Charged(k))) = info[k].used
          BY <2>0, <3>1, <4>1 DEF Counted
        <5>4. row[k].info.used \in 0..UsedCap /\ Cardinality(Charged(k)) \in Nat
          BY <1>t, InfoType, Sizes
        <5>5. QED
          BY <2>0, <4>1, <5>2, <5>3, <5>4, AddFacts
      <4>2. CASE x # k
        <5>1. Charged(x)' = Charged(x)
          BY <2>0, <4>2 DEF Charged
        <5>2. QED
          BY <1>t, <2>0, <3>1, <4>2, <5>1 DEF Counted
      <4>3. QED
        BY <4>1, <4>2
    <3>2. QED
      BY <2>0, <3>1 DEF Counted
  <2>8. DisableReaches'
    <3>1. ASSUME NEW x \in Keys, Disabling(x) PROVE Disabling(x)'
      BY <2>0, <3>1 DEF Disabling, Writes
    <3>2. info'[k].disabled => Disabling(k)'
      BY <2>0 DEF Disabling, Writes
    <3>3. QED
      BY <1>t, <2>0, <3>1, <3>2 DEF DisableReaches
  <2>9. GhostRows'
    BY <2>0, <1>t DEF GhostRows, Deleting, On
  <2>10. Overruns'
    <3> SUFFICES ASSUME NEW x \in Keys \ edited, ~crashed
                 PROVE  /\ x \in pool /\ info'[x].disabled => Within(info'[x], Weight(x)')
                        /\ \A p \in Requests : Writes(p, x)' /\ snap'[p].disabled =>
                              Within(snap'[p], Weight(x)')
                        /\ row[x].whole /\ row[x].info.disabled /\ ~Disabling(x)' =>
                              Within(row[x].info, Weight(x)')
      BY <2>0 DEF Overruns
    <3>0. /\ Weight(x) \in Nat /\ Weight(x)' \in Nat /\ Weight(x) <= Cardinality(Requests)
          /\ Cardinality(Requests) \in Nat /\ info'[x] \in Info
      BY Sizes DEF TypeOK
    <3>1. Owing(x)' \subseteq Owing(x)
      BY <2>0 DEF Owing
    <3>2. Weight(x)' <= Weight(x)
      BY <3>1, OwingShrinks
    <3>3. Disabling(x) => Disabling(x)'
      BY <2>0 DEF Disabling, Writes
    <3>4. CASE x # k
      <4>1. \A p \in Requests : Writes(p, x)' <=> Writes(p, x) /\ p # q
        BY <2>0, <3>4 DEF Writes
      <4>2. Disabling(x)' => Disabling(x)
        BY <2>0, <3>4 DEF Disabling, Writes
      <4>3. QED
        BY <1>t, <2>0, <3>0, <3>2, <3>3, <3>4, <4>1, <4>2, WithinLess DEF Overruns
    <3>5. CASE x = k
      <4>1. ASSUME info'[k].disabled PROVE Within(info'[k], Weight(k)')
        <5>1. Weight(k)' <= Weight(k) - 1
          <6>1. q \in Owing(k) /\ Owing(k)' \subseteq Owing(k) \ {q}
            BY <2>0, <4>1 DEF Owing
          <6>2. QED
            BY <6>1, OwingLess
        <5>2. CASE info[k].disabled
          <6>1. Within(info[k], Weight(k))
            BY <2>0, <3>5, <5>2 DEF Overruns
          <6>2. QED
            BY <1>t, <2>0, <3>0, <3>5, <5>1, <6>1, WithinLess
        <5>3. CASE ~info[k].disabled
          <6>1. ~Exhausted(info[k])
            BY <2>0, <3>5, <5>3 DEF QuotaStops
          <6>2. info'[k].used \in Nat /\ info'[k].quota \in Nat
            BY <3>0, <3>5, InfoType
          <6>3. QED
            BY <1>n, <2>0, <3>0, <3>5, <5>1, <6>1, <6>2 DEF Exhausted, Within
        <5>4. QED
          BY <5>2, <5>3
      <4>2. ASSUME NEW p \in Requests, Writes(p, k)', snap'[p].disabled
            PROVE  Within(snap'[p], Weight(k)')
        <5>1. CASE p = q
          BY <2>0, <4>1, <4>2, <5>1
        <5>2. CASE p # q
          <6>1. Writes(p, k) /\ snap'[p] = snap[p]
            BY <2>0, <4>2, <5>2 DEF Writes
          <6>2. QED
            BY <1>t, <3>0, <3>2, <3>5, <4>2, <6>1, WithinLess DEF Overruns
        <5>3. QED
          BY <5>1, <5>2
      <4>3. row[k].whole /\ row[k].info.disabled => Disabling(k)'
        BY <2>0, <3>5 DEF RowsMatch, Disabling, Writes
      <4>4. QED
        BY <2>0, <3>5, <4>1, <4>2, <4>3
    <3>6. QED
      BY <3>4, <3>5
  <2>11. QuotaDisables'
    <3>1. \A x \in Keys \ {k} : info'[x] = info[x]
      BY <2>0
    <3>2. info'[k].disabled => info'[k].quota > 0 \/ edited # {}
      BY <2>0 DEF QuotaDisables
    <3>3. QED
      BY <2>0, <3>1, <3>2 DEF QuotaDisables
  <2>12. Sole'
    <3>1. \A x \in Keys : info'[x].role = info[x].role
      BY <2>0
    <3>2. QED
      BY <1>t, <2>0, <3>1 DEF Sole, Single, On, Creates
  <2>13. GhostsAreDisabled'
    BY <2>0 DEF GhostsAreDisabled, Single
  <2>14. QED
    BY <2>1, <2>2, <2>3, <2>4, <2>5, <2>6, <2>7, <2>8, <2>9, <2>10, <2>11, <2>12, <2>13
<1>3. ASSUME NEW q \in Requests, NEW k \in Keys, k = key[q], IncrementGatewayKeyTokens(q)
      PROVE  KeysInv'
  <2>0. /\ pc[q] = "hincr" /\ key[q] = k
        /\ snap[q].disabled => pc'[q] = "hset" /\ key'[q] = k /\ snap'[q] = snap[q]
        /\ ~snap[q].disabled => pc'[q] = "idle" /\ snap'[q] = Blank
        /\ row'[k].whole = row[k].whole /\ row'[k].info.used = Add(row[k].info.used, 1)
        /\ row'[k].info.quota = row[k].info.quota /\ row'[k].info.role = row[k].info.role
        /\ row'[k].info.disabled = row[k].info.disabled
        /\ row'[k].info.used <= row[k].info.used + 1
        /\ \A x \in Keys \ {k} : row'[x] = row[x]
        /\ \A x \in Procs \ {q} : pc'[x] = pc[x] /\ key'[x] = key[x] /\ snap'[x] = snap[x]
        /\ k \in issued
        /\ UNCHANGED <<pool, info, issued, edited, crashed>>
    <3>1. HIncrBy(k, 1) /\ 1 \in Nat /\ row[k].info.used \in 0..UsedCap
      BY <1>3, <1>t, InfoType DEF IncrementGatewayKeyTokens
    <3>2. Add(row[k].info.used, 1) <= row[k].info.used + 1
      BY <3>1, AddFacts
    <3>3. k \in issued
      BY <1>3 DEF IncrementGatewayKeyTokens, Unissued, On
    <3>4. QED
      BY <1>3, <1>g, <3>1, <3>2, <3>3, HIncrFacts DEF IncrementGatewayKeyTokens, Done, histVars
  <2>1. Places'
    BY <2>0 DEF Places
  <2>2. Unissued'
    BY <2>0, <1>t DEF Unissued, On
  <2>3. Creation'
    BY <2>0 DEF Creation, Creates, On
  <2>4. SnapsMatch'
    BY <2>0 DEF SnapsMatch, Writes, Disabling
  <2>5. RowsMatch'
    BY <2>0, <1>t DEF RowsMatch
  <2>6. QuotaStops'
    BY <2>0 DEF QuotaStops, Exhausted
  <2>7. Counted'
    <3>1. ASSUME NEW x \in pool \ edited, ~crashed, ~info[x].disabled
          PROVE  Add(row'[x].info.used, Cardinality(Charged(x)')) = info[x].used
      <4>1. CASE x = k
        <5>1. q \in Charged(k) /\ Charged(k)' = Charged(k) \ {q}
          BY <2>0 DEF Charged
        <5>2. Cardinality(Charged(k)') = Cardinality(Charged(k)) - 1
          BY <5>1, Sizes, FS_RemoveElement
        <5>3. Add(row[k].info.used, Cardinality(Charged(k))) = info[k].used
          BY <3>1, <4>1 DEF Counted
        <5>4. /\ row[k].info.used \in 0..UsedCap /\ Cardinality(Charged(k)) \in Nat
              /\ Cardinality(Charged(k)') \in Nat
          BY <1>t, InfoType, Sizes
        <5>5. Cardinality(Charged(k)) = Cardinality(Charged(k)') + 1
          BY <5>2, <5>4
        <5>6. QED
          BY <2>0, <4>1, <5>3, <5>4, <5>5, AddFacts
      <4>2. CASE x # k
        <5>1. Charged(x)' = Charged(x)
          BY <2>0, <4>2 DEF Charged
        <5>2. QED
          BY <1>t, <2>0, <3>1, <4>2, <5>1 DEF Counted
      <4>3. QED
        BY <4>1, <4>2
    <3>2. QED
      BY <2>0, <3>1 DEF Counted
  <2>8. DisableReaches'
    <3>1. ASSUME NEW x \in Keys, Disabling(x) PROVE Disabling(x)'
      BY <2>0, <3>1 DEF Disabling, Writes
    <3>3. QED
      BY <1>t, <2>0, <3>1 DEF DisableReaches
  <2>9. GhostRows'
    BY <2>0 DEF GhostRows, Deleting, On
  <2>10. Overruns'
    <3> SUFFICES ASSUME NEW x \in Keys \ edited, ~crashed
                 PROVE  /\ x \in pool /\ info[x].disabled => Within(info[x], Weight(x)')
                        /\ \A p \in Requests : Writes(p, x)' /\ snap'[p].disabled =>
                              Within(snap'[p], Weight(x)')
                        /\ row'[x].whole /\ row'[x].info.disabled /\ ~Disabling(x)' =>
                              Within(row'[x].info, Weight(x)')
      BY <2>0 DEF Overruns
    <3>0. /\ Weight(x) \in Nat /\ Weight(x)' \in Nat /\ info[x] \in Info /\ row[x].info \in Info
          /\ row'[x].info \in Info
      BY <1>t, Sizes DEF TypeOK, Row
    <3>1. Owing(x)' \subseteq Owing(x)
      BY <2>0 DEF Owing
    <3>2. Weight(x)' <= Weight(x)
      BY <3>1, OwingShrinks
    <3>3. Disabling(x) => Disabling(x)'
      BY <2>0 DEF Disabling, Writes
    <3>4. \A f \in Info : Within(f, Weight(x)) => Within(f, Weight(x)')
      BY <3>0, <3>2, WithinLess
    <3>5. x \in pool /\ info[x].disabled => Within(info[x], Weight(x)')
      BY <3>0, <3>4 DEF Overruns
    <3>6. ASSUME NEW p \in Requests, Writes(p, x)', snap'[p].disabled
          PROVE  Within(snap'[p], Weight(x)')
      <4>1. Writes(p, x) /\ snap'[p] = snap[p]
        BY <2>0, <3>6 DEF Writes
      <4>2. QED
        BY <1>t, <3>4, <3>6, <4>1 DEF Overruns
    <3>7. ASSUME row'[x].whole, row'[x].info.disabled, ~Disabling(x)'
          PROVE  Within(row'[x].info, Weight(x)')
      <4>1. Within(row[x].info, Weight(x))
        BY <2>0, <3>3, <3>7 DEF Overruns
      <4>2. CASE x # k
        BY <2>0, <3>0, <3>4, <4>1, <4>2
      <4>3. CASE x = k
        <5>1. q \in Owing(k) /\ Owing(k)' \subseteq Owing(k) \ {q}
          BY <2>0, <3>7, <4>3 DEF Owing, Disabling, Writes
        <5>2. Weight(k)' <= Weight(k) - 1
          BY <5>1, OwingLess
        <5>3. QED
          BY <2>0, <3>0, <4>1, <4>3, <5>2, WithinLess
      <4>4. QED
        BY <4>2, <4>3
    <3>8. QED
      BY <3>5, <3>6, <3>7
  <2>11. QuotaDisables'
    BY <2>0, Blanks DEF QuotaDisables
  <2>12. Sole'
    <3>1. \A x \in Keys : row'[x].whole = row[x].whole
      BY <2>0
    <3>2. QED
      BY <1>t, <2>0, <3>1 DEF Sole, Single, On, Creates
  <2>13. GhostsAreDisabled'
    BY <2>0 DEF GhostsAreDisabled, Single
  <2>14. QED
    BY <2>1, <2>2, <2>3, <2>4, <2>5, <2>6, <2>7, <2>8, <2>9, <2>10, <2>11, <2>12, <2>13
<1>4. ASSUME NEW q \in Requests, NEW k \in Keys, k = key[q], Save(q)
      PROVE  KeysInv'
  <2>0. /\ pc[q] = "hset" /\ key[q] = k /\ pc'[q] = "idle" /\ snap[q].disabled /\ snap'[q] = Blank
        /\ row'[k].whole /\ row'[k].info = snap[q]
        /\ \A x \in Keys \ {k} : row'[x] = row[x]
        /\ \A x \in Procs \ {q} : pc'[x] = pc[x] /\ key'[x] = key[x] /\ snap'[x] = snap[x]
        /\ Writes(q, k) /\ Disabling(k) /\ k \in issued
        /\ UNCHANGED <<pool, info, issued, edited, crashed>>
    <3>1. row' = [row EXCEPT ![k] = Whole(snap[q])]
      BY <1>4 DEF Save, SaveGatewayKey
    <3>2. /\ row'[k].whole /\ row'[k].info = snap[q]
          /\ \A x \in Keys \ {k} : row'[x] = row[x]
      BY <1>t, <3>1, Blanks DEF TypeOK
    <3>3. pc[q] = "hset" /\ snap[q].disabled /\ Writes(q, k) /\ Disabling(k) /\ k \in issued
      BY <1>4 DEF Save, Places, Writes, Disabling, Unissued, On
    <3>4. QED
      BY <1>4, <1>g, <3>2, <3>3 DEF Save, Done, histVars
  <2>1. Places'
    BY <2>0 DEF Places
  <2>2. Unissued'
    BY <2>0, <1>t DEF Unissued, On
  <2>3. Creation'
    BY <2>0, <1>t DEF Creation, Creates, On
  <2>4. SnapsMatch'
    BY <2>0 DEF SnapsMatch, Writes, Disabling
  <2>5. RowsMatch'
    BY <2>0, <1>t DEF RowsMatch, SnapsMatch
  <2>6. QuotaStops'
    BY <2>0 DEF QuotaStops, Exhausted
  <2>7. Counted'
    <3>1. \A x \in Keys : Charged(x)' = Charged(x)
      BY <2>0 DEF Charged
    <3>2. k \in pool \ edited => info[k].disabled
      BY <2>0 DEF SnapsMatch
    <3>3. QED
      BY <1>t, <2>0, <3>1, <3>2 DEF Counted
  <2>8. DisableReaches'
    <3>1. ASSUME NEW x \in Keys \ {k} PROVE Disabling(x)' <=> Disabling(x)
      BY <2>0 DEF Disabling, Writes
    <3>2. QED
      BY <1>t, <2>0, <3>1 DEF DisableReaches
  <2>9. GhostRows'
    BY <2>0, <1>t DEF GhostRows, Deleting, On
  <2>10. Overruns'
    <3> SUFFICES ASSUME NEW x \in Keys \ edited, ~crashed
                 PROVE  /\ x \in pool /\ info[x].disabled => Within(info[x], Weight(x)')
                        /\ \A p \in Requests : Writes(p, x)' /\ snap'[p].disabled =>
                              Within(snap'[p], Weight(x)')
                        /\ row'[x].whole /\ row'[x].info.disabled /\ ~Disabling(x)' =>
                              Within(row'[x].info, Weight(x)')
      BY <2>0 DEF Overruns
    <3>1. Owing(x)' = Owing(x)
      BY <2>0 DEF Owing
    <3>2. Weight(x)' = Weight(x)
      BY <3>1 DEF Weight
    <3>3. ASSUME NEW p \in Requests, Writes(p, x)' PROVE Writes(p, x) /\ snap'[p] = snap[p]
      BY <2>0, <3>3 DEF Writes
    <3>4. x # k => (Disabling(x)' <=> Disabling(x))
      BY <2>0 DEF Disabling, Writes
    <3>5. QED
      BY <2>0, <3>2, <3>3, <3>4 DEF Overruns
  <2>11. QuotaDisables'
    BY <2>0, <1>t, Blanks DEF QuotaDisables
  <2>12. Sole'
    BY <2>0, <1>t DEF Sole, Single, On, Creates
  <2>13. GhostsAreDisabled'
    BY <2>0 DEF GhostsAreDisabled, Single
  <2>14. QED
    BY <2>1, <2>2, <2>3, <2>4, <2>5, <2>6, <2>7, <2>8, <2>9, <2>10, <2>11, <2>12, <2>13
<1>5. ASSUME NEW a \in Admins, NEW k \in Keys, k = key[a], Save(a)
      PROVE  KeysInv'
  <2>0. /\ pc[a] = "hset" /\ key[a] = k /\ pc'[a] = "idle" /\ snap'[a] = Blank
        /\ row'[k].whole /\ row'[k].info = snap[a]
        /\ \A x \in Keys \ {k} : row'[x] = row[x]
        /\ \A x \in Procs \ {a} : pc'[x] = pc[x] /\ key'[x] = key[x] /\ snap'[x] = snap[x]
        /\ Creates(a, k) /\ k \in issued
        /\ UNCHANGED <<pool, info, issued, edited, crashed>>
        /\ k \notin edited => /\ info[k].used = 0 /\ ~info[k].disabled /\ snap[a] = info[k]
                             /\ \A q \in Requests : ~On(q, k)
    <3>1. row' = [row EXCEPT ![k] = Whole(snap[a])]
      BY <1>5 DEF Save, SaveGatewayKey
    <3>2. /\ row'[k].whole /\ row'[k].info = snap[a]
          /\ \A x \in Keys \ {k} : row'[x] = row[x]
      BY <1>t, <3>1, Blanks DEF TypeOK
    <3>3. pc[a] = "hset" /\ Creates(a, k) /\ k \in issued
      BY <1>5 DEF Save, Creates, Unissued, On
    <3>4. QED
      BY <1>5, <1>g, <3>2, <3>3 DEF Save, Done, histVars, Creation
  <2>1. Places'
    BY <2>0 DEF Places
  <2>2. Unissued'
    BY <2>0, <1>t DEF Unissued, On
  <2>3. Creation'
    BY <2>0, <1>t DEF Creation, Creates, On
  <2>4. SnapsMatch'
    <3>1. ASSUME NEW x, NEW p \in Procs, Writes(p, x)' PROVE Writes(p, x) /\ snap'[p] = snap[p]
      BY <2>0, <3>1 DEF Writes
    <3>2. ASSUME NEW x, Disabling(x)' PROVE Disabling(x)
      BY <2>0, <3>2 DEF Disabling, Writes
    <3>3. QED
      BY <2>0, <3>1, <3>2 DEF SnapsMatch
  <2>5. RowsMatch'
    BY <2>0, <1>t DEF RowsMatch
  <2>6. QuotaStops'
    BY <2>0 DEF QuotaStops, Exhausted
  <2>7. Counted'
    <3>1. \A x \in Keys : Charged(x)' = Charged(x)
      BY <2>0 DEF Charged
    <3>2. k \notin edited => Add(row'[k].info.used, Cardinality(Charged(k))) = info[k].used
      <4>1. k \notin edited => Charged(k) = {}
        BY <2>0 DEF Charged, On
      <4>2. 0 \in 0..UsedCap /\ 0 \in Nat
        BY QuotasAssumption
      <4>3. Cardinality({}) = 0 /\ Add(0, 0) = 0
        BY <4>2, AddFacts, FS_EmptySet
      <4>4. QED
        BY <2>0, <4>1, <4>3
    <3>3. QED
      BY <1>t, <2>0, <3>1, <3>2 DEF Counted
  <2>8. DisableReaches'
    <3>1. ASSUME NEW x \in Keys PROVE Disabling(x)' <=> Disabling(x)
      BY <2>0 DEF Disabling, Writes
    <3>2. QED
      BY <1>t, <2>0, <3>1 DEF DisableReaches
  <2>9. GhostRows'
    BY <2>0, <1>t DEF GhostRows, Deleting, On
  <2>10. Overruns'
    <3>1. \A x : Owing(x)' = Owing(x)
      BY <2>0 DEF Owing
    <3>2. \A x : Weight(x)' = Weight(x)
      BY <3>1 DEF Weight
    <3>3. \A p \in Requests, x \in Keys : Writes(p, x)' <=> Writes(p, x)
      BY <2>0 DEF Writes
    <3>4. \A x \in Keys : Disabling(x)' <=> Disabling(x)
      BY <2>0 DEF Disabling, Writes
    <3>5. \A p \in Requests : snap'[p] = snap[p]
      BY <2>0
    <3>6. k \notin edited => ~row'[k].info.disabled
      BY <2>0
    <3>7. QED
      BY <2>0, <3>2, <3>3, <3>4, <3>5, <3>6 DEF Overruns
  <2>11. QuotaDisables'
    BY <2>0, <1>t, Blanks DEF QuotaDisables
  <2>12. Sole'
    BY <2>0, <1>t DEF Sole, Single, On, Creates
  <2>13. GhostsAreDisabled'
    BY <2>0, <1>t DEF GhostsAreDisabled, Single, Sole
  <2>14. QED
    BY <2>1, <2>2, <2>3, <2>4, <2>5, <2>6, <2>7, <2>8, <2>9, <2>10, <2>11, <2>12, <2>13
<1>6. ASSUME NEW a \in Admins, NEW k \in Keys, CreateKey(a, k)
      PROVE  KeysInv'
  <2>0. /\ pc[a] = "idle" /\ pc'[a] = "dto" /\ key'[a] = k /\ snap'[a] = Blank
        /\ k \notin issued /\ pool' = pool \cup {k} /\ issued' = issued \cup {k}
        /\ info'[k].used = 0 /\ ~info'[k].disabled
        /\ \A x \in Keys \ {k} : info'[x] = info[x]
        /\ \A x \in Procs \ {a} : pc'[x] = pc[x] /\ key'[x] = key[x] /\ snap'[x] = snap[x]
        /\ row[k] = NoRow /\ \A p \in Procs : ~On(p, k)
        /\ UNCHANGED <<row, edited, crashed>>
    <3>1. PICK f : f.used = 0 /\ ~f.disabled /\ info' = [info EXCEPT ![k] = f]
      BY <1>6 DEF CreateKey, NewInfo
    <3>2. QED
      BY <1>6, <1>g, <3>1 DEF CreateKey, MayStart, histVars, TypeOK, Unissued
  <2>1. Places'
    BY <2>0 DEF Places, On
  <2>2. Unissued'
    BY <2>0, <1>t DEF Unissued, On
  <2>3. Creation'
    BY <2>0, <1>t DEF Creation, Creates, On
  <2>4. SnapsMatch'
    <3>1. ASSUME NEW x, NEW p \in Procs, Writes(p, x)'
          PROVE  Writes(p, x) /\ snap'[p] = snap[p] /\ x # k
      BY <2>0, <3>1 DEF Writes, On
    <3>2. ASSUME NEW x, Disabling(x)' PROVE Disabling(x) /\ x # k
      BY <2>0, <3>2 DEF Disabling, Writes, On
    <3>3. QED
      BY <1>t, <2>0, <3>1, <3>2 DEF SnapsMatch
  <2>5. RowsMatch'
    BY <2>0, <1>t, Blanks DEF RowsMatch
  <2>6. QuotaStops'
    <3>1. info'[k].quota \in Nat
      BY InfoType DEF TypeOK
    <3>2. ~Exhausted(info'[k])
      BY <2>0, <3>1 DEF Exhausted
    <3>3. QED
      BY <1>t, <2>0, <3>2 DEF QuotaStops
  <2>7. Counted'
    <3>1. \A x \in Keys : Charged(x)' = Charged(x)
      BY <2>0 DEF Charged
    <3>2. Add(row[k].info.used, Cardinality(Charged(k))) = info'[k].used
      <4>1. Charged(k) = {}
        BY <2>0 DEF Charged, On
      <4>2. 0 \in 0..UsedCap /\ 0 \in Nat
        BY QuotasAssumption
      <4>3. Cardinality({}) = 0 /\ Add(0, 0) = 0
        BY <4>2, AddFacts, FS_EmptySet
      <4>4. QED
        BY <2>0, <4>1, <4>3, Blanks
    <3>3. QED
      BY <1>t, <2>0, <3>1, <3>2 DEF Counted
  <2>8. DisableReaches'
    <3>1. ASSUME NEW x \in Keys PROVE Disabling(x)' <=> Disabling(x)
      BY <2>0 DEF Disabling, Writes
    <3>2. QED
      BY <1>t, <2>0, <3>1, Blanks DEF DisableReaches
  <2>9. GhostRows'
    BY <2>0, <1>t DEF GhostRows, Deleting, On
  <2>10. Overruns'
    <3>1. \A x : Owing(x)' = Owing(x)
      BY <2>0 DEF Owing
    <3>2. \A x : Weight(x)' = Weight(x)
      BY <3>1 DEF Weight
    <3>3. \A p \in Requests, x \in Keys : Writes(p, x)' <=> Writes(p, x)
      BY <2>0 DEF Writes
    <3>4. \A x \in Keys : Disabling(x)' <=> Disabling(x)
      BY <2>0 DEF Disabling, Writes
    <3>5. \A p \in Requests : snap'[p] = snap[p]
      BY <2>0
    <3>6. QED
      BY <1>t, <2>0, <3>2, <3>3, <3>4, <3>5, Blanks DEF Overruns
  <2>11. QuotaDisables'
    BY <2>0, <1>t, Blanks DEF QuotaDisables
  <2>12. Sole'
    <3>1. ASSUME Single, NEW b \in Admins
          PROVE  /\ pc'[b] \in {"dto", "hset", "remove"} => key'[b] \in pool'
                 /\ \E x \in pool' : info'[x].role = "admin" /\ ~On(b, x)'
                 /\ \A x \in pool' : row'[x].whole \/ Creates(b, x)'
      <4>1. b = a
        BY <3>1, SoleAdmin
      <4>2. PICK x \in pool : info[x].role = "admin"
        BY <3>1 DEF Sole
      <4>3. \A y \in pool : row[y].whole
        BY <2>0, <3>1 DEF Sole, Creates
      <4>4. QED
        BY <1>t, <2>0, <4>1, <4>2, <4>3 DEF On, Creates
    <3>2. Single' => Single
      BY <2>0 DEF Single
    <3>3. QED
      BY <3>1, <3>2 DEF Sole
  <2>13. GhostsAreDisabled'
    BY <2>0, <1>t DEF GhostsAreDisabled, Single
  <2>14. QED
    BY <2>1, <2>2, <2>3, <2>4, <2>5, <2>6, <2>7, <2>8, <2>9, <2>10, <2>11, <2>12, <2>13
<1>7. ASSUME NEW a \in Admins, NEW k \in Keys, k = key[a], ReadDTO(a)
      PROVE  KeysInv'
  <2>0. /\ pc[a] = "dto" /\ pc'[a] = "hset" /\ key[a] = k /\ key'[a] = k /\ snap'[a] = info[k]
        /\ \A x \in Procs \ {a} : pc'[x] = pc[x] /\ key'[x] = key[x] /\ snap'[x] = snap[x]
        /\ UNCHANGED <<pool, info, row, issued, edited, crashed>>
    BY <1>7, <1>g DEF ReadDTO, histVars
  <2>1. Places'
    BY <2>0 DEF Places
  <2>2. Unissued'
    BY <2>0 DEF Unissued, On
  <2>3. Creation'
    BY <2>0 DEF Creation, Creates, On
  <2>4. SnapsMatch'
    <3>1. ASSUME NEW x, NEW p \in Procs, Writes(p, x)', p # a
          PROVE  Writes(p, x) /\ snap'[p] = snap[p]
      BY <2>0, <3>1 DEF Writes
    <3>2. ASSUME NEW x, Disabling(x)' PROVE Disabling(x)
      BY <2>0, <3>2 DEF Disabling, Writes
    <3>3. ASSUME NEW x, Writes(a, x)' PROVE x = k
      BY <2>0, <3>3 DEF Writes
    <3>4. QED
      BY <1>n, <2>0, <3>1, <3>2, <3>3 DEF SnapsMatch
  <2>5. RowsMatch'
    BY <2>0 DEF RowsMatch
  <2>6. QuotaStops'
    BY <2>0 DEF QuotaStops, Exhausted
  <2>7. Counted'
    <3>1. \A x \in Keys : Charged(x)' = Charged(x)
      BY <2>0 DEF Charged
    <3>2. QED
      BY <1>t, <2>0, <3>1 DEF Counted
  <2>8. DisableReaches'
    <3>1. ASSUME NEW x \in Keys PROVE Disabling(x)' <=> Disabling(x)
      BY <2>0 DEF Disabling, Writes
    <3>2. QED
      BY <1>t, <2>0, <3>1 DEF DisableReaches
  <2>9. GhostRows'
    BY <2>0 DEF GhostRows, Deleting, On
  <2>10. Overruns'
    <3>1. \A x : Owing(x)' = Owing(x)
      BY <2>0 DEF Owing
    <3>2. \A x : Weight(x)' = Weight(x)
      BY <3>1 DEF Weight
    <3>3. \A p \in Requests, x \in Keys : Writes(p, x)' <=> Writes(p, x)
      BY <2>0 DEF Writes
    <3>4. \A x \in Keys : Disabling(x)' <=> Disabling(x)
      BY <2>0 DEF Disabling, Writes
    <3>5. \A p \in Requests : snap'[p] = snap[p]
      BY <2>0
    <3>6. QED
      BY <1>t, <2>0, <3>2, <3>3, <3>4, <3>5, Blanks DEF Overruns
  <2>11. QuotaDisables'
    BY <2>0 DEF QuotaDisables
  <2>12. Sole'
    BY <2>0 DEF Sole, Single, On, Creates
  <2>13. GhostsAreDisabled'
    BY <2>0 DEF GhostsAreDisabled, Single
  <2>14. QED
    BY <2>1, <2>2, <2>3, <2>4, <2>5, <2>6, <2>7, <2>8, <2>9, <2>10, <2>11, <2>12, <2>13
<1>8. ASSUME NEW a \in Admins, NEW k \in Keys, UpdateKey(a, k)
      PROVE  KeysInv'
  <2>0. /\ pc[a] = "idle" /\ pc'[a] = "hset" /\ key'[a] = k /\ k \in pool
        /\ \A x \in Keys \ {k} : info'[x] = info[x]
        /\ edited' = edited \cup {k}
        /\ \A x \in Procs \ {a} : pc'[x] = pc[x] /\ key'[x] = key[x] /\ snap'[x] = snap[x]
        /\ UNCHANGED <<pool, row, issued, crashed>>
    <3>1. PICK f : info' = [info EXCEPT ![k] = f] /\ Go(a, "hset", k, f)
      BY <1>8 DEF UpdateKey
    <3>2. QED
      BY <1>8, <1>g, <3>1 DEF UpdateKey, MayStart, TypeOK
  <2>1. Places'
    BY <2>0 DEF Places
  <2>2. Unissued'
    BY <2>0, <1>t DEF Unissued, On
  <2>3. Creation'
    BY <2>0, <1>t DEF Creation, Creates, On
  <2>4. SnapsMatch'
    <3>1. ASSUME NEW x \in Keys \ {k}, NEW p \in Procs, Writes(p, x)'
          PROVE  Writes(p, x) /\ snap'[p] = snap[p]
      BY <2>0, <3>1 DEF Writes
    <3>2. ASSUME NEW x, Disabling(x)' PROVE Disabling(x)
      BY <2>0, <3>2 DEF Disabling, Writes
    <3>3. QED
      BY <2>0, <3>1, <3>2 DEF SnapsMatch
  <2>5. RowsMatch'
    BY <2>0 DEF RowsMatch
  <2>6. QuotaStops'
    BY <2>0, <1>t DEF QuotaStops, Exhausted
  <2>7. Counted'
    <3>1. \A x \in Keys : Charged(x)' = Charged(x)
      BY <2>0 DEF Charged
    <3>2. QED
      BY <1>t, <2>0, <3>1 DEF Counted
  <2>8. DisableReaches'
    <3>1. ASSUME NEW x \in Keys PROVE Disabling(x)' <=> Disabling(x)
      BY <2>0 DEF Disabling, Writes
    <3>2. QED
      BY <1>t, <2>0, <3>1 DEF DisableReaches
  <2>9. GhostRows'
    BY <2>0 DEF GhostRows, Deleting, On
  <2>10. Overruns'
    <3>1. \A x : Owing(x)' = Owing(x)
      BY <2>0 DEF Owing
    <3>2. \A x : Weight(x)' = Weight(x)
      BY <3>1 DEF Weight
    <3>3. \A p \in Requests, x \in Keys : Writes(p, x)' <=> Writes(p, x)
      BY <2>0 DEF Writes
    <3>4. \A x \in Keys : Disabling(x)' <=> Disabling(x)
      BY <2>0 DEF Disabling, Writes
    <3>5. \A p \in Requests : snap'[p] = snap[p]
      BY <2>0
    <3>6. QED
      BY <1>t, <2>0, <3>2, <3>3, <3>4, <3>5, Blanks DEF Overruns
  <2>11. QuotaDisables'
    BY <2>0 DEF QuotaDisables
  <2>12. Sole'
    BY <2>0 DEF Sole, Single, On, Creates
  <2>13. GhostsAreDisabled'
    BY <2>0 DEF GhostsAreDisabled, Single
  <2>14. QED
    BY <2>1, <2>2, <2>3, <2>4, <2>5, <2>6, <2>7, <2>8, <2>9, <2>10, <2>11, <2>12, <2>13
<1>9. ASSUME NEW a \in Admins, NEW k \in Keys, DeleteKey(a, k)
      PROVE  KeysInv'
  <2>0. /\ pc[a] = "idle" /\ pc'[a] = "remove" /\ key'[a] = k /\ k \in pool /\ snap'[a] = Blank
        /\ \A x \in Procs \ {a} : pc'[x] = pc[x] /\ key'[x] = key[x] /\ snap'[x] = snap[x]
        /\ UNCHANGED <<pool, info, row, issued, edited, crashed>>
    BY <1>9, <1>g DEF DeleteKey, MayStart, histVars
  <2>1. Places'
    BY <2>0 DEF Places
  <2>2. Unissued'
    BY <2>0, <1>t DEF Unissued, On
  <2>3. Creation'
    BY <2>0 DEF Creation, Creates, On
  <2>4. SnapsMatch'
    <3>1. ASSUME NEW x, NEW p \in Procs, Writes(p, x)' PROVE Writes(p, x) /\ snap'[p] = snap[p]
      BY <2>0, <3>1 DEF Writes
    <3>2. ASSUME NEW x, Disabling(x)' PROVE Disabling(x)
      BY <2>0, <3>2 DEF Disabling, Writes
    <3>3. QED
      BY <1>t, <2>0, <3>1, <3>2 DEF SnapsMatch
  <2>5. RowsMatch'
    BY <2>0 DEF RowsMatch
  <2>6. QuotaStops'
    BY <2>0 DEF QuotaStops, Exhausted
  <2>7. Counted'
    <3>1. \A x \in Keys : Charged(x)' = Charged(x)
      BY <2>0 DEF Charged
    <3>2. QED
      BY <1>t, <2>0, <3>1 DEF Counted
  <2>8. DisableReaches'
    <3>1. ASSUME NEW x \in Keys PROVE Disabling(x)' <=> Disabling(x)
      BY <2>0 DEF Disabling, Writes
    <3>2. QED
      BY <1>t, <2>0, <3>1 DEF DisableReaches
  <2>9. GhostRows'
    BY <2>0 DEF GhostRows, Deleting, On
  <2>10. Overruns'
    <3>1. \A x : Owing(x)' = Owing(x)
      BY <2>0 DEF Owing
    <3>2. \A x : Weight(x)' = Weight(x)
      BY <3>1 DEF Weight
    <3>3. \A p \in Requests, x \in Keys : Writes(p, x)' <=> Writes(p, x)
      BY <2>0 DEF Writes
    <3>4. \A x \in Keys : Disabling(x)' <=> Disabling(x)
      BY <2>0 DEF Disabling, Writes
    <3>5. \A p \in Requests : snap'[p] = snap[p]
      BY <2>0
    <3>6. QED
      BY <1>t, <2>0, <3>2, <3>3, <3>4, <3>5, Blanks DEF Overruns
  <2>11. QuotaDisables'
    BY <2>0, Blanks DEF QuotaDisables
  <2>12. Sole'
    <3>1. ASSUME Single, NEW b \in Admins
          PROVE  /\ pc'[b] \in {"dto", "hset", "remove"} => key'[b] \in pool'
                 /\ \E x \in pool' : info'[x].role = "admin" /\ ~On(b, x)'
                 /\ \A x \in pool' : row'[x].whole \/ Creates(b, x)'
      <4>1. b = a
        BY <3>1, SoleAdmin
      <4>2. \E x \in pool : info[x].role = "admin" /\ x # k
        <5>1. CASE info[k].role # "admin"
          BY <3>1, <5>1 DEF Sole
        <5>2. CASE info[k].role = "admin"
          <6> DEFINE S == {x \in Keys : ActiveAdmin(x)}
          <6>1. ~(Cardinality(S) <= 1)
            BY <1>9, <5>2 DEF DeleteKey, LastAdmin
          <6>2. IsFiniteSet({k}) /\ Cardinality({k}) = 1
            BY FS_Singleton
          <6>3. S \subseteq {k} => IsFiniteSet(S) /\ Cardinality(S) <= 1
            BY <6>2, FS_Subset
          <6>4. QED
            BY <6>1, <6>3 DEF ActiveAdmin
        <5>3. QED
          BY <5>1, <5>2
      <4>3. \A y \in pool : row[y].whole
        BY <2>0, <3>1 DEF Sole, Creates
      <4>4. QED
        BY <1>t, <2>0, <4>1, <4>2, <4>3 DEF On
    <3>2. Single' => Single
      BY <2>0 DEF Single
    <3>3. QED
      BY <3>1, <3>2 DEF Sole
  <2>13. GhostsAreDisabled'
    BY <2>0 DEF GhostsAreDisabled, Single
  <2>14. QED
    BY <2>1, <2>2, <2>3, <2>4, <2>5, <2>6, <2>7, <2>8, <2>9, <2>10, <2>11, <2>12, <2>13
<1>10. ASSUME NEW a \in Admins, NEW k \in Keys, k = key[a], Remove(a)
      PROVE  KeysInv'
  <2>0. /\ pc[a] = "remove" /\ pc'[a] = "del" /\ key[a] = k /\ key'[a] = k /\ snap'[a] = Blank
        /\ pool' = pool \ {k}
        /\ \A x \in Procs \ {a} : pc'[x] = pc[x] /\ key'[x] = key[x] /\ snap'[x] = snap[x]
        /\ UNCHANGED <<info, row, issued, edited, crashed>>
    BY <1>10, <1>g DEF Remove, histVars
  <2>1. Places'
    BY <2>0 DEF Places
  <2>2. Unissued'
    BY <2>0 DEF Unissued, On
  <2>3. Creation'
    BY <2>0 DEF Creation, Creates, On
  <2>4. SnapsMatch'
    <3>1. ASSUME NEW x, NEW p \in Procs, Writes(p, x)' PROVE Writes(p, x) /\ snap'[p] = snap[p]
      BY <2>0, <3>1 DEF Writes
    <3>2. ASSUME NEW x, Disabling(x)' PROVE Disabling(x)
      BY <2>0, <3>2 DEF Disabling, Writes
    <3>3. QED
      BY <1>t, <2>0, <3>1, <3>2 DEF SnapsMatch
  <2>5. RowsMatch'
    BY <2>0 DEF RowsMatch
  <2>6. QuotaStops'
    BY <2>0 DEF QuotaStops, Exhausted
  <2>7. Counted'
    <3>1. \A x \in Keys : Charged(x)' = Charged(x)
      BY <2>0 DEF Charged
    <3>2. QED
      BY <1>t, <2>0, <3>1 DEF Counted
  <2>8. DisableReaches'
    <3>1. ASSUME NEW x \in Keys PROVE Disabling(x)' <=> Disabling(x)
      BY <2>0 DEF Disabling, Writes
    <3>2. QED
      BY <1>t, <2>0, <3>1 DEF DisableReaches
  <2>9. GhostRows'
    BY <2>0 DEF GhostRows, Deleting, On
  <2>10. Overruns'
    <3>1. \A x : Owing(x)' = Owing(x)
      BY <2>0 DEF Owing
    <3>2. \A x : Weight(x)' = Weight(x)
      BY <3>1 DEF Weight
    <3>3. \A p \in Requests, x \in Keys : Writes(p, x)' <=> Writes(p, x)
      BY <2>0 DEF Writes
    <3>4. \A x \in Keys : Disabling(x)' <=> Disabling(x)
      BY <2>0 DEF Disabling, Writes
    <3>5. \A p \in Requests : snap'[p] = snap[p]
      BY <2>0
    <3>6. QED
      BY <1>t, <2>0, <3>2, <3>3, <3>4, <3>5, Blanks DEF Overruns
  <2>11. QuotaDisables'
    BY <2>0, Blanks DEF QuotaDisables
  <2>12. Sole'
    <3>1. ASSUME Single, NEW b \in Admins
          PROVE  /\ pc'[b] \in {"dto", "hset", "remove"} => key'[b] \in pool'
                 /\ \E x \in pool' : info'[x].role = "admin" /\ ~On(b, x)'
                 /\ \A x \in pool' : row'[x].whole \/ Creates(b, x)'
      <4>1. b = a
        BY <3>1, SoleAdmin
      <4>2. QED
        BY <2>0, <3>1, <4>1 DEF Sole, On, Creates
    <3>2. Single' => Single
      BY <2>0 DEF Single
    <3>3. QED
      BY <3>1, <3>2 DEF Sole
  <2>13. GhostsAreDisabled'
    BY <2>0 DEF GhostsAreDisabled, Single
  <2>14. QED
    BY <2>1, <2>2, <2>3, <2>4, <2>5, <2>6, <2>7, <2>8, <2>9, <2>10, <2>11, <2>12, <2>13
<1>11. ASSUME NEW a \in Admins, NEW k \in Keys, k = key[a], DeleteGatewayKey(a)
      PROVE  KeysInv'
  <2>0. /\ pc[a] = "del" /\ pc'[a] = "idle" /\ key[a] = k /\ snap'[a] = Blank /\ k \notin pool
        /\ row'[k] = NoRow /\ \A x \in Keys \ {k} : row'[x] = row[x]
        /\ \A x \in Procs \ {a} : pc'[x] = pc[x] /\ key'[x] = key[x] /\ snap'[x] = snap[x]
        /\ UNCHANGED <<pool, info, issued, edited, crashed>>
    BY <1>11, <1>g DEF DeleteGatewayKey, Done, histVars, TypeOK, Places
  <2>1. Places'
    BY <2>0 DEF Places
  <2>2. Unissued'
    BY <2>0, <1>t DEF Unissued, On
  <2>3. Creation'
    BY <2>0 DEF Creation, Creates, On
  <2>4. SnapsMatch'
    <3>1. ASSUME NEW x, NEW p \in Procs, Writes(p, x)' PROVE Writes(p, x) /\ snap'[p] = snap[p]
      BY <2>0, <3>1 DEF Writes
    <3>2. ASSUME NEW x, Disabling(x)' PROVE Disabling(x)
      BY <2>0, <3>2 DEF Disabling, Writes
    <3>3. QED
      BY <1>t, <2>0, <3>1, <3>2 DEF SnapsMatch
  <2>5. RowsMatch'
    BY <2>0, Blanks DEF RowsMatch
  <2>6. QuotaStops'
    BY <2>0 DEF QuotaStops, Exhausted
  <2>7. Counted'
    <3>1. \A x \in Keys : Charged(x)' = Charged(x)
      BY <2>0 DEF Charged
    <3>2. QED
      BY <1>t, <2>0, <3>1 DEF Counted
  <2>8. DisableReaches'
    <3>1. ASSUME NEW x \in Keys PROVE Disabling(x)' <=> Disabling(x)
      BY <2>0 DEF Disabling, Writes
    <3>2. QED
      BY <1>t, <2>0, <3>1, Blanks DEF DisableReaches
  <2>9. GhostRows'
    BY <2>0, Blanks DEF GhostRows, Deleting, On
  <2>10. Overruns'
    <3>1. \A x : Owing(x)' = Owing(x)
      BY <2>0 DEF Owing
    <3>2. \A x : Weight(x)' = Weight(x)
      BY <3>1 DEF Weight
    <3>3. \A p \in Requests, x \in Keys : Writes(p, x)' <=> Writes(p, x)
      BY <2>0 DEF Writes
    <3>4. \A x \in Keys : Disabling(x)' <=> Disabling(x)
      BY <2>0 DEF Disabling, Writes
    <3>5. \A p \in Requests : snap'[p] = snap[p]
      BY <2>0
    <3>6. QED
      BY <1>t, <2>0, <3>2, <3>3, <3>4, <3>5, Blanks DEF Overruns
  <2>11. QuotaDisables'
    BY <2>0, Blanks DEF QuotaDisables
  <2>12. Sole'
    <3>1. ASSUME Single, NEW b \in Admins
          PROVE  /\ pc'[b] \in {"dto", "hset", "remove"} => key'[b] \in pool'
                 /\ \E x \in pool' : info'[x].role = "admin" /\ ~On(b, x)'
                 /\ \A x \in pool' : row'[x].whole \/ Creates(b, x)'
      <4>1. b = a
        BY <3>1, SoleAdmin
      <4>2. \A x \in pool : row[x].whole
        BY <2>0, <3>1 DEF Sole, Creates
      <4>3. \E x \in pool : info[x].role = "admin"
        BY <3>1 DEF Sole
      <4>4. QED
        BY <1>t, <2>0, <4>1, <4>2, <4>3 DEF On
    <3>2. Single' => Single
      BY <2>0 DEF Single
    <3>3. QED
      BY <3>1, <3>2 DEF Sole
  <2>13. GhostsAreDisabled'
    BY <2>0, Blanks DEF GhostsAreDisabled, Single
  <2>14. QED
    BY <2>1, <2>2, <2>3, <2>4, <2>5, <2>6, <2>7, <2>8, <2>9, <2>10, <2>11, <2>12, <2>13
<1>12. ASSUME Restart
      PROVE  KeysInv'
  <2>0. /\ \A p \in Procs : pc'[p] = "idle" /\ snap'[p] = Blank
        /\ issued' = issued \cup pool' /\ edited' = edited /\ pool' \subseteq Keys /\ pool' # {}
        /\ \A k \in pool' :
              \/ row[k].whole /\ row'[k] = row[k] /\ info'[k] = row[k].info
              \/ row'[k].whole /\ row'[k].info = Boot /\ info'[k] = Boot
        /\ \A k \in Keys \ pool' : ~row[k].whole /\ row'[k] = row[k] /\ info'[k] = Blank
        /\ \A k \in Keys : row[k].whole => k \in pool' /\ info'[k] = row[k].info
        /\ (\A k \in Keys : ~row[k].whole) => \A k \in pool' : info'[k] = Boot
        /\ ~crashed' => ~crashed /\ Idle
        /\ \A k : Charged(k)' = {} /\ Owing(k)' = {} /\ Cardinality({}) = 0
        /\ \A p \in Procs, k \in Keys : ~On(p, k)' /\ ~Creates(p, k)' /\ ~Writes(p, k)'
    <3> DEFINE loaded == {k \in Keys : row[k].whole}
               ks == IF loaded = {} THEN BootKeys ELSE loaded
    <3>1. /\ pool' = ks
          /\ issued' = issued \cup ks
          /\ row' = [k \in Keys |-> IF k \in ks \ loaded THEN Whole(Boot) ELSE row[k]]
          /\ info' = [k \in Keys |-> IF k \in ks \ loaded THEN Boot
                                     ELSE IF k \in ks THEN row[k].info ELSE Blank]
      BY <1>12 DEF Restart
    <3>2. pool' \subseteq Keys /\ pool' # {} /\ loaded \subseteq ks
      BY <3>1, KeysAssumption
    <3>3. /\ \A k \in pool' :
                \/ row[k].whole /\ row'[k] = row[k] /\ info'[k] = row[k].info
                \/ row'[k].whole /\ row'[k].info = Boot /\ info'[k] = Boot
          /\ \A k \in Keys \ pool' : ~row[k].whole /\ row'[k] = row[k] /\ info'[k] = Blank
          /\ \A k \in Keys : row[k].whole => k \in pool' /\ info'[k] = row[k].info
          /\ (\A k \in Keys : ~row[k].whole) => \A k \in pool' : info'[k] = Boot
      BY <3>1, <3>2, Blanks
    <3>4. \A p \in Procs : pc'[p] = "idle" /\ snap'[p] = Blank
      BY <1>12 DEF Restart
    <3>5. \A k : Charged(k)' = {} /\ Owing(k)' = {} /\ Cardinality({}) = 0
      BY <3>4, FS_EmptySet DEF Charged, Owing
    <3>6. \A p \in Procs, k \in Keys : ~On(p, k)' /\ ~Creates(p, k)' /\ ~Writes(p, k)'
      BY <3>4 DEF On, Creates, Writes
    <3>7. QED
      BY <1>12, <3>1, <3>2, <3>3, <3>4, <3>5, <3>6 DEF Restart
  <2>q. ASSUME NEW k \in Keys \ edited, row[k].whole, ~crashed, Idle
        PROVE  /\ Exhausted(row[k].info) => row[k].info.disabled
               /\ row[k].info.disabled => Within(row[k].info, 0)
    <3>1. \A p \in Procs : pc[p] = "idle"
      BY <2>q DEF Idle
    <3>2. Charged(k) = {} /\ Owing(k) = {} /\ ~Disabling(k) /\ ~Deleting(k) /\ Cardinality({}) = 0
      BY <3>1, FS_EmptySet DEF Charged, Owing, Disabling, Writes, Deleting
    <3>3. row[k].info.disabled => Within(row[k].info, 0)
      BY <2>q, <3>2 DEF Overruns, Weight
    <3>4. CASE k \notin pool
      BY <1>n, <2>q, <3>2, <3>3, <3>4 DEF GhostRows, Exhausted
    <3>5. CASE k \in pool
      <4>1. ASSUME Exhausted(row[k].info), ~row[k].info.disabled PROVE FALSE
        <5>1. ~info[k].disabled
          BY <2>q, <3>2, <3>5, <4>1 DEF DisableReaches
        <5>2. Add(row[k].info.used, 0) = info[k].used
          BY <2>q, <3>2, <3>5, <5>1 DEF Counted
        <5>3. row[k].info.used \in 0..UsedCap /\ 0 \in Nat
          BY <1>t, InfoType
        <5>4. row[k].info.used = info[k].used
          BY <5>2, <5>3, AddFacts
        <5>5. QED
          BY <2>q, <3>5, <4>1, <5>1, <5>4 DEF RowsMatch, QuotaStops, Exhausted
      <4>2. QED
        BY <3>3, <4>1
    <3>6. QED
      BY <3>4, <3>5
  <2>1. Places'
    BY <2>0 DEF Places
  <2>2. Unissued'
    BY <2>0, <1>t DEF Unissued, On
  <2>3. Creation'
    BY <2>0 DEF Creation, Creates, On
  <2>4. SnapsMatch'
    <3>1. \A k \in Keys : ~Disabling(k)'
      BY <2>0 DEF Disabling
    <3>2. QED
      BY <2>0, <3>1 DEF SnapsMatch
  <2>5. RowsMatch'
    BY <2>0 DEF RowsMatch
  <2>6. QuotaStops'
    <3>1. ~Exhausted(Boot)
      BY Blanks DEF Exhausted
    <3>2. QED
      BY <2>0, <2>q, <3>1 DEF QuotaStops
  <2>7. Counted'
    <3>1. \A f \in Info : f.used \in 0..UsedCap
      BY InfoType
    <3>2. \A f \in Info : Add(f.used, 0) = f.used
      BY <3>1, AddFacts, 0 \in Nat
    <3>3. \A k \in pool' : row'[k].info = info'[k] /\ info'[k] \in Info
      BY <1>t, <2>0, Blanks
    <3>4. \A k \in pool' : Add(row'[k].info.used, 0) = info'[k].used
      BY <3>2, <3>3
    <3>5. QED
      BY <2>0, <3>4 DEF Counted
  <2>8. DisableReaches'
    BY <2>0 DEF DisableReaches
  <2>9. GhostRows'
    BY <2>0 DEF GhostRows, Deleting, On
  <2>10. Overruns'
    <3>1. Within(Boot, 0)
      BY Blanks DEF Within
    <3>2. \A k : Weight(k)' = 0
      BY <2>0 DEF Weight
    <3>3. \A k \in pool' \ edited : ~crashed' /\ info'[k].disabled => Within(info'[k], 0)
      BY <2>0, <2>q, <3>1
    <3>4. \A k \in Keys : row'[k].whole => k \in pool' /\ row'[k].info = info'[k]
      BY <2>0
    <3>5. QED
      BY <2>0, <3>2, <3>3, <3>4 DEF Overruns
  <2>11. QuotaDisables'
    BY <2>0, Blanks DEF QuotaDisables
  <2>12. Sole'
    <3>1. ASSUME Single, NEW b \in Admins
          PROVE  \E x \in pool' : info'[x].role = "admin"
      <4>1. PICK x \in pool : info[x].role = "admin" /\ ~On(b, x)
        BY <3>1 DEF Sole
      <4>2. x \in Keys /\ row[x].whole
        BY <1>t, <3>1, <4>1 DEF Sole, On, Creates
      <4>3. row[x].info.role = "admin"
        BY <3>1, <4>1, <4>2 DEF RowsMatch, Single
      <4>4. QED
        BY <2>0, <4>2, <4>3
    <3>2. Single' => Single
      BY <2>0 DEF Single
    <3>3. \A x \in pool' : row'[x].whole
      BY <2>0
    <3>4. QED
      BY <2>0, <3>1, <3>2, <3>3 DEF Sole
  <2>13. GhostsAreDisabled'
    BY <2>0 DEF GhostsAreDisabled, Single
  <2>14. QED
    BY <2>1, <2>2, <2>3, <2>4, <2>5, <2>6, <2>7, <2>8, <2>9, <2>10, <2>11, <2>12, <2>13
<1>13. CASE UNCHANGED vars
  <2>1. \A k : /\ UNCHANGED <<Charged(k), Weight(k), Disabling(k), Deleting(k)>>
               /\ \A p : UNCHANGED <<On(p, k), Writes(p, k), Creates(p, k)>>
    BY <1>13 DEF vars, Charged, Weight, Owing, Disabling, Deleting, On, Writes, Creates
  <2>2. /\ UNCHANGED <<Places, Unissued, Creation, SnapsMatch, RowsMatch, QuotaStops>>
        /\ UNCHANGED <<Counted, DisableReaches, GhostRows, Overruns, QuotaDisables>>
    BY <1>13, <2>1 DEF vars, histVars, Places, Unissued, Creation, SnapsMatch, RowsMatch,
       QuotaStops, Counted, DisableReaches, GhostRows, Overruns, QuotaDisables
  <2>3. UNCHANGED <<Sole, GhostsAreDisabled>>
    BY <1>13, <2>1 DEF vars, histVars, Sole, Single, GhostsAreDisabled
  <2>4. QED
    BY <2>2, <2>3
<1>14. ASSUME NEW q \in Requests, RequestStep(q) PROVE KeysInv'
  <2>1. CASE IncrementRequests(q)
    BY <2>1, <1>1, <1>t DEF IncrementRequests
  <2>2. CASE Unknown(q)
    BY <2>2, <1>1, Blanks DEF Unknown, Done
  <2>3. CASE IncrementGatewayKeyRequests(q)
    <3>1. row' = row
      <4>1. Add(row[key[q]].info.used, 0) = row[key[q]].info.used
        BY <1>t, InfoType, AddFacts, 0 \in Nat
      <4>2. row' = [row EXCEPT ![key[q]] = [row[key[q]] EXCEPT !.info.used = row[key[q]].info.used]]
        BY <2>3, <4>1 DEF IncrementGatewayKeyRequests, HIncrBy
      <4>3. row[key[q]] \in Row /\ row[key[q]].info \in Info
        BY <1>t DEF TypeOK
      <4>4. [row[key[q]] EXCEPT !.info.used = row[key[q]].info.used] = row[key[q]]
        BY <4>3 DEF Row, Info
      <4>5. QED
        BY <4>2, <4>4 DEF TypeOK
    <3>2. QED
      BY <2>3, <3>1, <1>1, Blanks DEF IncrementGatewayKeyRequests, Done
  <2>4. QED
    BY <1>14, <1>t, <2>1, <2>2, <2>3, <1>2, <1>3 DEF RequestStep
<1>15. ASSUME NEW q \in Requests, NEW k \in Keys, Admit(q, k) PROVE KeysInv'
  BY <1>15, <1>1 DEF Admit, Creates
<1>16. QED
  BY <1>t, <1>4, <1>5, <1>6, <1>7, <1>8, <1>9, <1>10, <1>11, <1>12, <1>13, <1>14, <1>15
     DEF Next, AdminStep, Procs

\* The first state: NewManager on an empty Redis.
LEMMA KeysInit == Init => KeysInv
<1> SUFFICES ASSUME Init PROVE KeysInv
  OBVIOUS
<1> Requests \subseteq Procs /\ Admins \subseteq Procs
  BY DEF Procs
<1>1. TypeOK
  BY Blanks DEF Init, TypeOK
<1>2. /\ \A k : \A p \in Procs : ~On(p, k) /\ ~Writes(p, k) /\ ~Creates(p, k)
      /\ \A k : ~Disabling(k) /\ Charged(k) = {} /\ Owing(k) = {} /\ Weight(k) = 0
      /\ Cardinality({}) = 0
  <2>1. \A k : \A p \in Procs : ~On(p, k) /\ ~Writes(p, k) /\ ~Creates(p, k)
    BY DEF Init, On, Writes, Creates
  <2>2. \A k : ~Disabling(k) /\ Charged(k) = {} /\ Owing(k) = {}
    BY <2>1 DEF Disabling, Charged, Owing, Init
  <2>3. QED
    BY <2>1, <2>2, FS_EmptySet DEF Weight
<1>3. /\ \A k \in BootKeys : info[k] = Boot /\ row[k] = Whole(Boot)
      /\ \A k \in Keys \ BootKeys : info[k] = Blank /\ row[k] = NoRow
      /\ \A p \in Procs : pc[p] = "idle" /\ snap[p] = Blank
      /\ pool = BootKeys /\ issued = BootKeys /\ edited = {}
  BY Blanks DEF Init
<1>4. /\ \A k \in Keys : ~info[k].disabled /\ ~row[k].info.disabled
      /\ \A k \in BootKeys : row[k].whole /\ row[k].info = info[k] /\ info[k].quota = 0
      /\ \A k \in Keys \ BootKeys : ~row[k].whole
  BY <1>3, Blanks
<1>5. Places /\ Unissued /\ Creation /\ SnapsMatch /\ RowsMatch /\ GhostRows
  BY <1>2, <1>3, <1>4 DEF Places, Unissued, Creation, SnapsMatch, RowsMatch, GhostRows
<1>6. QuotaStops /\ QuotaDisables /\ DisableReaches /\ GhostsAreDisabled
  BY <1>3, <1>4, Blanks DEF QuotaStops, Exhausted, QuotaDisables, DisableReaches, GhostsAreDisabled
<1>7. Counted
  <2>1. \A f \in Info : f.used \in 0..UsedCap
    BY InfoType
  <2>2. \A f \in Info : Add(f.used, 0) = f.used
    BY <2>1, AddFacts, 0 \in Nat
  <2>3. \A k \in pool : Add(row[k].info.used, 0) = info[k].used
    BY <1>3, <1>4, <2>2, Blanks
  <2>4. QED
    BY <1>2, <2>3 DEF Counted
<1>8. Overruns
  BY <1>2, <1>4 DEF Overruns
<1>9. Sole
  BY <1>2, <1>3, <1>4, Blanks, KeysAssumption DEF Sole
<1>10. QED
  BY <1>1, <1>5, <1>6, <1>7, <1>8, <1>9 DEF KeysInv

\* The invariant holds in every behaviour.
THEOREM Invariance == Spec => []KeysInv
BY KeysInit, KeysStep, PTL DEF Spec

\* IncrementTokens' promise: a key that has used up its quota is disabled, for
\* every interleaving of charges, saves, key handlers and orderly restarts.
THEOREM QuotaIsEnforced == Spec => []QuotaStops
<1>1. KeysInv => QuotaStops
  BY DEF KeysInv
<1>2. QED
  BY <1>1, Invariance, PTL

\* No more than the requests that were admitted before is charged over a quota.
THEOREM OverrunIsBounded == Spec => []OverrunBounded
<1>1. KeysInv => OverrunBounded
  <2> SUFFICES ASSUME KeysInv, NEW k \in pool \ edited, info[k].quota > 0, ~crashed
               PROVE  info[k].used <= info[k].quota - 1 + Cardinality(Requests)
    BY DEF OverrunBounded
  <2>1. k \in Keys /\ info[k] \in Info
    BY DEF KeysInv, TypeOK
  <2>2. /\ info[k].used \in Nat /\ info[k].quota \in Nat
        /\ Weight(k) \in Nat /\ Cardinality(Requests) \in Nat
    BY <2>1, InfoType, Sizes
  <2>3. CASE info[k].disabled
    <3>1. Within(info[k], Weight(k))
      BY <2>1, <2>3 DEF KeysInv, Overruns
    <3>2. QED
      BY <2>2, <3>1 DEF Within
  <2>4. CASE ~info[k].disabled
    <3>1. ~Exhausted(info[k])
      BY <2>4 DEF KeysInv, QuotaStops
    <3>2. QED
      BY <2>2, <3>1 DEF Exhausted
  <2>5. QED
    BY <2>3, <2>4
<1>2. QED
  BY <1>1, Invariance, PTL

\* Every charge arrives in Redis exactly once.
THEOREM ChargesArriveOnce == Spec => []UsageExact
<1>1. KeysInv => UsageExact
  <2> SUFFICES ASSUME KeysInv, Idle, ~crashed, NEW k \in pool \ edited, ~info[k].disabled
               PROVE  row[k].info.used = info[k].used
    BY DEF UsageExact
  <2>1. Charged(k) = {}
    BY DEF Idle, Charged, Procs
  <2>2. Add(row[k].info.used, 0) = info[k].used
    BY <2>1, FS_EmptySet DEF KeysInv, Counted
  <2>3. row[k].info \in Info
    BY DEF KeysInv, TypeOK, Row
  <2>4. row[k].info.used \in 0..UsedCap /\ 0 \in Nat
    BY <2>3, InfoType
  <2>5. QED
    BY <2>2, <2>4, AddFacts
<1>2. QED
  BY <1>1, Invariance, PTL

\* A sole administrator who creates and deletes cannot delete the last admin key,
\* wherever the process stops.
THEOREM LastAdminStays == Spec => []SoleAdminKeepsOne
<1>1. KeysInv => SoleAdminKeepsOne
  <2> SUFFICES ASSUME KeysInv, Single
               PROVE  \E k \in pool :
                         info[k].role = "admin" /\ (info[k].disabled => info[k].quota > 0)
    BY DEF SoleAdminKeepsOne
  <2>1. Admins # {}
    BY FS_EmptySet DEF Single
  <2>2. PICK k \in pool : info[k].role = "admin"
    BY <2>1 DEF KeysInv, Sole
  <2>3. QED
    BY <2>2 DEF KeysInv, QuotaDisables, Single, TypeOK
<1>2. QED
  BY <1>1, Invariance, PTL

\* What a late save brings back after a deletion is a disabled key.
THEOREM LateSavesAreDisabled == Spec => []GhostsAreDisabled
<1>1. KeysInv => GhostsAreDisabled
  BY DEF KeysInv
<1>2. QED
  BY <1>1, Invariance, PTL
=============================================================================
