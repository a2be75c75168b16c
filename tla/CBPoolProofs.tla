---------------------------- MODULE CBPoolProofs ----------------------------
(***************************************************************************)
(* Proofs about CBPool, for every set of keys, every number of requests    *)
(* and administrators, every credit limit and every bootstrap.             *)
(***************************************************************************)
EXTENDS CBPool, FiniteSetTheorems, TLAPS

\* The pool has one object for a key.
Distinct == \A i, j \in DOMAIN keys : KeyOf(keys[i]) = KeyOf(keys[j]) => i = j

OneAdmin == \A a, b \in Admins : a = b

\* With one administrator and a Redis that answers: a key of the pool has its
\* hash or is about to get it, and what is about to lose it is not in the pool.
Saved ==
    OneAdmin /\ ~RedisFails =>
        /\ \A k \in Pooled : k \in stored \/ \E a \in Admins : op[a].kind = "add" /\ k \in op[a].todo
        /\ \A a \in Admins : op[a].kind \in {"delete", "cleanup"} => op[a].todo \cap Pooled = {}

\* The inductive invariant.
CBInv == TypeOK /\ OnlyDowngradeRevives /\ Distinct /\ Saved

-----------------------------------------------------------------------------
\* The remainder of a number is determined by a multiple near it.
LEMMA ModUnique ==
    ASSUME NEW L \in Nat \ {0}, NEW a \in Int, NEW r \in 0..L - 1, NEW x \in Int, x = L * a + r
    PROVE  x % L = r
<1> DEFINE b == x \div L
           d == b - a
<1>1. x = L * b + (x % L) /\ x % L \in 0..L - 1 /\ b \in Int
  OBVIOUS
<1>2. L * d = r - (x % L)
  BY <1>1
<1>3. d \in Int
  BY <1>1
<1>4. L * d < L /\ L * d > -L
  BY <1>1, <1>2
<1>5. d = 0
  <2>1. d >= 1 => L * d >= L
    BY <1>3
  <2>2. d <= -1 => L * d <= -L
    BY <1>3
  <2>3. QED
    BY <2>1, <2>2, <1>3, <1>4
<1>6. QED
  BY <1>1, <1>2, <1>5

\* km.Next() moves km.next behind the key it returns: from there every later
\* position is as much closer as the returned one was away, and one more.
LEMMA Closer ==
    ASSUME NEW L \in Nat \ {0}, NEW n \in Int, NEW i \in 1..L, NEW j \in 1..L, i # j,
           (i - 1 - n) % L <= (j - 1 - n) % L
    PROVE  (j - 1 - (i % L)) % L < (j - 1 - n) % L
<1> DEFINE x == i - 1 - n
           y == j - 1 - n
           p == x % L
           q == y % L
           a == x \div L
           b == y \div L
           c == i \div L
           m == i % L
<1>1. /\ x = L * a + p /\ p \in 0..L - 1 /\ a \in Int
      /\ y = L * b + q /\ q \in 0..L - 1 /\ b \in Int
      /\ i = L * c + m /\ m \in 0..L - 1 /\ c \in Int
  OBVIOUS
<1>2. p <= q /\ y - x = j - i
  OBVIOUS
<1> HIDE DEF x, y, p, q, a, b, c, m
<1> DEFINE d == b - a
<1>3. d \in Int /\ L * d = (j - i) - (q - p)
  BY <1>1, <1>2
<1> HIDE DEF d
<1>4. p # q
  <2> SUFFICES ASSUME p = q PROVE FALSE
    OBVIOUS
  <2>1. L * d = j - i /\ L * d < L /\ L * d > -L /\ L * d # 0
    BY <1>1, <1>3
  <2>2. d >= 1 => L * d >= L
    BY <1>3
  <2>3. d <= -1 => L * d <= -L
    BY <1>3
  <2>4. d = 0 => L * d = 0
    OBVIOUS
  <2>5. QED
    BY <1>3, <2>1, <2>2, <2>3, <2>4
<1>5. q - p - 1 \in 0..L - 1 /\ q - p - 1 < q
  BY <1>1, <1>2, <1>4
<1>6. j - 1 - m = L * (d + c) + (q - p - 1)
  BY <1>1, <1>3
<1>7. (j - 1 - m) % L = q - p - 1
  <2>1. d + c \in Int /\ j - 1 - m \in Int
    BY <1>1, <1>3
  <2> DEFINE z == j - 1 - m
             e == d + c
             r == q - p - 1
  <2>2. z = L * e + r /\ e \in Int /\ z \in Int /\ r \in 0..L - 1
    BY <1>5, <1>6, <2>1
  <2> HIDE DEF z, e, r
  <2>3. z % L = r
    BY <2>2, ModUnique
  <2>4. QED
    BY <2>3 DEF z, r
<1>8. (j - 1 - m) % L < q
  BY <1>5, <1>7
<1>9. QED
  BY <1>8 DEF m, q, y

-----------------------------------------------------------------------------
\* The updates of a key's fields, in memory, in a save under way and by time:
\* none but a cooldown makes an exhausted key revivable, and that one is
\* remembered.
LEMMA FieldsKept ==
    ASSUME NEW f \in Fields, Revivable(f) => f.dg
    PROVE  /\ PutOff(f) \in Fields /\ (Revivable(PutOff(f)) => PutOff(f).dg)
           /\ CoolDown(f) \in Fields /\ (Revivable(CoolDown(f)) => CoolDown(f).dg)
           /\ AddCredits(f, 1) \in Fields /\ (Revivable(AddCredits(f, 1)) => AddCredits(f, 1).dg)
           /\ Aged(f) \in Fields /\ (Revivable(Aged(f)) => Aged(f).dg)
           /\ Parsed(f) \in Fields /\ (Revivable(Parsed(f)) => Parsed(f).dg)
<1>0. /\ f.disabled \in BOOLEAN /\ f.disabledAt \in Instant /\ f.credits \in Nat /\ f.dg \in BOOLEAN
      /\ f.credits <= CreditCap /\ CreditCap \in Nat /\ CB_CREDIT_LIMIT \in Nat \ {0}
  BY CreditCapAssumption, LimitAssumption DEF Fields
<1>1. PutOff(f) \in Fields /\ ~Revivable(PutOff(f))
  BY <1>0 DEF PutOff, Fields, Instant, Revivable, Permanent
<1>2. CoolDown(f) \in Fields /\ (Revivable(CoolDown(f)) => CoolDown(f).dg)
  <2> DEFINE g == CoolDown(f)
  <2>1. /\ g \in Fields /\ g.credits = f.credits /\ g.disabledAt = "recent"
        /\ g.dg = (f.dg \/ Permanent(f))
    BY <1>0 DEF CoolDown, Fields, Instant, Permanent
  <2>2. QED
    BY <2>1 DEF Revivable, Exhausted
<1>3. AddCredits(f, 1) \in Fields /\ ~Revivable(AddCredits(f, 1))
  <2> DEFINE sum == IF f.credits + 1 <= CreditCap THEN f.credits + 1 ELSE CreditCap
             g == [f EXCEPT !.credits = sum]
  <2>1. sum \in 0..CreditCap
    BY <1>0
  <2> HIDE DEF sum
  <2>2. g \in Fields /\ g.credits = sum
    BY <2>1 DEF Fields
  <2>3. PutOff(g) \in Fields /\ ~Revivable(PutOff(g))
    BY <2>2 DEF PutOff, Fields, Instant, Revivable, Permanent
  <2>4. sum < CB_CREDIT_LIMIT => ~Revivable(g)
    BY <1>0, <2>1, <2>2 DEF Revivable, Exhausted
  <2>5. AddCredits(f, 1) = IF sum >= CB_CREDIT_LIMIT THEN PutOff(g) ELSE g
    BY DEF AddCredits, sum
  <2> HIDE DEF g
  <2>6. CASE sum >= CB_CREDIT_LIMIT
    BY <2>3, <2>5, <2>6
  <2>7. CASE sum < CB_CREDIT_LIMIT
    BY <1>0, <2>1, <2>2, <2>4, <2>5, <2>7
  <2>8. QED
    BY <1>0, <2>1, <2>6, <2>7
<1>4. Aged(f) \in Fields /\ (Revivable(Aged(f)) => Aged(f).dg)
  <2> DEFINE g == [f EXCEPT !.disabledAt = "old"]
  <2>1. g \in Fields /\ g.credits = f.credits /\ g.disabledAt = "old" /\ g.dg = f.dg
    BY DEF Fields, Instant
  <2>2. f.disabledAt = "recent" => (Revivable(g) => g.dg)
    BY <2>1 DEF Revivable, Exhausted, Permanent
  <2>3. QED
    BY <2>1, <2>2 DEF Aged
<1>5. Parsed(f) \in Fields /\ (Revivable(Parsed(f)) => Parsed(f).dg)
  <2> DEFINE g == [f EXCEPT !.disabledAt = "zero"]
  <2>1. g \in Fields /\ g.credits = f.credits /\ g.disabled = f.disabled /\ g.dg = f.dg
    BY DEF Fields, Instant
  <2>2. ~f.disabled => (Revivable(g) => g.dg)
    BY <2>1 DEF Revivable, Exhausted, Permanent
  <2>3. QED
    BY <2>1, <2>2 DEF Parsed
<1>6. QED
  BY <1>1, <1>2, <1>3, <1>4, <1>5

\* The worker enables only what is cooling down.
LEMMA ReenableKept ==
    ASSUME NEW f \in Fields, Revivable(f) => f.dg, Expired(f)
    PROVE  /\ [f EXCEPT !.disabled = FALSE] \in Fields
           /\ Revivable([f EXCEPT !.disabled = FALSE]) => [f EXCEPT !.disabled = FALSE].dg
<1> DEFINE g == [f EXCEPT !.disabled = FALSE]
<1>1. g \in Fields /\ g.credits = f.credits /\ g.dg = f.dg
  BY DEF Fields
<1>2. Revivable(g) => Revivable(f)
  BY <1>1 DEF Revivable, Exhausted, Permanent, Expired
<1>3. QED
  BY <1>1, <1>2

\* A key as it is imported is far from its limit.
LEMMA FreshKept == Fresh \in Fields /\ ~Revivable(Fresh)
<1>1. Fresh \in Fields /\ Fresh.credits = 0
  BY CreditCapAssumption DEF Fresh, Fields, Instant
<1>2. QED
  BY <1>1, LimitAssumption DEF Revivable, Exhausted

\* Some object stands for none.
LEMMA NoObjType == NoObj \in Obj
<1>1. PICK k \in Keys : TRUE
  BY KeysAssumption
<1>2. <<k, 1>> \in Obj
  BY MaxGenAssumption DEF Obj
<1>3. QED
  BY <1>2 DEF NoObj

-----------------------------------------------------------------------------
\* A slice without one of its elements.
LEMMA RemoveAtFacts ==
    ASSUME NEW S, NEW s \in Seq(S), NEW i \in DOMAIN s
    PROVE  /\ RemoveAt(s, i) \in Seq(S)
           /\ Len(RemoveAt(s, i)) = Len(s) - 1
           /\ \A j \in 1..Len(s) - 1 : RemoveAt(s, i)[j] = IF j < i THEN s[j] ELSE s[j + 1]
<1> DEFINE x == SubSeq(s, 1, i - 1)
           y == SubSeq(s, i + 1, Len(s))
<1>1. x \in Seq(S) /\ Len(x) = i - 1 /\ \A j \in 1..i - 1 : x[j] = s[j]
  OBVIOUS
<1>2. y \in Seq(S) /\ Len(y) = Len(s) - i /\ \A j \in 1..Len(s) - i : y[j] = s[i + j]
  OBVIOUS
<1> HIDE DEF x, y
<1>3. RemoveAt(s, i) = x \o y
  BY DEF RemoveAt, x, y
<1>4. x \o y \in Seq(S) /\ Len(x \o y) = Len(s) - 1
  BY <1>1, <1>2
<1>5. \A j \in 1..i - 1 : (x \o y)[j] = s[j]
  BY <1>1, <1>2
<1>6. ASSUME NEW j \in 1..Len(s) - 1, ~(j < i)
      PROVE  (x \o y)[j] = s[j + 1]
  <2>1. j - (i - 1) \in 1..Len(s) - i
    BY <1>6
  <2>2. (x \o y)[j] = y[j - (i - 1)]
    BY <1>1, <1>2, <1>6, <2>1, SMTT(30)
  <2>3. y[j - (i - 1)] = s[i + (j - (i - 1))]
    BY <1>2, <2>1
  <2>4. QED
    BY <2>2, <2>3
<1>7. \A j \in 1..Len(s) - 1 : (x \o y)[j] = IF j < i THEN s[j] ELSE s[j + 1]
  <2> SUFFICES ASSUME NEW j \in 1..Len(s) - 1
               PROVE  (x \o y)[j] = IF j < i THEN s[j] ELSE s[j + 1]
    OBVIOUS
  <2>1. CASE j < i
    <3>1. j \in 1..i - 1
      BY <2>1
    <3>2. QED
      BY <1>5, <2>1, <3>1
  <2>2. CASE ~(j < i)
    BY <1>6, <2>2
  <2>3. QED
    BY <2>1, <2>2
<1>8. QED
  BY <1>3, <1>4, <1>7

\* Taking keys out of the slice leaves one object for each other key.
LEMMA DeleteShrinks ==
    ASSUME CBInv, NEW i \in DOMAIN keys, keys' = RemoveAt(keys, i)
    PROVE  keys' \in Seq(Obj) /\ Distinct' /\ Pooled' \subseteq Pooled \ {KeyOf(keys[i])}
<1> DEFINE At(j) == IF j < i THEN j ELSE j + 1
<1>0. keys \in Seq(Obj) /\ Distinct
  BY DEF CBInv, TypeOK
<1>1. /\ keys' \in Seq(Obj) /\ Len(keys') = Len(keys) - 1
      /\ \A j \in 1..Len(keys) - 1 : keys'[j] = IF j < i THEN keys[j] ELSE keys[j + 1]
  BY <1>0, RemoveAtFacts
<1>2. DOMAIN keys' = 1..Len(keys) - 1 /\ DOMAIN keys = 1..Len(keys) /\ Len(keys) \in Nat
  BY <1>0, <1>1
<1>3. \A j \in DOMAIN keys' : At(j) \in DOMAIN keys /\ At(j) # i /\ keys'[j] = keys[At(j)]
  BY <1>1, <1>2
<1>4. \A j, k \in DOMAIN keys' : At(j) = At(k) => j = k
  BY <1>2
<1> HIDE DEF At
<1>5. Distinct'
  BY <1>0, <1>3, <1>4 DEF Distinct
<1>6. Pooled' \subseteq Pooled \ {KeyOf(keys[i])}
  BY <1>0, <1>3 DEF Distinct, Pooled
<1>7. QED
  BY <1>1, <1>5, <1>6

\* The orders a finite set has.
LEMMA OrdersAre ==
    ASSUME NEW S, IsFiniteSet(S), NEW s \in SetToSeqs(S)
    PROVE  /\ s \in Seq(S)
           /\ \A i, j \in DOMAIN s : s[i] = s[j] => i = j
<1> DEFINE n == Cardinality(S)
<1>1. n \in Nat
  BY FS_CardinalityType
<1>2. s \in [1..n -> S] /\ \A i, j \in 1..n : i # j => s[i] # s[j]
  BY DEF SetToSeqs
<1> HIDE DEF n
<1>3. QED
  BY <1>1, <1>2

\* The same for a clean-up, which takes several out at once.
LEMMA CleanupShrinks ==
    ASSUME CBInv, NEW gone, keys' \in Kept(gone)
    PROVE  keys' \in Seq(Obj) /\ Distinct' /\ Pooled' \subseteq Pooled \ gone
<1> DEFINE places == {i \in DOMAIN keys : KeyOf(keys[i]) \notin gone}
<1>0. keys \in Seq(Obj) /\ Distinct
  BY DEF CBInv, TypeOK
<1>1. PICK p \in SetToSeqs(places) : keys' = [n \in DOMAIN p |-> keys[p[n]]]
  BY DEF Kept
<1>2. IsFiniteSet(places)
  <2>1. Len(keys) \in Nat /\ DOMAIN keys = 1..Len(keys)
    BY <1>0
  <2>2. IsFiniteSet(1..Len(keys))
    BY <2>1, FS_Interval
  <2>3. QED
    BY <2>1, <2>2, FS_Subset
<1>3. p \in Seq(places) /\ \A m, n \in DOMAIN p : p[m] = p[n] => m = n
  BY <1>2, OrdersAre
<1>4. /\ Len(p) \in Nat /\ DOMAIN p = 1..Len(p)
      /\ \A n \in 1..Len(p) : p[n] \in DOMAIN keys /\ KeyOf(keys[p[n]]) \notin gone
  BY <1>3
<1>5. DOMAIN keys' = 1..Len(p) /\ \A n \in 1..Len(p) : keys'[n] = keys[p[n]] /\ keys[p[n]] \in Obj
  BY <1>0, <1>1, <1>4
<1>6. keys' \in Seq(Obj)
  <2>1. keys' = [n \in 1..Len(p) |-> keys[p[n]]]
    BY <1>1, <1>4
  <2>2. QED
    BY <1>4, <1>5, <2>1
<1>7. Distinct'
  BY <1>0, <1>3, <1>4, <1>5 DEF Distinct
<1>8. Pooled' \subseteq Pooled \ gone
  BY <1>4, <1>5 DEF Pooled
<1>9. QED
  BY <1>6, <1>7, <1>8

-----------------------------------------------------------------------------
\* A load makes one object for every hash, with what the hash says.
LEMMA LoadKept ==
    ASSUME NEW ks, ks \subseteq Keys, NEW r \in [Keys -> Fields],
           \A k \in Keys : Revivable(r[k]) => r[k].dg, NEW s \in LoadedKeys(ks)
    PROVE  /\ LoadedFields(ks, r) \in [Obj -> Fields]
           /\ \A o \in Obj : Revivable(LoadedFields(ks, r)[o]) => LoadedFields(ks, r)[o].dg
           /\ LoadedGen(ks) \in [Keys -> 0..MaxGen]
           /\ s \in Seq(Obj)
           /\ \A i, j \in DOMAIN s : KeyOf(s[i]) = KeyOf(s[j]) => i = j
           /\ {KeyOf(s[i]) : i \in DOMAIN s} \subseteq ks
<1>1. ASSUME NEW o \in Obj
      PROVE  /\ LoadedFields(ks, r)[o] \in Fields
             /\ Revivable(LoadedFields(ks, r)[o]) => LoadedFields(ks, r)[o].dg
  <2> DEFINE k == KeyOf(o)
  <2>1. k \in Keys
    BY DEF Obj, KeyOf
  <2>2. Parsed(r[k]) \in Fields /\ (Revivable(Parsed(r[k])) => Parsed(r[k]).dg)
    BY <2>1, FieldsKept
  <2>3. LoadedFields(ks, r)[o] = Parsed(r[k]) \/ LoadedFields(ks, r)[o] = Fresh
    BY DEF LoadedFields
  <2>4. QED
    BY <2>2, <2>3, FreshKept
<1>2. LoadedFields(ks, r) \in [Obj -> Fields]
  <2>1. LoadedFields(ks, r) = [o \in Obj |-> LoadedFields(ks, r)[o]]
    BY DEF LoadedFields
  <2>2. QED
    BY <1>1, <2>1
<1>3. LoadedGen(ks) \in [Keys -> 0..MaxGen]
  BY MaxGenAssumption DEF LoadedGen
<1>4. PICK p \in SetToSeqs(ks) : s = [i \in DOMAIN p |-> <<p[i], 1>>]
  BY DEF LoadedKeys
<1>5. p \in Seq(ks) /\ \A i, j \in DOMAIN p : p[i] = p[j] => i = j
  <2>1. IsFiniteSet(ks)
    BY KeysAssumption, FS_Subset
  <2>2. QED
    BY <2>1, OrdersAre
<1>6. Len(p) \in Nat /\ DOMAIN p = 1..Len(p) /\ \A i \in 1..Len(p) : p[i] \in ks
  BY <1>5
<1>7. /\ s = [i \in 1..Len(p) |-> <<p[i], 1>>]
      /\ \A i \in 1..Len(p) : s[i] \in Obj /\ KeyOf(s[i]) = p[i]
  BY <1>4, <1>6, MaxGenAssumption DEF Obj, KeyOf
<1>8. s \in Seq(Obj) /\ DOMAIN s = 1..Len(p)
  BY <1>6, <1>7
<1>9. ASSUME NEW i \in DOMAIN s, NEW j \in DOMAIN s, KeyOf(s[i]) = KeyOf(s[j])
      PROVE  i = j
  <2>1. i \in DOMAIN p /\ j \in DOMAIN p /\ KeyOf(s[i]) = p[i] /\ KeyOf(s[j]) = p[j]
    BY <1>6, <1>7, <1>8
  <2>2. QED
    BY <1>5, <1>9, <2>1
<1>10. {KeyOf(s[i]) : i \in DOMAIN s} \subseteq ks
  BY <1>6, <1>7, <1>8, ZenonT(40)
<1>11. QED
  BY <1>1, <1>2, <1>3, <1>8, <1>9, <1>10

\* The inductive invariant holds at the start.
LEMMA CBInit == Init => CBInv
<1> SUFFICES ASSUME Init PROVE CBInv
  OBVIOUS
<1>1. row \in [Keys -> Fields] /\ \A k \in Keys : Revivable(row[k]) => row[k].dg
  BY FreshKept DEF Init
<1>2. /\ st \in [Obj -> Fields] /\ \A o \in Obj : Revivable(st[o]) => st[o].dg
      /\ gen \in [Keys -> 0..MaxGen] /\ keys \in Seq(Obj)
      /\ \A i, j \in DOMAIN keys : KeyOf(keys[i]) = KeyOf(keys[j]) => i = j
      /\ {KeyOf(keys[i]) : i \in DOMAIN keys} \subseteq BootKeys
  BY <1>1, LoadKept, BootAssumption DEF Init
<1>3. NoOp \in Ops /\ NoOp.kind = "idle"
  BY DEF NoOp, Ops
<1>4. TypeOK
  BY <1>1, <1>2, <1>3, FreshKept, NoObjType, BootAssumption DEF Init, TypeOK
<1>5. OnlyDowngradeRevives
  BY <1>1, <1>2, FreshKept DEF Init, OnlyDowngradeRevives
<1>6. Distinct
  BY <1>2 DEF Distinct
<1>7. Saved
  BY <1>2, <1>3 DEF Init, Saved, Pooled
<1>8. QED
  BY <1>4, <1>5, <1>6, <1>7 DEF CBInv

-----------------------------------------------------------------------------
\* A write to Redis adds a hash or changes one, unless it is lost.
LEMMA WriteKept ==
    ASSUME CBInv, NEW k \in Keys, NEW f \in Fields, Revivable(f) => f.dg, HSet(k, f) \/ LostWrite
    PROVE  /\ stored' \subseteq Keys /\ stored \subseteq stored'
           /\ ~RedisFails => k \in stored'
           /\ row' \in [Keys -> Fields] /\ \A x \in Keys : Revivable(row'[x]) => row'[x].dg
<1>0. stored \subseteq Keys /\ row \in [Keys -> Fields] /\ \A x \in Keys : Revivable(row[x]) => row[x].dg
  BY DEF CBInv, TypeOK, OnlyDowngradeRevives
<1>1. CASE HSet(k, f)
  <2>1. /\ row' \in [Keys -> Fields] /\ row'[k] = f /\ \A x \in Keys \ {k} : row'[x] = row[x]
        /\ stored' = stored \cup {k}
    BY <1>0, <1>1 DEF HSet
  <2>2. QED
    BY <1>0, <2>1
<1>2. CASE LostWrite
  BY <1>0, <1>2 DEF LostWrite, redisVars
<1>3. QED
  BY <1>1, <1>2

\* The steps of a request that move it on but change no key.
LEMMA MoveKept ==
    ASSUME CBInv, NEW q \in Requests,
           Start(q) \/ Pick(q) \/ GiveUp(q) \/ TryNext(q) \/ Accept(q) \/ EndStream(q)
    PROVE  CBInv'
<1>0. TypeOK /\ keys \in Seq(Obj) /\ NoObj \in Obj
  BY NoObjType DEF CBInv, TypeOK
<1>1. UNCHANGED <<st, gen, keys, stored, row, snap, op, unsaved>>
  BY DEF Start, Pick, GiveUp, TryNext, Accept, EndStream, poolVars, redisVars
<1>2. pc' \in [Requests -> {"idle", "pick", "sent", "stream", "save", "savestream"}]
  BY <1>0 DEF TypeOK, Start, Pick, GiveUp, TryNext, Accept, EndStream
<1>3. left' \in [Requests -> Nat]
  BY <1>0 DEF TypeOK, Start, Pick, GiveUp, TryNext, Accept, EndStream
<1>4. held' \in [Requests -> Obj]
  <2>1. CASE Pick(q)
    <3>1. PICK i \in DOMAIN keys : held' = [held EXCEPT ![q] = keys[i]]
      BY <2>1 DEF Pick
    <3>2. keys[i] \in Obj
      BY <1>0
    <3>3. QED
      BY <1>0, <3>1, <3>2 DEF TypeOK
  <2>2. CASE ~Pick(q)
    <3>1. held' = held \/ held' = [held EXCEPT ![q] = NoObj]
      BY <2>2 DEF Start, GiveUp, TryNext, Accept, EndStream
    <3>2. QED
      BY <1>0, <3>1 DEF TypeOK
  <2>3. QED
    BY <2>1, <2>2
<1>5. next' \in Nat
  BY <1>0 DEF TypeOK, Start, Pick, GiveUp, TryNext, Accept, EndStream, poolVars
<1>6. TypeOK'
  BY <1>0, <1>1, <1>2, <1>3, <1>4, <1>5 DEF TypeOK
<1>7. OnlyDowngradeRevives' /\ Distinct' /\ Saved'
  BY <1>1 DEF CBInv, OnlyDowngradeRevives, Distinct, Saved, Pooled
<1>8. QED
  BY <1>6, <1>7 DEF CBInv

\* The steps of a request that change the object it holds.
LEMMA UpdateKept ==
    ASSUME CBInv, NEW q \in Requests, Refused(q) \/ RateLimited(q) \/ StreamError(q) \/ Charge(q)
    PROVE  CBInv'
<1>0. /\ TypeOK /\ held[q] \in Obj /\ st[held[q]] \in Fields
      /\ Revivable(st[held[q]]) => st[held[q]].dg
  BY DEF CBInv, TypeOK, OnlyDowngradeRevives
<1>1. PICK f \in Fields, then \in {"save", "savestream"} :
         (Revivable(f) => f.dg) /\ Update(q, f, then)
  BY <1>0, FieldsKept DEF Refused, RateLimited, StreamError, Charge
<1>2. /\ st' = [st EXCEPT ![held[q]] = f] /\ snap' = [snap EXCEPT ![q] = f]
      /\ pc' = [pc EXCEPT ![q] = then]
      /\ UNCHANGED <<gen, keys, next, stored, row, left, held, op, unsaved>>
  BY <1>1 DEF Update, redisVars
<1>3. TypeOK'
  BY <1>0, <1>2 DEF TypeOK
<1>4. /\ \A o \in Obj : st'[o] = f \/ st'[o] = st[o]
      /\ \A x \in Requests : snap'[x] = f \/ snap'[x] = snap[x]
  BY <1>0, <1>2 DEF TypeOK
<1>5. OnlyDowngradeRevives'
  BY <1>1, <1>2, <1>4 DEF CBInv, OnlyDowngradeRevives
<1>6. Distinct' /\ Saved'
  BY <1>2 DEF CBInv, Distinct, Saved, Pooled
<1>7. QED
  BY <1>3, <1>5, <1>6 DEF CBInv

\* The save that follows.
LEMMA SaveKept ==
    ASSUME CBInv, NEW q \in Requests, Save(q)
    PROVE  CBInv'
<1>0. /\ TypeOK /\ KeyOf(held[q]) \in Keys /\ snap[q] \in Fields /\ NoObj \in Obj
      /\ Revivable(snap[q]) => snap[q].dg
  BY NoObjType DEF CBInv, TypeOK, OnlyDowngradeRevives, Obj, KeyOf
<1>1. /\ stored' \subseteq Keys /\ stored \subseteq stored' /\ row' \in [Keys -> Fields]
      /\ \A x \in Keys : Revivable(row'[x]) => row'[x].dg
  BY <1>0, WriteKept DEF Save
<1>2. /\ UNCHANGED <<st, gen, keys, next, left, op, unsaved>> /\ snap' = [snap EXCEPT ![q] = Fresh]
  BY DEF Save, poolVars
<1>3. /\ pc' \in [Requests -> {"idle", "pick", "sent", "stream", "save", "savestream"}]
      /\ held' \in [Requests -> Obj]
  BY <1>0 DEF Save, TypeOK
<1>4. snap' \in [Requests -> Fields] /\ \A x \in Requests : snap'[x] = Fresh \/ snap'[x] = snap[x]
  BY <1>0, <1>2, FreshKept DEF TypeOK
<1>5. TypeOK'
  BY <1>0, <1>1, <1>2, <1>3, <1>4 DEF TypeOK
<1>6. OnlyDowngradeRevives'
  BY <1>1, <1>2, <1>4, FreshKept DEF CBInv, OnlyDowngradeRevives
<1>7. Distinct' /\ Saved'
  BY <1>1, <1>2 DEF CBInv, Distinct, Saved, Pooled
<1>8. QED
  BY <1>5, <1>6, <1>7 DEF CBInv

-----------------------------------------------------------------------------
\* An import: the key was not in the pool, and its hash is to be written.
LEMMA AddKept ==
    ASSUME CBInv, NEW a \in Admins, NEW k \in Keys, AddKey(a, k)
    PROVE  CBInv'
<1> DEFINE new == <<k, gen[k] + 1>>
           o == [kind |-> "add", todo |-> {k}]
<1>0. TypeOK /\ keys \in Seq(Obj) /\ gen[k] \in 0..MaxGen /\ gen[k] < MaxGen /\ MaxGen \in Nat
  BY MaxGenAssumption DEF CBInv, TypeOK, AddKey
<1>1. new \in Obj /\ KeyOf(new) = k /\ o \in Ops /\ o.kind = "add" /\ o.todo = {k}
  BY <1>0 DEF Obj, KeyOf, Ops
<1>2. /\ gen' = [gen EXCEPT ![k] = gen[k] + 1] /\ keys' = Append(keys, new)
      /\ op' = [op EXCEPT ![a] = o] /\ k \notin Pooled
      /\ UNCHANGED <<st, next, stored, row, pc, left, held, snap, unsaved>>
  BY DEF AddKey, redisVars, requestVars
<1> HIDE DEF new, o
<1>3. /\ keys' \in Seq(Obj) /\ DOMAIN keys' = 1..Len(keys) + 1 /\ DOMAIN keys = 1..Len(keys)
      /\ keys'[Len(keys) + 1] = new /\ Len(keys) \in Nat
      /\ \A i \in 1..Len(keys) : keys'[i] = keys[i] /\ KeyOf(keys[i]) # k
  BY <1>0, <1>1, <1>2 DEF Pooled
<1>4. op' \in [Admins -> Ops] /\ op'[a] = o /\ gen' \in [Keys -> 0..MaxGen]
  BY <1>0, <1>1, <1>2 DEF TypeOK
<1>5. TypeOK'
  BY <1>0, <1>2, <1>3, <1>4 DEF TypeOK
<1>6. OnlyDowngradeRevives'
  BY <1>2 DEF CBInv, OnlyDowngradeRevives
<1>7. Distinct'
  <2> SUFFICES ASSUME NEW i \in DOMAIN keys', NEW j \in DOMAIN keys', KeyOf(keys'[i]) = KeyOf(keys'[j])
               PROVE  i = j
    BY DEF Distinct
  <2>1. CASE i \in 1..Len(keys) /\ j \in 1..Len(keys)
    BY <1>3, <2>1 DEF CBInv, Distinct
  <2>2. QED
    BY <1>1, <1>3, <2>1
<1>8. Saved'
  <2>1. Pooled' \subseteq Pooled \cup {k}
    BY <1>1, <1>3 DEF Pooled
  <2>2. ASSUME OneAdmin, ~RedisFails
        PROVE  /\ \A x \in Pooled : x \in stored
               /\ \A b \in Admins : b = a
    <3>1. \A b \in Admins : b = a
      BY <2>2 DEF OneAdmin
    <3>2. op[a].kind = "idle"
      BY DEF AddKey, NoOp
    <3>3. QED
      BY <2>2, <3>1, <3>2 DEF CBInv, Saved
  <2>3. QED
    BY <1>1, <1>2, <1>4, <2>1, <2>2 DEF Saved
<1>9. QED
  BY <1>5, <1>6, <1>7, <1>8 DEF CBInv

\* A removal: the keys leave the slice at once, their hashes later.
LEMMA RemoveKept ==
    ASSUME CBInv, NEW a \in Admins, NEW kind \in {"delete", "cleanup"}, NEW gone, gone \subseteq Keys,
           op[a] = NoOp, op' = [op EXCEPT ![a] = [kind |-> kind, todo |-> gone]],
           keys' \in Seq(Obj), Distinct', Pooled' \subseteq Pooled \ gone,
           UNCHANGED <<st, gen, next, stored, row, pc, left, held, snap, unsaved>>
    PROVE  CBInv'
<1> DEFINE o == [kind |-> kind, todo |-> gone]
<1>0. TypeOK
  BY DEF CBInv
<1>1. o \in Ops /\ o.kind = kind /\ o.todo = gone
  BY DEF Ops
<1> HIDE DEF o
<1>2. op' \in [Admins -> Ops] /\ op'[a] = o
  BY <1>0, <1>1 DEF TypeOK, o
<1>3. TypeOK'
  BY <1>0, <1>2 DEF TypeOK
<1>4. OnlyDowngradeRevives'
  BY DEF CBInv, OnlyDowngradeRevives
<1>5. Saved'
  <2>1. ASSUME OneAdmin, ~RedisFails
        PROVE  /\ \A x \in Pooled : x \in stored
               /\ \A b \in Admins : b = a
    <3>1. \A b \in Admins : b = a
      BY <2>1 DEF OneAdmin
    <3>2. op[a].kind = "idle"
      BY DEF NoOp
    <3>3. QED
      BY <2>1, <3>1, <3>2 DEF CBInv, Saved
  <2>2. QED
    BY <1>1, <1>2, <2>1 DEF Saved
<1>6. QED
  BY <1>3, <1>4, <1>5 DEF CBInv

\* A Redis command of an operation.
LEMMA FinishKept ==
    ASSUME CBInv, NEW a \in Admins, Finish(a)
    PROVE  CBInv'
<1>0. TypeOK /\ op[a] \in Ops /\ op[a].kind # "idle" /\ NoOp \in Ops /\ NoOp.kind = "idle"
  BY DEF CBInv, TypeOK, Finish, NoOp, Ops
<1>1. PICK k \in op[a].todo :
          /\ \/ op[a].kind = "add" /\ HSet(k, Fresh)
             \/ /\ op[a].kind # "add"
                /\ stored' = stored \ {k}
                /\ row' = [row EXCEPT ![k] = Fresh]
             \/ LostWrite
          /\ op' = [op EXCEPT ![a] =
                       IF op[a].todo = {k} THEN NoOp ELSE [op[a] EXCEPT !.todo = op[a].todo \ {k}]]
  BY DEF Finish
<1>2. UNCHANGED <<st, gen, keys, next, pc, left, held, snap, unsaved>>
  BY DEF Finish, poolVars, requestVars
<1>3. k \in Keys
  BY <1>0 DEF Ops
<1> DEFINE o == [op[a] EXCEPT !.todo = op[a].todo \ {k}]
<1>4. o \in Ops /\ o.kind = op[a].kind /\ o.todo = op[a].todo \ {k}
  BY <1>0 DEF Ops
<1> HIDE DEF o
<1>5. /\ op' \in [Admins -> Ops] /\ (op'[a] = NoOp \/ op'[a] = o)
      /\ op'[a] = NoOp => op[a].todo = {k} \/ op'[a] = o
      /\ \A b \in Admins \ {a} : op'[b] = op[b]
  <2>1. op' = [op EXCEPT ![a] = IF op[a].todo = {k} THEN NoOp ELSE o]
    BY <1>1 DEF o
  <2>2. QED
    BY <1>0, <1>4, <2>1 DEF TypeOK
<1>6. /\ stored' \subseteq Keys /\ row' \in [Keys -> Fields]
      /\ \A x \in Keys : Revivable(row'[x]) => row'[x].dg
      /\ \A x \in stored : x \in stored' \/ (x = k /\ op[a].kind # "add")
      /\ op[a].kind = "add" /\ ~RedisFails => k \in stored'
  <2>1. CASE (op[a].kind = "add" /\ HSet(k, Fresh)) \/ LostWrite
    BY <1>3, <2>1, FreshKept, WriteKept DEF HSet, LostWrite
  <2>2. CASE op[a].kind # "add" /\ stored' = stored \ {k} /\ row' = [row EXCEPT ![k] = Fresh]
    <3>1. row' \in [Keys -> Fields] /\ \A x \in Keys : row'[x] = Fresh \/ row'[x] = row[x]
      BY <1>0, <1>3, <2>2, FreshKept DEF TypeOK
    <3>2. stored' \subseteq Keys
      BY <1>0, <2>2 DEF TypeOK
    <3>3. QED
      BY <2>2, <3>1, <3>2, FreshKept DEF CBInv, OnlyDowngradeRevives
  <2>3. QED
    BY <1>1, <2>1, <2>2
<1>7. TypeOK'
  BY <1>0, <1>2, <1>5, <1>6 DEF TypeOK
<1>8. OnlyDowngradeRevives'
  BY <1>2, <1>6 DEF CBInv, OnlyDowngradeRevives
<1>9. Distinct'
  BY <1>2 DEF CBInv, Distinct
<1>10. Saved'
  <2> SUFFICES ASSUME OneAdmin, ~RedisFails
               PROVE  /\ \A x \in Pooled : x \in stored' \/ (op'[a].kind = "add" /\ x \in op'[a].todo)
                      /\ op'[a].kind \in {"delete", "cleanup"} => op'[a].todo \cap Pooled = {}
    <3>1. Pooled' = Pooled
      BY <1>2 DEF Pooled
    <3>2. OneAdmin => \A b \in Admins : b = a
      BY DEF OneAdmin
    <3>3. QED
      BY <3>1, <3>2 DEF Saved
  <2>1. /\ \A x \in Pooled : x \in stored \/ (op[a].kind = "add" /\ x \in op[a].todo)
        /\ op[a].kind \in {"delete", "cleanup"} => op[a].todo \cap Pooled = {}
    BY DEF CBInv, Saved, OneAdmin
  <2>2. op[a].kind \in {"add", "delete", "cleanup"}
    BY <1>0 DEF Ops
  <2>3. QED
    BY <1>0, <1>4, <1>5, <1>6, <2>1, <2>2
<1>11. QED
  BY <1>7, <1>8, <1>9, <1>10 DEF CBInv

-----------------------------------------------------------------------------
\* The worker's scan.
LEMMA ReenableStep ==
    ASSUME CBInv, Reenable
    PROVE  CBInv'
<1> DEFINE due == {o \in ToSet(keys) : Expired(st[o])}
           On(o) == [st[o] EXCEPT !.disabled = FALSE]
<1>0. TypeOK /\ keys \in Seq(Obj) /\ st \in [Obj -> Fields] /\ \A o \in Obj : Revivable(st[o]) => st[o].dg
  BY DEF CBInv, TypeOK, OnlyDowngradeRevives
<1>1. /\ st' = [o \in Obj |-> IF o \in due THEN On(o) ELSE st[o]]
      /\ unsaved' = {<<KeyOf(o), On(o)>> : o \in due}
      /\ UNCHANGED <<gen, keys, next, stored, row, pc, left, held, snap, op>>
  BY DEF Reenable, redisVars, requestVars
<1>2. \A o \in due : o \in Obj /\ KeyOf(o) \in Keys /\ Expired(st[o])
  BY <1>0 DEF ToSet, Obj, KeyOf
<1>3. ASSUME NEW o \in due
      PROVE  On(o) \in Fields /\ (Revivable(On(o)) => On(o).dg)
  BY <1>0, <1>2, ReenableKept
<1> HIDE DEF due, On
<1>4. st' \in [Obj -> Fields] /\ unsaved' \subseteq Keys \X Fields
  BY <1>0, <1>1, <1>2, <1>3
<1>5. TypeOK'
  BY <1>0, <1>1, <1>4 DEF TypeOK
<1>6. OnlyDowngradeRevives'
  <2>1. \A o \in Obj : Revivable(st'[o]) => st'[o].dg
    <3>1. \A o \in Obj : st'[o] = IF o \in due THEN On(o) ELSE st[o]
      BY <1>1
    <3>2. QED
      BY <1>0, <1>3, <3>1
  <2>2. \A u \in unsaved' : Revivable(u[2]) => u[2].dg
    BY <1>1, <1>3
  <2>3. QED
    BY <1>1, <2>1, <2>2 DEF CBInv, OnlyDowngradeRevives
<1>7. Distinct' /\ Saved'
  BY <1>1 DEF CBInv, Distinct, Saved, Pooled
<1>8. QED
  BY <1>5, <1>6, <1>7 DEF CBInv

\* One of its saves.
LEMMA ReenableSaveStep ==
    ASSUME CBInv, ReenableSave
    PROVE  CBInv'
<1>0. TypeOK /\ unsaved \subseteq Keys \X Fields /\ \A u \in unsaved : Revivable(u[2]) => u[2].dg
  BY DEF CBInv, TypeOK, OnlyDowngradeRevives
<1>1. PICK u \in unsaved : unsaved' = unsaved \ {u} /\ (HSet(u[1], u[2]) \/ LostWrite)
  BY DEF ReenableSave
<1>2. UNCHANGED <<st, gen, keys, next, pc, left, held, snap, op>>
  BY DEF ReenableSave, poolVars, requestVars
<1>3. /\ stored' \subseteq Keys /\ stored \subseteq stored' /\ row' \in [Keys -> Fields]
      /\ \A x \in Keys : Revivable(row'[x]) => row'[x].dg
  BY <1>0, <1>1, WriteKept
<1>4. TypeOK'
  BY <1>0, <1>1, <1>2, <1>3 DEF TypeOK
<1>5. OnlyDowngradeRevives'
  BY <1>1, <1>2, <1>3 DEF CBInv, OnlyDowngradeRevives
<1>6. Distinct' /\ Saved'
  BY <1>2, <1>3 DEF CBInv, Distinct, Saved, Pooled
<1>7. QED
  BY <1>4, <1>5, <1>6 DEF CBInv

\* Ten minutes.
LEMMA TickStep ==
    ASSUME CBInv, Tick
    PROVE  CBInv'
<1>0. TypeOK /\ OnlyDowngradeRevives
  BY DEF CBInv
<1>1. /\ st' = [o \in Obj |-> Aged(st[o])] /\ row' = [k \in Keys |-> Aged(row[k])]
      /\ snap' = [q \in Requests |-> Aged(snap[q])] /\ unsaved' = {<<u[1], Aged(u[2])>> : u \in unsaved}
      /\ UNCHANGED <<gen, keys, next, stored, pc, left, held, op>>
  BY DEF Tick
<1>2. \A o \in Obj : st'[o] \in Fields /\ (Revivable(st'[o]) => st'[o].dg)
  BY <1>0, <1>1, FieldsKept DEF TypeOK, OnlyDowngradeRevives
<1>3. \A k \in Keys : row'[k] \in Fields /\ (Revivable(row'[k]) => row'[k].dg)
  BY <1>0, <1>1, FieldsKept DEF TypeOK, OnlyDowngradeRevives
<1>4. \A q \in Requests : snap'[q] \in Fields /\ (Revivable(snap'[q]) => snap'[q].dg)
  BY <1>0, <1>1, FieldsKept DEF TypeOK, OnlyDowngradeRevives
<1>5. \A u \in unsaved' : u \in Keys \X Fields /\ (Revivable(u[2]) => u[2].dg)
  <2>1. ASSUME NEW u \in unsaved
        PROVE  u[1] \in Keys /\ Aged(u[2]) \in Fields /\ (Revivable(Aged(u[2])) => Aged(u[2]).dg)
    BY <1>0, FieldsKept DEF TypeOK, OnlyDowngradeRevives
  <2>2. QED
    BY <1>1, <2>1
<1>6. TypeOK'
  <2>1. st' \in [Obj -> Fields] /\ row' \in [Keys -> Fields] /\ snap' \in [Requests -> Fields]
    BY <1>1, <1>2, <1>3, <1>4
  <2>2. QED
    BY <1>0, <1>1, <1>5, <2>1 DEF TypeOK
<1>7. OnlyDowngradeRevives'
  BY <1>2, <1>3, <1>4, <1>5 DEF OnlyDowngradeRevives
<1>8. Distinct' /\ Saved'
  BY <1>1 DEF CBInv, Distinct, Saved, Pooled
<1>9. QED
  BY <1>6, <1>7, <1>8 DEF CBInv

\* A crash at any point, and the load that follows.
LEMMA RestartStep ==
    ASSUME CBInv, Restart
    PROVE  CBInv'
<1> DEFINE ks == IF stored = {} THEN BootKeys ELSE stored
<1>0. /\ ks \subseteq Keys /\ row \in [Keys -> Fields] /\ \A k \in Keys : Revivable(row[k]) => row[k].dg
  BY BootAssumption DEF CBInv, TypeOK, OnlyDowngradeRevives
<1> HIDE DEF ks
<1>1. /\ stored' = ks /\ row' = row /\ st' = LoadedFields(ks, row) /\ gen' = LoadedGen(ks)
      /\ keys' \in LoadedKeys(ks) /\ next' = 0
      /\ pc' = [q \in Requests |-> "idle"] /\ left' = [q \in Requests |-> 0]
      /\ held' = [q \in Requests |-> NoObj] /\ snap' = [q \in Requests |-> Fresh]
      /\ op' = [a \in Admins |-> NoOp] /\ unsaved' = {}
  BY DEF Restart, ks
<1>2. /\ st' \in [Obj -> Fields] /\ \A o \in Obj : Revivable(st'[o]) => st'[o].dg
      /\ gen' \in [Keys -> 0..MaxGen] /\ keys' \in Seq(Obj)
      /\ \A i, j \in DOMAIN keys' : KeyOf(keys'[i]) = KeyOf(keys'[j]) => i = j
      /\ {KeyOf(keys'[i]) : i \in DOMAIN keys'} \subseteq ks
  BY <1>0, <1>1, LoadKept
<1>3. NoOp \in Ops /\ NoOp.kind = "idle"
  BY DEF NoOp, Ops
<1>4. TypeOK'
  BY <1>0, <1>1, <1>2, <1>3, FreshKept, NoObjType DEF TypeOK
<1>5. OnlyDowngradeRevives'
  BY <1>0, <1>1, <1>2, FreshKept DEF OnlyDowngradeRevives
<1>6. Distinct'
  BY <1>2 DEF Distinct
<1>7. Saved'
  BY <1>1, <1>2, <1>3 DEF Saved, Pooled
<1>8. QED
  BY <1>4, <1>5, <1>6, <1>7 DEF CBInv

\* Every step keeps the inductive invariant.
LEMMA CBStep == CBInv /\ [Next]_vars => CBInv'
<1> SUFFICES ASSUME CBInv, [Next]_vars PROVE CBInv'
  OBVIOUS
<1>1. ASSUME NEW q \in Requests, Start(q) \/ RequestStep(q)
      PROVE  CBInv'
  BY <1>1, MoveKept, UpdateKept, SaveKept DEF RequestStep
<1>2. ASSUME NEW a \in Admins, AdminStart(a)
      PROVE  CBInv'
  <2>1. ASSUME NEW k \in Keys, DeleteKey(a, k)
        PROVE  CBInv'
    <3>1. PICK i \in DOMAIN keys : KeyOf(keys[i]) = k /\ keys' = RemoveAt(keys, i)
      BY <2>1 DEF DeleteKey
    <3>2. keys' \in Seq(Obj) /\ Distinct' /\ Pooled' \subseteq Pooled \ {k}
      BY <3>1, DeleteShrinks
    <3>3. /\ op[a] = NoOp /\ op' = [op EXCEPT ![a] = [kind |-> "delete", todo |-> {k}]]
          /\ UNCHANGED <<st, gen, next, stored, row, pc, left, held, snap, unsaved>>
      BY <2>1 DEF DeleteKey, redisVars, requestVars
    <3>4. QED
      BY <3>2, <3>3, RemoveKept
  <2>2. CASE Cleanup(a)
    <3> DEFINE gone == {KeyOf(o) : o \in {p \in ToSet(keys) : Permanent(st[p])}}
    <3>1. /\ op[a] = NoOp /\ op' = [op EXCEPT ![a] = [kind |-> "cleanup", todo |-> gone]]
          /\ keys' \in Kept(gone)
          /\ UNCHANGED <<st, gen, next, stored, row, pc, left, held, snap, unsaved>>
      BY <2>2 DEF Cleanup, redisVars, requestVars
    <3>2. gone \subseteq Keys
      BY DEF CBInv, TypeOK, ToSet, Obj, KeyOf
    <3> HIDE DEF gone
    <3>3. keys' \in Seq(Obj) /\ Distinct' /\ Pooled' \subseteq Pooled \ gone
      BY <3>1, CleanupShrinks
    <3>4. QED
      BY <3>1, <3>2, <3>3, RemoveKept
  <2>3. QED
    BY <1>2, <2>1, <2>2, AddKept DEF AdminStart
<1>3. CASE UNCHANGED vars
  <2>1. UNCHANGED <<st, gen, keys, next, stored, row, pc, left, held, snap, op, unsaved>>
    BY <1>3 DEF vars, poolVars, redisVars, requestVars
  <2>2. TypeOK'
    BY <2>1 DEF CBInv, TypeOK
  <2>3. OnlyDowngradeRevives' /\ Distinct' /\ Saved'
    BY <2>1 DEF CBInv, OnlyDowngradeRevives, Distinct, Saved, Pooled
  <2>4. QED
    BY <2>2, <2>3 DEF CBInv
<1>4. QED
  BY <1>1, <1>2, <1>3, FinishKept, ReenableStep, ReenableSaveStep, TickStep, RestartStep DEF Next

-----------------------------------------------------------------------------
\* Spec keeps the inductive invariant.
THEOREM Invariance == Spec => []CBInv
BY CBInit, CBStep, PTL DEF Spec

\* Credits once used up keep a key disabled for good, in memory, in Redis and
\* in every save under way, whatever requests, worker, administrators and
\* restarts do in whatever order: only a cooldown that the 429 and 4xx branches
\* write over the disable brings such a key back.
THEOREM ExhaustedStaysOff == Spec => []OnlyDowngradeRevives
<1>1. CBInv => OnlyDowngradeRevives
  BY DEF CBInv
<1>2. QED
  BY <1>1, Invariance, PTL

\* AddKey and LoadFromRedis never give a key two objects, and with
\* administrators one at a time and a Redis that answers, what is in the pool
\* between operations survives a restart.
THEOREM PoolIsPersisted ==
    ASSUME OneAdmin
    PROVE  Spec => []PoolPersisted
<1>1. CBInv => PoolPersisted
  <2> SUFFICES ASSUME CBInv PROVE PoolPersisted
    OBVIOUS
  <2>1. \A i, j \in DOMAIN keys : KeyOf(keys[i]) = KeyOf(keys[j]) => i = j
    BY DEF CBInv, Distinct
  <2>2. ASSUME ~RedisFails, \A a \in Admins : op[a] = NoOp
        PROVE  Pooled \subseteq stored
    <3>1. \A a \in Admins : op[a].kind = "idle"
      BY <2>2 DEF NoOp
    <3>2. QED
      BY <2>2, <3>1, OneAdmin DEF CBInv, Saved
  <2>3. QED
    BY <2>1, <2>2 DEF PoolPersisted
<1>2. QED
  BY <1>1, Invariance, PTL

\* km.Next() is fair whatever the slice and wherever km.next stands, also past
\* its end after a removal: each pick brings every other enabled key strictly
\* closer to its turn.
THEOREM PicksRotate == Spec => PickBringsOthersCloser
<1>1. ASSUME CBInv, [Next]_vars, NEW q \in Requests, pc[q] = "pick", pc'[q] = "sent"
      PROVE  Pick(q)
  <2>0. TypeOK
    BY <1>1 DEF CBInv
  <2>1. CASE Restart
    BY <1>1, <2>1 DEF Restart
  <2>2. ASSUME NEW x \in Requests, Start(x) \/ RequestStep(x)
        PROVE  Pick(q)
    <3>1. \E w : pc' = [pc EXCEPT ![x] = w]
      BY <2>2 DEF Start, RequestStep, Pick, GiveUp, TryNext, Accept, Refused, RateLimited,
                  StreamError, Charge, EndStream, Save, Update
    <3>2. x = q
      BY <1>1, <2>0, <3>1 DEF TypeOK
    <3>3. pc[x] = "pick" /\ pc'[x] = "sent"
      BY <1>1, <3>2
    <3>4. GiveUp(x) => pc'[x] = "idle"
      BY <2>0 DEF GiveUp, TypeOK
    <3>5. QED
      BY <2>2, <3>2, <3>3, <3>4
         DEF Start, RequestStep, TryNext, Accept, Refused, RateLimited, StreamError, Charge,
             EndStream, Save
  <2>3. CASE pc' = pc
    BY <1>1, <2>3
  <2>4. QED
    BY <1>1, <2>1, <2>2, <2>3
       DEF Next, AdminStart, AddKey, DeleteKey, Cleanup, Finish, Reenable, ReenableSave, Tick,
           requestVars, vars
<1>2. ASSUME CBInv, NEW q \in Requests, Pick(q), NEW j \in DOMAIN keys,
             keys[j] # held'[q], ~st[keys[j]].disabled
      PROVE  Ahead(j)' < Ahead(j)
  <2>0. keys \in Seq(Obj) /\ next \in Nat /\ held \in [Requests -> Obj]
    BY <1>2 DEF CBInv, TypeOK
  <2>1. PICK i \in DOMAIN keys : IsNext(i) /\ next' = i % Len(keys) /\ held' = [held EXCEPT ![q] = keys[i]]
    BY <1>2 DEF Pick
  <2>2. Ahead(i) <= Ahead(j) /\ i # j
    BY <1>2, <2>0, <2>1 DEF IsNext
  <2> DEFINE L == Len(keys)
  <2>3. L \in Nat \ {0} /\ i \in 1..L /\ j \in 1..L
    BY <2>0
  <2>4. keys' = keys
    BY <1>2 DEF Pick
  <2> HIDE DEF L
  <2>5. (i - 1 - next) % L <= (j - 1 - next) % L
    BY <2>2 DEF Ahead, L
  <2>6. (j - 1 - (i % L)) % L < (j - 1 - next) % L
    BY <2>0, <2>2, <2>3, <2>5, next \in Int, Closer, Zenon
  <2>7. QED
    BY <2>1, <2>4, <2>6 DEF Ahead, L
<1>3. CBInv /\ [Next]_vars =>
        [\A q \in Requests : pc[q] = "pick" /\ pc'[q] = "sent" =>
            \A i \in DOMAIN keys :
                keys[i] # held'[q] /\ ~st[keys[i]].disabled => Ahead(i)' < Ahead(i)]_vars
  BY <1>1, <1>2
<1>4. QED
  BY <1>3, Invariance, PTL DEF Spec, PickBringsOthersCloser
=============================================================================
