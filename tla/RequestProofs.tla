---------------------------- MODULE RequestProofs ----------------------------
(***************************************************************************)
(* Proofs about a request on its way: Combos, for every catalogue of       *)
(* models, every set of combos that may be posted and every number of      *)
(* requests, and AnthropicMessages, for every answer of an upstream, with  *)
(* any number of lines and of tool calls, cut anywhere.                    *)
(***************************************************************************)
EXTENDS Combos, AnthropicMessages, SequenceTheorems, FiniteSetTheorems,
        FunctionTheorems, TLAPS

(***************************************************************************)
(* Combos: the walk over the models, the rotation, the registry            *)
(***************************************************************************)

\* What a request has tried, at each of its places.
WalkOK(r) ==
    LET t == r.tried
        ms == r.combo.models
    IN  /\ r.pc \in {"idle", "count", "check", "list", "send"} => t = <<>> /\ ~r.walk
        /\ r.pc = "walk" => r.walk
        /\ r.walk => Len(t) <= Len(ms) /\ \A i \in 1..Len(t) : t[i].name = ms[i]
        /\ r.pc = "walk" => /\ \A i \in 1..Len(t) : t[i].status = "5xx"
                            /\ Len(t) < Len(ms) \/ ms = <<>>
        /\ r.pc = "done" /\ r.walk =>
              /\ \A i \in 1..Len(t) - 1 : t[i].status = "5xx"
              /\ Len(t) > 0 /\ t[Len(t)].status = "5xx" => Len(t) = Len(ms)

\* An effort once sent stays that of the body.
EffortOK(r) ==
    LET t == r.tried
    IN  \A i \in 1..Len(t) : t[i].effort # "unset" =>
            /\ r.effort = t[i].effort
            /\ \A j \in i..Len(t) : t[j].effort = t[i].effort

\* Only a rotated combo is counted.
CountOK(r) == r.pc = "count" => r.combo.strategy = "round_robin"

Walks == \A q \in Requests : WalkOK(req[q]) /\ EffortOK(req[q]) /\ CountOK(req[q])

\* The place in a list of length len that was picked `back` picks ago, when the
\* counter stands at n.
Spot(n, back, len) ==
    LET next == n % len
    IN  IF next >= back THEN next - back + 1 ELSE next - back + 1 + len

\* The last picks are those before the counter.
Rotates ==
    cache.strategy = "round_robin" =>
        /\ Len(run) <= Len(cache.models)
        /\ \A i \in 1..Len(run) :
              run[i] = cache.models[Spot(counter, Len(run) - i + 1, Len(cache.models))]

\* With one administrator: what is in the cache is in Redis, or he is about to put
\* there what he wrote to Redis.
OneAdmin == \A a, b \in Admins : a = b

Persists ==
    OneAdmin =>
        /\ cache = stored \/ \E a \in Admins : adm[a].pc \in {"add", "del", "delete"}
        /\ custom = hash \/ \E a \in Admins : adm[a].pc = "setName"
        /\ \A a \in Admins : /\ adm[a].pc = "add" => stored = adm[a].combo
                             /\ adm[a].pc \in {"del", "delete"} => stored = NoCombo
                             /\ adm[a].pc = "setName" => hash = adm[a].bind

\* The inductive invariant.
CombosInv == TypeOK /\ Walks /\ Rotates /\ Persists

-----------------------------------------------------------------------------
\* A remainder is determined by a quotient.
LEMMA ModUnique ==
    ASSUME NEW L \in Nat \ {0}, NEW a \in Int, NEW r \in 0..L - 1, NEW x \in Int, x = L * a + r
    PROVE  x % L = r
<1> DEFINE b == x \div L
           d == b - a
<1>1. x = L * b + (x % L) /\ x % L \in 0..L - 1 /\ b \in Int
  OBVIOUS
<1>2. L * d = r - (x % L)
  BY <1>1
<1>3. d \in Int
  BY <1>1
<1>4. L * d < L /\ L * d > -L
  BY <1>1, <1>2
<1>5. d = 0
  <2>1. d >= 1 => L * d >= L
    BY <1>3
  <2>2. d <= -1 => L * d <= -L
    BY <1>3
  <2>3. QED
    BY <2>1, <2>2, <1>3, <1>4
<1>6. QED
  BY <1>1, <1>2, <1>5

\* An index modulo a length, counted from one, is one of the list's.
LEMMA ModRange ==
    ASSUME NEW L \in Nat \ {0}, NEW n \in Nat
    PROVE  n % L \in Nat /\ n % L < L /\ (n % L) + 1 \in 1..L
OBVIOUS

\* The counter moves one place on in every list whose length divides the cycle,
\* and from the last place to the first.
LEMMA NextPlace ==
    ASSUME NEW L \in Nat \ {0}, NEW C \in Nat \ {0}, C % L = 0, NEW n \in 0..C - 1
    PROVE  /\ (n % L) + 1 = L => ((n + 1) % C) % L = 0
           /\ (n % L) + 1 # L => ((n + 1) % C) % L = (n % L) + 1
<1> DEFINE a == n \div L
           r == n % L
           m == C \div L
<1>1. n = L * a + r /\ r \in 0..L - 1 /\ a \in Int
  OBVIOUS
<1>2. C = L * m /\ m \in Int
  OBVIOUS
<1> HIDE DEF a, r, m
<1>3. CASE n + 1 < C
  <2>1. (n + 1) % C = n + 1
    BY <1>3, ModUnique, n + 1 = C * 0 + (n + 1), n + 1 \in 0..C - 1, 0 \in Int
  <2>2. CASE r + 1 = L
    <3>1. n + 1 = L * (a + 1) + 0
      BY <1>1, <2>2
    <3>2. (n + 1) % L = 0
      BY <3>1, <1>1, ModUnique, a + 1 \in Int, 0 \in 0..L - 1
    <3>3. QED
      BY <2>1, <2>2, <3>2 DEF r
  <2>3. CASE r + 1 # L
    <3>1. (n + 1) % L = r + 1
      BY <1>1, <2>3, ModUnique, n + 1 = L * a + (r + 1), r + 1 \in 0..L - 1
    <3>3. QED
      BY <2>1, <2>3, <3>1 DEF r
  <2>4. QED
    BY <2>2, <2>3
<1>4. CASE n + 1 = C
  <2>1. (n + 1) % C = 0
    BY <1>4, ModUnique, n + 1 = C * 1 + 0, 0 \in 0..C - 1
  <2>2. 0 % L = 0
    BY ModUnique, 0 = L * 0 + 0, 0 \in 0..L - 1
  <2>3. n = L * (m - 1) + (L - 1)
    BY <1>2, <1>4
  <2>4. n % L = L - 1
    BY <1>2, <2>3, ModUnique, m - 1 \in Int, L - 1 \in 0..L - 1
  <2>5. QED
    BY <2>1, <2>2, <2>4
<1>5. QED
  BY <1>3, <1>4

-----------------------------------------------------------------------------
\* What is known of a combo in the registry.
LEMMA KnownFacts ==
    ASSUME NEW c \in Known
    PROVE  /\ c.models \in Seq(Models)
           /\ c.strategy \in {"none", "fallback", "round_robin"}
           /\ c.strategy # "none" => Len(c.models) \in Nat \ {0}
           /\ c.strategy = "round_robin" => Cycle % Len(c.models) = 0
<1>1. CASE c = NoCombo
  BY <1>1 DEF NoCombo
<1>2. CASE c \in Inputs /\ Valid(c)
  <2>1. c.models \in Seq(Models) /\ c.strategy \in {"fallback", "round_robin"}
    BY <1>2, TablesAssumption
  <2>2. Len(c.models) \in Nat \ {0}
    BY <1>2, CycleAssumption DEF Valid
  <2>3. c.models # <<>>
    BY <2>2
  <2>4. QED
    BY <1>2, <2>1, <2>2, <2>3, CycleAssumption
<1>3. QED
  BY <1>1, <1>2 DEF Known

\* A rotation picks one of the combo's models.
LEMMA ChoiceType ==
    ASSUME NEW c \in Known, c.strategy = "round_robin", NEW n \in Nat
    PROVE  Choice(c, n) \in Models
<1>1. c.models \in Seq(Models) /\ Len(c.models) \in Nat \ {0}
  BY KnownFacts
<1>2. (n % Len(c.models)) + 1 \in 1..Len(c.models)
  BY <1>1, ModRange
<1>3. QED
  BY <1>1, <1>2 DEF Choice

\* An expansion gives an effort, and keeps the one a body has.
LEMMA ExpandedType ==
    ASSUME TypeOK, NEW e \in Efforts, NEW m \in Models \cup {"combo"}
    PROVE  Expanded(e, m) \in Efforts /\ (e # "unset" => Expanded(e, m) = e)
<1>1. Meaning(m).effort \in Efforts
  <2>1. CASE m = "combo"
    BY <2>1, TablesAssumption DEF Meaning, Binding, Efforts
  <2>2. CASE m = Custom
    BY <2>2, TablesAssumption DEF Meaning, Binding, Efforts, TypeOK, Unbound
  <2>3. CASE m \in Models \ {Custom}
    BY <2>3, TablesAssumption DEF Meaning, Binding, Efforts
  <2>4. QED
    BY <2>1, <2>2, <2>3
<1>2. QED
  BY <1>1 DEF Expanded

\* The constant records are of their types, and empty.
LEMMA Blanks ==
    /\ NoCombo \in Known /\ NoRequest \in Request /\ NoAdmin \in Admin
    /\ NoCombo.strategy = "none" /\ NoCombo.models = <<>>
    /\ NoRequest.pc = "idle" /\ NoRequest.tried = <<>> /\ NoRequest.walk = FALSE
BY DEF NoCombo, Known, NoRequest, Request, Efforts, NoAdmin, Admin, Calls

\* What an administrator goes on with.
LEMMA GoType ==
    ASSUME TypeOK, NEW a \in Admins, NEW c \in Known,
           NEW w \in {"idle", "hset", "add", "del", "delete"}, Go(a, w, c)
    PROVE  /\ adm' \in [Admins -> Admin]
           /\ adm'[a].pc = w /\ adm'[a].combo = c
           /\ \A b \in Admins \ {a} : adm'[b] = adm[b]
BY Blanks DEF TypeOK, Go, NoAdmin, Admin

\* A request's next record keeps the invariant of the requests.
LEMMA SetKeeps ==
    ASSUME TypeOK, Walks, NEW q \in Requests, NEW r \in Request, Set(q, r),
           WalkOK(r), EffortOK(r), CountOK(r)
    PROVE  req' \in [Requests -> Request] /\ Walks'
<1>1. req' = [req EXCEPT ![q] = r]
  BY DEF Set
<1>2. req' \in [Requests -> Request] /\ \A x \in Requests : req'[x] = IF x = q THEN r ELSE req[x]
  BY <1>1 DEF TypeOK
<1>3. QED
  BY <1>2 DEF Walks

\* Each step of a request keeps it.
LEMMA RequestKeeps ==
    ASSUME TypeOK, Walks, NEW q \in Requests, Arrive(q) \/ RequestStep(q) \/ Leave(q)
    PROVE  req' \in [Requests -> Request] /\ Walks'
<1> DEFINE r == req[q]
<1>0. /\ r \in Request /\ WalkOK(r) /\ EffortOK(r) /\ CountOK(r) /\ cache \in Known
      /\ r.combo \in Known /\ r.model \in Models \cup {"combo"} /\ r.effort \in Efforts
      /\ r.tried \in Seq(Calls) /\ counter \in Nat /\ seq \in Nat
  BY CycleAssumption DEF TypeOK, Walks, Request
<1>1. CASE Arrive(q)
  <2>1. PICK stream \in BOOLEAN, allowed \in Whitelists, effort \in {"unset", "client"} :
          Set(q, [NoRequest EXCEPT
                     !.pc = IF cache.strategy = "round_robin" THEN "count" ELSE "check",
                     !.combo = cache,
                     !.model = IF cache.strategy = "fallback" THEN cache.models[1] ELSE "combo",
                     !.stream = stream, !.allowed = allowed, !.effort = effort])
    BY <1>1 DEF Arrive
  <2> DEFINE m == IF cache.strategy = "fallback" THEN cache.models[1] ELSE "combo"
             w == IF cache.strategy = "round_robin" THEN "count" ELSE "check"
             n == [NoRequest EXCEPT !.pc = w, !.combo = cache, !.model = m,
                                    !.stream = stream, !.allowed = allowed, !.effort = effort]
  <2>2. m \in Models \cup {"combo"}
    BY <1>0, KnownFacts
  <2>3. w \in {"count", "check"} /\ (w = "count" => cache.strategy = "round_robin")
    OBVIOUS
  <2>4. Set(q, n)
    BY <2>1
  <2> HIDE DEF m, w
  <2>b. effort \in Efforts /\ allowed \in Whitelists \cup {{}} /\ <<>> \in Seq(Calls)
    BY DEF Efforts
  <2>5. n \in Request /\ n.pc = w /\ n.combo = cache /\ n.tried = <<>> /\ n.walk = FALSE
    <3> DEFINE n1 == [NoRequest EXCEPT !.pc = w, !.combo = cache, !.model = m]
    <3>1. n1 \in Request /\ n1.pc = w /\ n1.combo = cache /\ n1.tried = <<>> /\ n1.walk = FALSE
      BY <1>0, <2>2, <2>3, Blanks DEF Request
    <3>2. n = [n1 EXCEPT !.stream = stream, !.allowed = allowed, !.effort = effort]
      OBVIOUS
    <3> HIDE DEF n1, n
    <3>3. QED
      BY <2>b, <3>1, <3>2 DEF Request
  <2>6. WalkOK(n) /\ EffortOK(n) /\ CountOK(n)
    BY <2>3, <2>5 DEF WalkOK, EffortOK, CountOK
  <2>7. QED
    BY <2>4, <2>5, <2>6, SetKeeps
<1>2. CASE Count(q)
  <2>1. PICK k \in Nat : Set(q, [r EXCEPT !.pc = "check", !.model = Choice(r.combo, k)])
    BY <1>0, <1>2 DEF Count
  <2>2. r.pc = "count"
    BY <1>2 DEF Count
  <2>3. Choice(r.combo, k) \in Models
    BY <1>0, <2>2, ChoiceType DEF CountOK
  <2> DEFINE n == [r EXCEPT !.pc = "check", !.model = Choice(r.combo, k)]
  <2>4. /\ n \in Request /\ n.pc = "check" /\ n.tried = r.tried /\ n.walk = r.walk
    BY <1>0, <2>3 DEF Request
  <2>5. WalkOK(n) /\ EffortOK(n) /\ CountOK(n)
    BY <1>0, <2>2, <2>4 DEF WalkOK, EffortOK, CountOK
  <2>6. QED
    BY <2>1, <2>4, <2>5, SetKeeps
<1>3. CASE Check(q)
  <2>1. PICK w \in {"done", "list", "send"}, e \in Efforts : Set(q, [r EXCEPT !.pc = w, !.effort = e])
    <3>1. Expanded(r.effort, r.model) \in Efforts
      BY <1>0, ExpandedType
    <3>2. [r EXCEPT !.pc = "done"] = [r EXCEPT !.pc = "done", !.effort = r.effort]
      BY <1>0 DEF Request
    <3>3. QED
      BY <1>0, <1>3, <3>1, <3>2 DEF Check
  <2>2. r.pc = "check"
    BY <1>3 DEF Check
  <2> DEFINE n == [r EXCEPT !.pc = w, !.effort = e]
  <2>3. n \in Request /\ n.pc = w /\ n.tried = r.tried /\ n.walk = r.walk
    BY <1>0 DEF Request
  <2>4. WalkOK(n) /\ EffortOK(n) /\ CountOK(n)
    BY <1>0, <2>2, <2>3 DEF WalkOK, EffortOK, CountOK
  <2>5. QED
    BY <2>1, <2>3, <2>4, SetKeeps
<1>4. CASE ReadList(q)
  <2> DEFINE n == [r EXCEPT !.pc = "walk", !.combo = cache, !.walk = TRUE]
  <2>1. Set(q, n) /\ r.pc = "list"
    BY <1>4 DEF ReadList
  <2>2. n \in Request /\ n.pc = "walk" /\ n.tried = r.tried /\ n.walk = TRUE /\ n.combo = cache
    BY <1>0 DEF Request
  <2>3. cache.models \in Seq(Models)
    BY <1>0, KnownFacts
  <2>4. WalkOK(n) /\ EffortOK(n) /\ CountOK(n)
    BY <1>0, <2>1, <2>2, <2>3 DEF WalkOK, EffortOK, CountOK
  <2>5. QED
    BY <2>1, <2>2, <2>4, SetKeeps
<1>5. CASE Walk(q)
  <2> DEFINE ms == r.combo.models
             i == Len(r.tried) + 1
             e == Expanded(r.effort, ms[i])
  <2>1. r.pc = "walk" /\ i <= Len(ms) /\ ms \in Seq(Models) /\ r.walk
    BY <1>0, <1>5, KnownFacts DEF Walk, WalkOK
  <2>2. ms[i] \in Models
    BY <1>0, <2>1
  <2>3. e \in Efforts /\ (r.effort # "unset" => e = r.effort)
    BY <1>0, <2>2, ExpandedType
  <2>4. PICK s \in Status :
           Set(q, [r EXCEPT !.tried = Append(r.tried, Call(ms[i], e, s)), !.effort = e,
                            !.pc = IF Final(s) \/ i = Len(ms) THEN "done" ELSE "walk"])
    BY <1>5 DEF Walk
  <2> DEFINE c == Call(ms[i], e, s)
             w == IF Final(s) \/ i = Len(ms) THEN "done" ELSE "walk"
             n == [r EXCEPT !.tried = Append(r.tried, c), !.effort = e, !.pc = w]
  <2>5. c \in Calls /\ c.name = ms[i] /\ c.effort = e /\ c.status = s
    BY <2>2, <2>3 DEF Call, Calls
  <2>6. w \in {"done", "walk"}
    OBVIOUS
  <2>7. w = "done" <=> s # "5xx" \/ i = Len(ms)
    BY DEF Final
  <2>8. Set(q, n)
    BY <2>4
  <2> HIDE DEF c, w, e
  <2>a. Append(r.tried, c) \in Seq(Calls)
    BY <1>0, <2>5
  <2>9. /\ n \in Request /\ n.pc = w /\ n.tried = Append(r.tried, c) /\ n.walk = r.walk
        /\ n.combo = r.combo /\ n.effort = e
    BY <1>0, <2>3, <2>6, <2>a DEF Request
  <2>10. /\ Len(n.tried) = i /\ n.tried[i] = c
         /\ \A j \in 1..i - 1 : n.tried[j] = r.tried[j]
    BY <1>0, <2>5, <2>9
  <2>11. Len(r.tried) \in Nat /\ i \in Nat /\ Len(ms) \in Nat
    BY <1>0, <2>1
  <2>12. WalkOK(n)
    <3>1. /\ \A j \in 1..i - 1 : r.tried[j].name = ms[j] /\ r.tried[j].status = "5xx"
      BY <1>0, <2>1 DEF WalkOK
    <3>2. \A j \in 1..i : n.tried[j].name = ms[j]
      BY <2>5, <2>10, <2>11, <3>1
    <3>3. \A j \in 1..i - 1 : n.tried[j].status = "5xx"
      BY <2>10, <3>1
    <3>4. w = "walk" => n.tried[i].status = "5xx" /\ i < Len(ms)
      BY <2>1, <2>5, <2>7, <2>10, <2>11
    <3>5. n.tried[i].status = "5xx" => w = "walk" \/ i = Len(ms)
      BY <2>5, <2>6, <2>7, <2>10
    <3>6. w = "walk" => \A j \in 1..i : n.tried[j].status = "5xx"
      BY <2>11, <3>3, <3>4
    <3> HIDE DEF i, ms, n
    <3>7. n.combo.models = ms /\ n.walk = TRUE /\ n.pc = w /\ Len(n.tried) = i /\ i <= Len(ms)
      BY <1>0, <2>1, <2>9, <2>10 DEF ms, Request
    <3>8. QED
      BY <2>6, <2>11, <3>2, <3>3, <3>4, <3>5, <3>6, <3>7 DEF WalkOK
  <2>13. EffortOK(n)
    <3>1. \A j \in 1..i - 1 : r.tried[j].effort # "unset" =>
              /\ r.effort = r.tried[j].effort
              /\ \A l \in j..i - 1 : r.tried[l].effort = r.tried[j].effort
      BY <1>0 DEF EffortOK
    <3>2. ASSUME NEW j \in 1..i, n.tried[j].effort # "unset"
          PROVE  e = n.tried[j].effort /\ \A l \in j..i : n.tried[l].effort = n.tried[j].effort
      <4>1. CASE j = i
        BY <2>5, <2>10, <2>11, <4>1
      <4>2. CASE j \in 1..i - 1
        <5>1. n.tried[j] = r.tried[j] /\ r.effort = r.tried[j].effort /\ e = r.effort
          BY <2>3, <2>10, <3>1, <3>2, <4>2
        <5>2. \A l \in j..i - 1 : n.tried[l].effort = n.tried[j].effort
          BY <2>10, <2>11, <3>1, <3>2, <4>2, <5>1
        <5>3. n.tried[i].effort = n.tried[j].effort
          BY <2>5, <2>10, <5>1
        <5>4. QED
          BY <2>11, <5>1, <5>2, <5>3
      <4>3. QED
        BY <2>11, <4>1, <4>2
    <3> HIDE DEF i, n
    <3>3. QED
      BY <2>9, <2>10, <3>2 DEF EffortOK
  <2>14. CountOK(n)
    BY <2>6, <2>9 DEF CountOK
  <2>15. QED
    BY <2>8, <2>9, <2>12, <2>13, <2>14, SetKeeps
<1>6. CASE WalkNothing(q)
  <2> DEFINE n == [r EXCEPT !.pc = "done"]
  <2>1. Set(q, n) /\ r.pc = "walk" /\ r.combo.models = <<>>
    BY <1>6 DEF WalkNothing
  <2>2. /\ n \in Request /\ n.pc = "done" /\ n.tried = r.tried /\ n.walk = r.walk
        /\ n.combo = r.combo /\ n.effort = r.effort
    BY <1>0 DEF Request
  <2>3. WalkOK(n) /\ EffortOK(n) /\ CountOK(n)
    BY <1>0, <2>1, <2>2 DEF WalkOK, EffortOK, CountOK
  <2>4. QED
    BY <2>1, <2>2, <2>3, SetKeeps
<1>7. CASE Send(q)
  <2>1. PICK s \in Status :
           Set(q, [r EXCEPT !.pc = "done", !.tried = <<Call(r.model, r.effort, s)>>])
    BY <1>7 DEF Send
  <2>2. r.pc = "send"
    BY <1>7 DEF Send
  <2> DEFINE c == Call(r.model, r.effort, s)
             n == [r EXCEPT !.pc = "done", !.tried = <<c>>]
  <2>3. c \in Calls /\ c.effort = r.effort
    BY <1>0 DEF Call, Calls
  <2> HIDE DEF c
  <2>a. <<c>> \in Seq(Calls)
    BY <2>3
  <2>4. /\ n \in Request /\ n.pc = "done" /\ n.tried = <<c>> /\ n.walk = r.walk
        /\ n.combo = r.combo /\ n.effort = r.effort
    BY <1>0, <2>a DEF Request
  <2>5. WalkOK(n) /\ EffortOK(n) /\ CountOK(n)
    BY <1>0, <2>2, <2>3, <2>4 DEF WalkOK, EffortOK, CountOK
  <2>6. Set(q, n)
    BY <2>1 DEF c
  <2>7. QED
    BY <2>4, <2>5, <2>6, SetKeeps
<1>8. CASE Leave(q)
  <2>1. WalkOK(NoRequest) /\ EffortOK(NoRequest) /\ CountOK(NoRequest)
    BY Blanks DEF WalkOK, EffortOK, CountOK
  <2>2. QED
    BY <1>8, <2>1, Blanks, SetKeeps DEF Leave
<1>9. QED
  BY <1>1, <1>2, <1>3, <1>4, <1>5, <1>6, <1>7, <1>8 DEF RequestStep

-----------------------------------------------------------------------------
\* With the counter one on, a pick lies one further back, and the place the
\* counter stood at is the last pick.
LEMMA SpotMoves ==
    ASSUME NEW L \in Nat \ {0}, Cycle % L = 0, NEW n \in 0..Cycle - 1
    PROVE  /\ Spot((n + 1) % Cycle, 1, L) = (n % L) + 1
           /\ \A back \in 1..L - 1 : Spot((n + 1) % Cycle, back + 1, L) = Spot(n, back, L)
<1>0. Cycle \in Nat \ {0}
  BY CycleAssumption
<1>2. /\ (n % L) + 1 = L => ((n + 1) % Cycle) % L = 0
      /\ (n % L) + 1 # L => ((n + 1) % Cycle) % L = (n % L) + 1
  BY <1>0, NextPlace, Zenon
<1> DEFINE x == n % L
           y == ((n + 1) % Cycle) % L
<1>1. x \in 0..L - 1
  BY <1>0, ModRange
<1> HIDE DEF x, y
<1>3. Spot((n + 1) % Cycle, 1, L) = x + 1
  BY <1>1, <1>2 DEF Spot, x, y
<1>4. ASSUME NEW back \in 1..L - 1
      PROVE  Spot((n + 1) % Cycle, back + 1, L) = Spot(n, back, L)
  BY <1>1, <1>2 DEF Spot, x, y
<1>5. QED
  BY <1>3, <1>4 DEF x

\* Different picks among the last len are different places of the list.
LEMMA SpotsDiffer ==
    ASSUME NEW L \in Nat \ {0}, NEW n \in Nat, NEW b \in 1..L, NEW c \in 1..L,
           Spot(n, b, L) = Spot(n, c, L)
    PROVE  b = c
<1> DEFINE x == n % L
<1>1. x \in 0..L - 1
  BY ModRange
<1> HIDE DEF x
<1>2. QED
  BY <1>1 DEF Spot, x

\* A pick is a place of the list.
LEMMA SpotRange ==
    ASSUME NEW L \in Nat \ {0}, NEW n \in Nat, NEW b \in 1..L
    PROVE  Spot(n, b, L) \in 1..L
<1> DEFINE x == n % L
<1>1. x \in 0..L - 1
  BY ModRange
<1> HIDE DEF x
<1>2. QED
  BY <1>1 DEF Spot, x

\* Steps of requests move the counters; a pick from the combo as it is goes to
\* the end of the run.
LEMMA CountKeeps ==
    ASSUME CombosInv, NEW q \in Requests, Count(q)
    PROVE  counter' \in 0..Cycle - 1 /\ seq' \in 0..Cycle - 1 /\ run' \in Seq(Models) /\ Rotates'
<1> DEFINE c == req[q].combo
           L == Len(cache.models)
<1>0. /\ c \in Known /\ c.strategy = "round_robin" /\ cache \in Known /\ run \in Seq(Models)
      /\ counter \in 0..Cycle - 1 /\ seq \in 0..Cycle - 1 /\ cache' = cache
  BY DEF CombosInv, TypeOK, Walks, CountOK, Count, Request, registry
<1>1. (counter + 1) % Cycle \in 0..Cycle - 1 /\ (seq + 1) % Cycle \in 0..Cycle - 1
  <2>1. Cycle \in Nat \ {0}
    BY CycleAssumption
  <2>2. counter + 1 \in Nat /\ seq + 1 \in Nat
    BY <1>0, <2>1
  <2>3. ASSUME NEW n \in Nat
        PROVE  n % Cycle \in 0..Cycle - 1
    <3>1. n % Cycle \in Nat /\ n % Cycle < Cycle
      BY <2>1, ModRange
    <3>2. QED
      BY <2>1, <3>1
  <2>4. QED
    BY <2>2, <2>3, Zenon
<1>2. CASE run' = <<>> /\ counter' \in 0..Cycle - 1 /\ seq' \in 0..Cycle - 1
  <2>1. cache.strategy = "round_robin" => L \in Nat
    BY <1>0, KnownFacts
  <2>2. QED
    BY <1>0, <1>2, <2>1 DEF Rotates
<1>3. CASE /\ c = cache /\ counter' = (counter + 1) % Cycle /\ seq' = seq
           /\ run' = IF Len(run) >= Len(c.models) THEN <<Choice(c, counter)>>
                     ELSE Append(run, Choice(c, counter))
  <2>1. L \in Nat \ {0} /\ Cycle % L = 0 /\ cache.models \in Seq(Models)
    BY <1>0, <1>3, KnownFacts
  <2>2. Choice(c, counter) \in Models /\ Choice(c, counter) = cache.models[(counter % L) + 1]
    BY <1>0, <1>3, ChoiceType DEF Choice
  <2>3. /\ Choice(c, counter) = cache.models[Spot(counter', 1, L)]
        /\ \A back \in 1..L - 1 : Spot(counter', back + 1, L) = Spot(counter, back, L)
    BY <1>0, <1>3, <2>1, <2>2, SpotMoves
  <2> DEFINE m == Choice(c, counter)
  <2> HIDE DEF m, L, c
  <2>4. run' \in Seq(Models)
    BY <1>0, <1>3, <2>2 DEF m, c
  <2>5. CASE Len(run) >= L
    <3>1. run' = <<m>>
      BY <1>3, <2>5 DEF m, L, c
    <3>2. Len(run') = 1 /\ run'[1] = m
      BY <3>1
    <3>3. Len(run') <= L /\ \A i \in 1..Len(run') :
             run'[i] = cache.models[Spot(counter', Len(run') - i + 1, L)]
      BY <2>1, <2>3, <3>2 DEF m
    <3>4. QED
      BY <1>0, <1>1, <1>3, <2>4, <3>3 DEF Rotates, L
  <2>6. CASE ~(Len(run) >= L)
    <3>1. run' = Append(run, m)
      BY <1>3, <2>6 DEF m, L, c
    <3>2. /\ Len(run') = Len(run) + 1 /\ run'[Len(run) + 1] = m
          /\ \A i \in 1..Len(run) : run'[i] = run[i]
      BY <1>0, <2>2, <3>1 DEF m
    <3>3. \A i \in 1..Len(run) : run[i] = cache.models[Spot(counter, Len(run) - i + 1, L)]
      BY <1>0, <1>3 DEF CombosInv, Rotates, L, c
    <3>4. Len(run) \in Nat /\ Len(run) < L
      BY <1>0, <2>1, <2>6
    <3>5. ASSUME NEW i \in 1..Len(run)
          PROVE  run'[i] = cache.models[Spot(counter', Len(run') - i + 1, L)]
      <4>1. Len(run) - i + 1 \in 1..L - 1 /\ Len(run') - i + 1 = (Len(run) - i + 1) + 1
        BY <2>1, <3>2, <3>4
      <4>2. QED
        BY <2>3, <3>2, <3>3, <4>1
    <3>6. run'[Len(run')] = cache.models[Spot(counter', Len(run') - Len(run') + 1, L)]
      BY <2>3, <3>2, <3>4 DEF m
    <3>7. Len(run') <= L /\ \A i \in 1..Len(run') :
             run'[i] = cache.models[Spot(counter', Len(run') - i + 1, L)]
      BY <2>1, <3>2, <3>4, <3>5, <3>6
    <3>8. QED
      BY <1>0, <1>1, <1>3, <2>4, <3>7 DEF Rotates, L
  <2>7. QED
    BY <2>5, <2>6
<1>4. QED
  BY <1>0, <1>1, <1>2, <1>3 DEF Count

\* Everything but the requests' records is kept by the other steps of requests.
LEMMA RequestRest ==
    ASSUME CombosInv, NEW q \in Requests,
           Arrive(q) \/ Check(q) \/ ReadList(q) \/ Walk(q) \/ WalkNothing(q) \/ Send(q) \/ Leave(q)
    PROVE  UNCHANGED <<cache, stored, custom, hash, counter, seq, run, adm>>
BY DEF Arrive, Check, ReadList, Walk, WalkNothing, Send, Leave, registry

\* An administrator's step: the registries stay typed, and with one administrator
\* what is in the caches is in Redis or about to follow it.
LEMMA AdminKeeps ==
    ASSUME CombosInv, NEW a \in Admins, Post(a) \/ HDel(a) \/ PostName(a) \/ AdminStep(a)
    PROVE  TypeOK' /\ Walks' /\ Rotates' /\ Persists'
<1>0. /\ TypeOK /\ adm \in [Admins -> Admin] /\ adm[a] \in Admin /\ adm[a].combo \in Known
      /\ adm[a].bind \in Bindings \cup {Unbound}
  BY DEF CombosInv, TypeOK, Admin
<1>p. /\ OneAdmin => \A b \in Admins : b = a
      /\ OneAdmin => cache = stored \/ adm[a].pc \in {"add", "del", "delete"}
      /\ OneAdmin => custom = hash \/ adm[a].pc = "setName"
      /\ OneAdmin /\ adm[a].pc = "add" => stored = adm[a].combo
      /\ OneAdmin /\ adm[a].pc \in {"del", "delete"} => stored = NoCombo
      /\ OneAdmin /\ adm[a].pc = "setName" => hash = adm[a].bind
  BY DEF CombosInv, Persists, OneAdmin
<1>w. Walks
  BY DEF CombosInv
<1>z. /\ cache' \in Known /\ run' = <<>> => Rotates'
      /\ cache' = cache /\ counter' = counter /\ run' = run => Rotates'
  <2>1. ASSUME cache' \in Known, run' = <<>>  PROVE Rotates'
    <3>1. cache'.models \in Seq(Models)
      BY <2>1, KnownFacts
    <3>2. QED
      BY <2>1, <3>1 DEF Rotates
  <2>2. QED
    BY <2>1 DEF CombosInv, Rotates
<1>1. CASE Post(a)
  <2>1. PICK c \in Known : Go(a, "hset", c)
    BY <1>1 DEF Post, Known
  <2>2. UNCHANGED <<cache, stored, custom, hash, counter, seq, run, req>>
    BY <1>1 DEF Post, registry
  <2>3. adm' \in [Admins -> Admin] /\ adm'[a].pc = "hset" /\ adm[a].pc = "idle"
    BY <1>0, <1>1, <2>1, GoType DEF Post
  <2>4. TypeOK' /\ Walks' /\ Rotates'
    BY <1>0, <1>w, <1>z, <2>2, <2>3 DEF TypeOK, Walks
  <2>5. Persists'
    BY <1>p, <2>2, <2>3 DEF Persists
  <2>6. QED
    BY <2>4, <2>5
<1>2. CASE SaveCombo(a)
  <2>1. UNCHANGED <<cache, custom, hash, counter, seq, run, req>> /\ adm[a].pc = "hset"
    BY <1>2 DEF SaveCombo
  <2>2. CASE stored' = adm[a].combo /\ Go(a, "add", adm[a].combo)
    <3>1. adm' \in [Admins -> Admin] /\ adm'[a].pc = "add" /\ adm'[a].combo = adm[a].combo
      BY <1>0, <2>2, GoType
    <3>2. TypeOK' /\ Walks' /\ Rotates'
      BY <1>0, <1>w, <1>z, <2>1, <2>2, <3>1 DEF TypeOK, Walks
    <3>3. Persists'
      BY <1>p, <2>1, <2>2, <3>1 DEF Persists
    <3>4. QED
      BY <3>2, <3>3
  <2>3. CASE stored' = stored /\ Go(a, "idle", NoCombo)
    <3>1. adm' \in [Admins -> Admin] /\ adm'[a].pc = "idle"
      BY <1>0, <2>3, GoType, Blanks
    <3>2. TypeOK' /\ Walks' /\ Rotates'
      BY <1>0, <1>w, <1>z, <2>1, <2>3, <3>1 DEF TypeOK, Walks
    <3>3. Persists'
      BY <1>p, <2>1, <2>3, <3>1 DEF Persists
    <3>4. QED
      BY <3>2, <3>3
  <2>4. QED
    BY <1>2, <2>2, <2>3 DEF SaveCombo
<1>3. CASE AddCombo(a)
  <2>1. /\ adm[a].pc = "add" /\ cache' = adm[a].combo /\ run' = <<>> /\ Go(a, "idle", NoCombo)
        /\ UNCHANGED <<stored, custom, hash, counter, seq, req>>
    BY <1>3 DEF AddCombo
  <2>2. adm' \in [Admins -> Admin] /\ adm'[a].pc = "idle"
    BY <1>0, <2>1, GoType, Blanks
  <2>3. TypeOK' /\ Walks' /\ Rotates'
    BY <1>0, <1>w, <1>z, <2>1, <2>2 DEF TypeOK, Walks
  <2>4. Persists'
    BY <1>p, <2>1, <2>2 DEF Persists
  <2>5. QED
    BY <2>3, <2>4
<1>4. CASE HDel(a)
  <2>1. UNCHANGED <<cache, custom, hash, counter, seq, run, req>> /\ adm[a].pc = "idle"
    BY <1>4 DEF HDel
  <2>2. CASE stored' = NoCombo /\ Go(a, "del", NoCombo)
    <3>1. adm' \in [Admins -> Admin] /\ adm'[a].pc = "del"
      BY <1>0, <2>2, GoType, Blanks
    <3>2. TypeOK' /\ Walks' /\ Rotates'
      BY <1>0, <1>w, <1>z, <2>1, <2>2, <3>1, Blanks DEF TypeOK, Walks
    <3>3. Persists'
      BY <1>p, <2>1, <2>2, <3>1 DEF Persists
    <3>4. QED
      BY <3>2, <3>3
  <2>3. CASE UNCHANGED <<stored, adm>>
    <3>1. TypeOK' /\ Walks' /\ Rotates'
      BY <1>0, <1>w, <1>z, <2>1, <2>3 DEF TypeOK, Walks
    <3>2. Persists'
      BY <2>1, <2>3 DEF CombosInv, Persists
    <3>3. QED
      BY <3>1, <3>2
  <2>4. QED
    BY <1>4, <2>2, <2>3 DEF HDel
<1>5. CASE DelCounter(a)
  <2>1. /\ adm[a].pc = "del" /\ counter' \in {0, counter} /\ run' = <<>> /\ Go(a, "delete", NoCombo)
        /\ UNCHANGED <<cache, stored, custom, hash, seq, req>>
    BY <1>5 DEF DelCounter, registry
  <2>2. adm' \in [Admins -> Admin] /\ adm'[a].pc = "delete"
    BY <1>0, <2>1, GoType, Blanks
  <2>3. TypeOK' /\ Walks' /\ Rotates'
    BY <1>0, <1>w, <1>z, <2>1, <2>2, CycleAssumption DEF TypeOK, Walks
  <2>4. Persists'
    BY <1>p, <2>1, <2>2 DEF Persists
  <2>5. QED
    BY <2>3, <2>4
<1>6. CASE DeleteCombo(a)
  <2>1. /\ adm[a].pc = "delete" /\ cache' = NoCombo /\ run' = <<>> /\ Go(a, "idle", NoCombo)
        /\ UNCHANGED <<stored, custom, hash, counter, seq, req>>
    BY <1>6 DEF DeleteCombo
  <2>2. adm' \in [Admins -> Admin] /\ adm'[a].pc = "idle"
    BY <1>0, <2>1, GoType, Blanks
  <2>3. TypeOK' /\ Walks' /\ Rotates'
    BY <1>0, <1>w, <1>z, <2>1, <2>2, Blanks DEF TypeOK, Walks
  <2>4. Persists'
    BY <1>p, <2>1, <2>2 DEF Persists
  <2>5. QED
    BY <2>3, <2>4
<1>7. CASE PostName(a)
  <2>1. /\ UNCHANGED <<cache, stored, custom, hash, counter, seq, run, req>> /\ adm[a].pc = "idle"
        /\ \E b \in Bindings \cup {Unbound} :
              adm' = [adm EXCEPT ![a] = [NoAdmin EXCEPT !.pc = "hsetName", !.bind = b]]
    BY <1>7 DEF PostName, registry
  <2>2. adm' \in [Admins -> Admin] /\ adm'[a].pc = "hsetName"
    <3>1. PICK b \in Bindings \cup {Unbound} :
             adm' = [adm EXCEPT ![a] = [NoAdmin EXCEPT !.pc = "hsetName", !.bind = b]]
      BY <2>1
    <3> DEFINE n == [NoAdmin EXCEPT !.pc = "hsetName", !.bind = b]
    <3>2. n \in Admin /\ n.pc = "hsetName"
      BY Blanks DEF Admin
    <3> HIDE DEF n
    <3>3. QED
      BY <1>0, <3>1, <3>2 DEF n
  <2>3. TypeOK' /\ Walks' /\ Rotates'
    BY <1>0, <1>w, <1>z, <2>1, <2>2 DEF TypeOK, Walks
  <2>4. Persists'
    BY <1>p, <2>1, <2>2 DEF Persists
  <2>5. QED
    BY <2>3, <2>4
<1>8. CASE SaveName(a)
  <2>1. UNCHANGED <<cache, stored, custom, counter, seq, run, req>> /\ adm[a].pc = "hsetName"
    BY <1>8 DEF SaveName
  <2>2. CASE hash' = adm[a].bind /\ adm' = [adm EXCEPT ![a].pc = "setName"]
    <3>1. adm' \in [Admins -> Admin] /\ adm'[a].pc = "setName" /\ adm'[a].bind = adm[a].bind
      BY <1>0, <2>2 DEF Admin
    <3>2. TypeOK' /\ Walks' /\ Rotates'
      BY <1>0, <1>w, <1>z, <2>1, <2>2, <3>1 DEF TypeOK, Walks
    <3>3. Persists'
      BY <1>p, <2>1, <2>2, <3>1 DEF Persists
    <3>4. QED
      BY <3>2, <3>3
  <2>3. CASE hash' = hash /\ Go(a, "idle", NoCombo)
    <3>1. adm' \in [Admins -> Admin] /\ adm'[a].pc = "idle"
      BY <1>0, <2>3, GoType, Blanks
    <3>2. TypeOK' /\ Walks' /\ Rotates'
      BY <1>0, <1>w, <1>z, <2>1, <2>3, <3>1 DEF TypeOK, Walks
    <3>3. Persists'
      BY <1>p, <2>1, <2>3, <3>1 DEF Persists
    <3>4. QED
      BY <3>2, <3>3
  <2>4. QED
    BY <1>8, <2>2, <2>3 DEF SaveName
<1>9. CASE SetName(a)
  <2>1. /\ adm[a].pc = "setName" /\ custom' = adm[a].bind /\ Go(a, "idle", NoCombo)
        /\ UNCHANGED <<cache, stored, hash, counter, seq, run, req>>
    BY <1>9 DEF SetName
  <2>2. adm' \in [Admins -> Admin] /\ adm'[a].pc = "idle"
    BY <1>0, <2>1, GoType, Blanks
  <2>3. TypeOK' /\ Walks' /\ Rotates'
    BY <1>0, <1>w, <1>z, <2>1, <2>2 DEF TypeOK, Walks
  <2>4. Persists'
    BY <1>p, <2>1, <2>2 DEF Persists
  <2>5. QED
    BY <2>3, <2>4
<1>10. QED
  BY <1>1, <1>2, <1>3, <1>4, <1>5, <1>6, <1>7, <1>8, <1>9 DEF AdminStep

-----------------------------------------------------------------------------
\* The inductive invariant holds at the start.
LEMMA CombosInit == Init => CombosInv
<1> SUFFICES ASSUME Init PROVE CombosInv
  OBVIOUS
<1>1. TypeOK
  BY Blanks, CycleAssumption DEF Init, TypeOK
<1>2. Walks
  BY Blanks DEF Init, Walks, WalkOK, EffortOK, CountOK
<1>3. Rotates /\ Persists
  BY Blanks DEF Init, Rotates, Persists, NoAdmin
<1>4. QED
  BY <1>1, <1>2, <1>3 DEF CombosInv

\* Every step keeps it.
LEMMA CombosStep == CombosInv /\ [Next]_vars => CombosInv'
<1> SUFFICES ASSUME CombosInv, [Next]_vars PROVE CombosInv'
  OBVIOUS
<1>0. TypeOK /\ Walks /\ Rotates /\ Persists
  BY DEF CombosInv
<1>1. ASSUME NEW q \in Requests, Arrive(q) \/ RequestStep(q) \/ Leave(q)
      PROVE  CombosInv'
  <2>1. req' \in [Requests -> Request] /\ Walks'
    BY <1>0, <1>1, RequestKeeps
  <2>2. CASE Count(q)
    <3>1. UNCHANGED <<cache, stored, custom, hash, adm>>
      BY <2>2 DEF Count, registry
    <3>2. TypeOK'
      BY <1>0, <2>1, <2>2, <3>1, CountKeeps DEF TypeOK
    <3>3. Persists'
      BY <1>0, <3>1 DEF Persists
    <3>4. QED
      BY <2>1, <2>2, <3>2, <3>3, CountKeeps DEF CombosInv
  <2>3. CASE ~Count(q)
    <3>1. UNCHANGED <<cache, stored, custom, hash, counter, seq, run, adm>>
      BY <1>1, <2>3, RequestRest DEF RequestStep
    <3>2. TypeOK' /\ Rotates'
      BY <1>0, <2>1, <3>1 DEF TypeOK, Rotates
    <3>3. Persists'
      BY <1>0, <3>1 DEF Persists
    <3>4. QED
      BY <2>1, <3>2, <3>3 DEF CombosInv
  <2>4. QED
    BY <2>2, <2>3
<1>2. ASSUME NEW a \in Admins, Post(a) \/ HDel(a) \/ PostName(a) \/ AdminStep(a)
      PROVE  CombosInv'
  BY <1>2, AdminKeeps DEF CombosInv
<1>3. CASE Restart
  <2>1. TypeOK'
    BY <1>0, <1>3, Blanks, CycleAssumption DEF Restart, TypeOK
  <2>2. Walks'
    BY <1>3, Blanks DEF Restart, Walks, WalkOK, EffortOK, CountOK
  <2>3. Rotates'
    <3>1. CASE stored = cache
      BY <1>0, <1>3, <3>1 DEF Restart, Rotates
    <3>2. CASE stored # cache
      <4>1. run' = <<>> /\ cache' \in Known
        BY <1>0, <1>3, <3>2 DEF Restart, TypeOK
      <4>2. cache'.models \in Seq(Models)
        BY <4>1, KnownFacts
      <4>3. QED
        BY <4>1, <4>2 DEF Rotates
    <3>3. QED
      BY <3>1, <3>2
  <2>4. Persists'
    BY <1>3 DEF Restart, Persists, NoAdmin
  <2>5. QED
    BY <2>1, <2>2, <2>3, <2>4 DEF CombosInv
<1>4. CASE UNCHANGED vars
  <2>1. UNCHANGED <<cache, stored, custom, hash, counter, seq, run, req, adm>>
    BY <1>4 DEF vars, registry
  <2>2. TypeOK' /\ Walks' /\ Rotates' /\ Persists'
    BY <1>0, <2>1 DEF TypeOK, Walks, Rotates, Persists
  <2>3. QED
    BY <2>2 DEF CombosInv
<1>5. QED
  BY <1>1, <1>2, <1>3, <1>4 DEF Next

\* Spec keeps the inductive invariant.
THEOREM Invariance == Spec => []CombosInv
BY CombosInit, CombosStep, PTL DEF Spec

\* README.md:419 "cluster-safe fair rotation", for any number of concurrent
\* requests and every list whose length divides the counter's cycle: as many
\* picks in a row as the list is long, from wherever Redis's counter stands,
\* are of different models.
THEOREM RotationIsFair == Spec => []RotationExact
<1>1. CombosInv => RotationExact
  <2> SUFFICES ASSUME CombosInv, cache.strategy = "round_robin", IsInjective(cache.models),
                      NEW i \in DOMAIN run, NEW j \in DOMAIN run, run[i] = run[j]
               PROVE  i = j
    BY DEF RotationExact, IsInjective
  <2> DEFINE L == Len(cache.models)
             n == Len(run)
  <2>1. /\ cache \in Known /\ run \in Seq(Models) /\ counter \in Nat
    BY CycleAssumption DEF CombosInv, TypeOK
  <2>2. L \in Nat \ {0} /\ cache.models \in Seq(Models)
    BY <2>1, KnownFacts
  <2>3. n \in Nat /\ i \in 1..n /\ j \in 1..n
    BY <2>1
  <2>4. n <= L /\ \A k \in 1..n : run[k] = cache.models[Spot(counter, n - k + 1, L)]
    BY DEF CombosInv, Rotates
  <2>5. n - i + 1 \in 1..L /\ n - j + 1 \in 1..L
    BY <2>2, <2>3, <2>4
  <2>6. Spot(counter, n - i + 1, L) \in 1..L /\ Spot(counter, n - j + 1, L) \in 1..L
    BY <2>1, <2>2, <2>5, SpotRange
  <2>7. Spot(counter, n - i + 1, L) = Spot(counter, n - j + 1, L)
    <3> DEFINE x == Spot(counter, n - i + 1, L)
               y == Spot(counter, n - j + 1, L)
    <3>1. run[i] = cache.models[x] /\ run[j] = cache.models[y]
      BY <2>3, <2>4
    <3> HIDE DEF x, y
    <3>2. x \in DOMAIN cache.models /\ y \in DOMAIN cache.models
      BY <2>2, <2>6 DEF x, y
    <3>3. x = y
      BY <3>1, <3>2 DEF IsInjective
    <3>4. QED
      BY <3>3 DEF x, y
  <2>8. n - i + 1 = n - j + 1
    BY <2>1, <2>2, <2>5, <2>7, SpotsDiffer
  <2>9. QED
    BY <2>3, <2>8
<1>2. QED
  BY <1>1, Invariance, PTL

\* A walk keeps its word whatever administrators do to the combo meanwhile: the
\* candidates of one list in its order, none after an answer that is not the
\* upstream's failure, a failure for the client only after all of them, and one
\* effort for the body they share.
THEOREM WalksAreComplete == Spec => []WalkIsComplete
<1>1. CombosInv => WalkIsComplete
  <2> SUFFICES ASSUME CombosInv, NEW q \in Requests
               PROVE  LET r == req[q]
                          t == r.tried
                      IN  /\ r.pc = "done" /\ r.walk /\ t # <<>> =>
                               /\ IsPrefix(Names(t), r.combo.models)
                               /\ \A i \in 1..Len(t) - 1 : t[i].status = "5xx"
                               /\ Last(t).status = "5xx" => Len(t) = Len(r.combo.models)
                          /\ \A i, j \in DOMAIN t :
                               i < j /\ t[i].effort # "unset" => t[j].effort = t[i].effort
    BY DEF WalkIsComplete
  <2> DEFINE r == req[q]
             t == r.tried
             ms == r.combo.models
  <2>1. t \in Seq(Calls) /\ r.combo \in Known /\ WalkOK(r) /\ EffortOK(r)
    BY DEF CombosInv, TypeOK, Walks, Request
  <2>2. ms \in Seq(Models)
    BY <2>1, KnownFacts
  <2>3. ASSUME r.pc = "done", r.walk, t # <<>>
        PROVE  /\ IsPrefix(Names(t), ms)
               /\ \A i \in 1..Len(t) - 1 : t[i].status = "5xx"
               /\ Last(t).status = "5xx" => Len(t) = Len(ms)
    <3>1. /\ Len(t) <= Len(ms) /\ \A i \in 1..Len(t) : t[i].name = ms[i]
          /\ \A i \in 1..Len(t) - 1 : t[i].status = "5xx"
          /\ Len(t) > 0 /\ t[Len(t)].status = "5xx" => Len(t) = Len(ms)
      BY <2>1, <2>3 DEF WalkOK
    <3> HIDE DEF t, ms, r
    <3>2. Len(t) \in Nat /\ Len(t) > 0 /\ Len(ms) \in Nat
      BY <2>1, <2>2, <2>3
    <3>3. Names(t) = SubSeq(ms, 1, Len(t))
      <4>1. Names(t) = [i \in 1..Len(t) |-> ms[i]]
        BY <2>1, <3>1 DEF Names
      <4>2. SubSeq(ms, 1, Len(t)) = [i \in 1..Len(t) |-> ms[i]]
        BY <2>2, <3>1, <3>2
      <4>3. QED
        BY <4>1, <4>2
    <3>4. /\ SubSeq(ms, 1, Len(t)) \in Seq(Models) /\ Len(SubSeq(ms, 1, Len(t))) = Len(t)
      BY <2>2, <3>1, <3>2, SubSeqProperties
    <3>5. SubSeq(Names(t), 1, Len(Names(t))) = Names(t) /\ Len(Names(t)) = Len(t)
      BY <3>3, <3>4, SubSeqFull
    <3>6. IsPrefix(Names(t), ms)
      BY <3>1, <3>3, <3>5 DEF IsPrefix
    <3>7. QED
      BY <3>1, <3>2, <3>6 DEF Last
  <2>4. ASSUME NEW i \in DOMAIN t, NEW j \in DOMAIN t, i < j, t[i].effort # "unset"
        PROVE  t[j].effort = t[i].effort
    BY <2>1, <2>4 DEF EffortOK
  <2>5. QED
    BY <2>3, <2>4
<1>2. QED
  BY <1>1, Invariance, PTL

\* combo.go:185 "Cache is updated only after the Redis write succeeds so a
\* persistence error does not silently diverge the in-memory view", as it holds
\* with administrators one at a time: at rest both registries agree with Redis,
\* whatever commands failed and wherever the process was restarted.
THEOREM RegistryIsPersisted ==
    ASSUME OneAdmin
    PROVE  Spec => []RegistryPersisted
<1>1. CombosInv => RegistryPersisted
  BY OneAdmin DEF CombosInv, Persists, RegistryPersisted
<1>2. QED
  BY <1>1, Invariance, PTL

-----------------------------------------------------------------------------
(***************************************************************************)
(* AnthropicMessages: one message for the client, and the whole answer     *)
(***************************************************************************)

\* The types of the writer and of what it sends.
ToolBlock == [block : Nat, name : BOOLEAN, started : BOOLEAN, closed : BOOLEAN]

EventTypes == {"message_start", "start", "delta", "stop", "message_stop",
               "tool_use", "max_tokens", "stop_sequence", "end_turn"}

EventRecord == [type : EventTypes, block : Int, piece : Nat]

StreamWriter ==
    [started : BOOLEAN, textOpen : BOOLEAN, textClosed : BOOLEAN, stopped : BOOLEAN,
     finish : Finishes \cup {""}, next : Nat \ {0}, tools : [Indexes -> ToolBlock],
     sent : Seq(EventRecord)]

\* The blocks the writer has begun, and the ones it has ended.
Opened(w) ==
    (IF w.textOpen THEN {0} ELSE {})
    \cup {w.tools[x].block : x \in {y \in Indexes : w.tools[y].started}}

Closed(w) ==
    (IF w.textClosed THEN {0} ELSE {})
    \cup {w.tools[x].block : x \in {y \in Indexes : w.tools[y].closed}}

\* What was sent has one start for each block of opened, one stop for each of
\* closed, both in their order, deltas after the start and, for a block of
\* strict, before the stop.
Shape(sent, opened, closed, strict) ==
    \A b \in Nat :
        LET starts == Events(sent, "start", b)
            stops == Events(sent, "stop", b)
            deltas == Events(sent, "delta", b)
        IN  /\ starts # {} <=> b \in opened
            /\ stops # {} <=> b \in closed
            /\ \A i, j \in starts : i = j
            /\ \A i, j \in stops : i = j
            /\ \A i \in stops \cup deltas : \E j \in starts : j < i
            /\ b \in strict => \A i \in deltas, j \in stops : i < j

\* The blocks whose deltas end with them: all but, at times, that of the text.
Strict(ls) == {b \in Nat : b # 0 \/ TextFirst(ls)}

\* message_start comes first, and the writer knows whether it was sent.
Framed(w) ==
    /\ w.started <=> w.sent # <<>>
    /\ \A i \in DOMAIN w.sent : (w.sent[i].type = "message_start") <=> (i = 1)

\* A call that was seen has a block number of its own.
Numbered(w) ==
    /\ \A x \in Indexes : /\ w.tools[x].block < w.next
                          /\ w.tools[x].started => w.tools[x].block # 0
                          /\ w.tools[x].closed => w.tools[x].started
    /\ \A x, y \in Indexes :
          x # y /\ w.tools[x].block # 0 => w.tools[x].block # w.tools[y].block

\* Until the message is ended no call is, ...
Going(w) ==
    /\ \A x \in Indexes : ~w.tools[x].closed
    /\ \A i \in DOMAIN w.sent : w.sent[i].type # "message_stop"

\* ... and then every block is, and message_stop is last, after the reason.
Over(w) ==
    /\ Closed(w) = Opened(w)
    /\ Len(w.sent) >= 2
    /\ w.sent[Len(w.sent) - 1].type = mapStopReason(w.finish)
    /\ \A i \in DOMAIN w.sent : (w.sent[i].type = "message_stop") <=> (i = Len(w.sent))
    /\ w.sent[Len(w.sent)].block = -1

\* What the writer has sent of an answer.
Heard(w, ls) ==
    /\ Gets(w.sent, 0, TextOf(ls))
    /\ \A x \in Indexes :
          /\ w.tools[x].block # 0 <=> x \in CallsOf(ls)
          /\ Named(ls, x) => w.tools[x].started /\ Gets(w.sent, w.tools[x].block, ArgsOf(ls, x))
    /\ w.finish = FinishOf(ls)

\* The text was ended for a call that came, or with the message.
Mixed(w, ls) == w.textClosed /\ ~w.stopped => \E n \in DOMAIN ls : ls[n].call # NoCall

\* The types, and what holds of the events also within a line.
Core(w, strict) ==
    /\ w \in StreamWriter
    /\ Framed(w)
    /\ Numbered(w)
    /\ Shape(w.sent, Opened(w), Closed(w), strict)

\* The writer after the lines ls.
Writing(w, ls) ==
    /\ Core(w, Strict(ls))
    /\ IF w.stopped THEN Over(w) ELSE Going(w)
    /\ Heard(w, ls)
    /\ Mixed(w, ls)

\* The inductive invariant.
MessagesInv ==
    /\ lines \in Seq(Lines)
    /\ stage \in {"request", "translated", "stream", "batch", "end"}
    /\ stage \in {"request", "translated"} => lines = <<>>
    /\ stage # "end" => answer = Unanswered
    /\ stage \in {"request", "translated", "batch"} => sw = newStreamWriter
    /\ stage = "stream" => /\ Writing(sw, lines)
                           /\ sw.stopped <=> IsDone(lines)
                           /\ lines = <<>> => ~sw.started
    /\ stage = "end" => \/ answer = Streamed /\ Writing(sw, lines) /\ sw.stopped
                        \/ answer = Failed /\ sw.sent = <<>>
                        \/ answer = Response /\ sw.sent = <<>>

-----------------------------------------------------------------------------
\* The events of a sequence that grows by one event.
LEMMA EventsAppend ==
    ASSUME NEW s \in Seq(EventRecord), NEW e \in EventRecord, NEW t, NEW b
    PROVE  /\ Events(Append(s, e), t, b) =
                 IF e.type = t /\ e.block = b THEN Events(s, t, b) \cup {Len(s) + 1}
                 ELSE Events(s, t, b)
           /\ Append(s, e) \in Seq(EventRecord)
           /\ Append(s, e)[Len(s) + 1] = e
           /\ \A i \in DOMAIN s : Append(s, e)[i] = s[i]
           /\ DOMAIN Append(s, e) = DOMAIN s \cup {Len(s) + 1}
           /\ \A i \in Events(s, t, b) : i \in DOMAIN s /\ i \in Nat /\ i < Len(s) + 1
<1>1. /\ DOMAIN s = 1..Len(s) /\ Len(s) \in Nat
      /\ Len(Append(s, e)) = Len(s) + 1
      /\ DOMAIN Append(s, e) = 1..(Len(s) + 1)
      /\ Append(s, e) \in Seq(EventRecord)
  OBVIOUS
<1>2. DOMAIN Append(s, e) = DOMAIN s \cup {Len(s) + 1}
  BY <1>1
<1>3. Append(s, e)[Len(s) + 1] = e /\ \A i \in DOMAIN s : Append(s, e)[i] = s[i]
  BY <1>1
<1>4. \A i \in Events(s, t, b) : i \in DOMAIN s /\ i \in Nat /\ i < Len(s) + 1
  BY <1>1 DEF Events
<1>5. Len(s) + 1 \notin DOMAIN s
  BY <1>1
<1>6. Events(Append(s, e), t, b) =
          IF e.type = t /\ e.block = b THEN Events(s, t, b) \cup {Len(s) + 1}
          ELSE Events(s, t, b)
  BY <1>2, <1>3, <1>5 DEF Events
<1>7. QED
  BY <1>1, <1>2, <1>3, <1>4, <1>6

\* An event is what it was made of.
LEMMA EventFields ==
    ASSUME NEW t \in EventTypes, NEW b \in Int, NEW n \in Nat
    PROVE  /\ Event(t, b, n) \in EventRecord
           /\ Event(t, b, n).type = t /\ Event(t, b, n).block = b /\ Event(t, b, n).piece = n
BY DEF Event, EventRecord

\* An event that is no start, stop or delta leaves the shape.
LEMMA ShapeOther ==
    ASSUME NEW s \in Seq(EventRecord), NEW O, NEW C, NEW K, Shape(s, O, C, K),
           NEW e \in EventRecord, e.type \notin {"start", "stop", "delta"}
    PROVE  Shape(Append(s, e), O, C, K)
<1>1. \A b \in Nat : \A t \in {"start", "stop", "delta"} :
          Events(Append(s, e), t, b) = Events(s, t, b)
  BY EventsAppend
<1>2. QED
  BY <1>1 DEF Shape

\* A start of a block that has none.
LEMMA ShapeStart ==
    ASSUME NEW s \in Seq(EventRecord), NEW O, NEW C, NEW K, Shape(s, O, C, K),
           NEW e \in EventRecord, e.type = "start", e.block \notin O
    PROVE  Shape(Append(s, e), O \cup {e.block}, C, K)
<1> SUFFICES ASSUME NEW b \in Nat
             PROVE  LET starts == Events(Append(s, e), "start", b)
                        stops == Events(Append(s, e), "stop", b)
                        deltas == Events(Append(s, e), "delta", b)
                    IN  /\ starts # {} <=> b \in O \cup {e.block}
                        /\ stops # {} <=> b \in C
                        /\ \A i, j \in starts : i = j
                        /\ \A i, j \in stops : i = j
                        /\ \A i \in stops \cup deltas : \E j \in starts : j < i
                        /\ b \in K => \A i \in deltas, j \in stops : i < j
  BY DEF Shape
<1>1. /\ Events(Append(s, e), "stop", b) = Events(s, "stop", b)
      /\ Events(Append(s, e), "delta", b) = Events(s, "delta", b)
      /\ Events(Append(s, e), "start", b) =
            IF b = e.block THEN Events(s, "start", b) \cup {Len(s) + 1} ELSE Events(s, "start", b)
  BY EventsAppend
<1>2. b = e.block => Events(s, "start", b) = {}
  BY DEF Shape
<1>3. QED
  BY <1>1, <1>2 DEF Shape

\* A stop of a block that is open.
LEMMA ShapeStop ==
    ASSUME NEW s \in Seq(EventRecord), NEW O, NEW C, NEW K, Shape(s, O, C, K),
           NEW e \in EventRecord, e.type = "stop", e.block \in O, e.block \notin C
    PROVE  Shape(Append(s, e), O, C \cup {e.block}, K)
<1> SUFFICES ASSUME NEW b \in Nat
             PROVE  LET starts == Events(Append(s, e), "start", b)
                        stops == Events(Append(s, e), "stop", b)
                        deltas == Events(Append(s, e), "delta", b)
                    IN  /\ starts # {} <=> b \in O
                        /\ stops # {} <=> b \in C \cup {e.block}
                        /\ \A i, j \in starts : i = j
                        /\ \A i, j \in stops : i = j
                        /\ \A i \in stops \cup deltas : \E j \in starts : j < i
                        /\ b \in K => \A i \in deltas, j \in stops : i < j
  BY DEF Shape
<1>1. /\ Events(Append(s, e), "start", b) = Events(s, "start", b)
      /\ Events(Append(s, e), "delta", b) = Events(s, "delta", b)
      /\ Events(Append(s, e), "stop", b) =
            IF b = e.block THEN Events(s, "stop", b) \cup {Len(s) + 1} ELSE Events(s, "stop", b)
      /\ \A i \in Events(s, "start", b) \cup Events(s, "delta", b) : i < Len(s) + 1
  BY EventsAppend
<1>2. b = e.block => Events(s, "stop", b) = {} /\ Events(s, "start", b) # {}
  BY DEF Shape
<1>3. QED
  BY <1>1, <1>2 DEF Shape

\* A delta of a block that is open, or that may have deltas after its end.
LEMMA ShapeDelta ==
    ASSUME NEW s \in Seq(EventRecord), NEW O, NEW C, NEW K, Shape(s, O, C, K),
           NEW e \in EventRecord, e.type = "delta", e.block \in O,
           e.block \in K => e.block \notin C
    PROVE  Shape(Append(s, e), O, C, K)
<1> SUFFICES ASSUME NEW b \in Nat
             PROVE  LET starts == Events(Append(s, e), "start", b)
                        stops == Events(Append(s, e), "stop", b)
                        deltas == Events(Append(s, e), "delta", b)
                    IN  /\ starts # {} <=> b \in O
                        /\ stops # {} <=> b \in C
                        /\ \A i, j \in starts : i = j
                        /\ \A i, j \in stops : i = j
                        /\ \A i \in stops \cup deltas : \E j \in starts : j < i
                        /\ b \in K => \A i \in deltas, j \in stops : i < j
  BY DEF Shape
<1>1. /\ Events(Append(s, e), "start", b) = Events(s, "start", b)
      /\ Events(Append(s, e), "stop", b) = Events(s, "stop", b)
      /\ Events(Append(s, e), "delta", b) =
            IF b = e.block THEN Events(s, "delta", b) \cup {Len(s) + 1} ELSE Events(s, "delta", b)
      /\ \A i \in Events(s, "start", b) : i < Len(s) + 1
  BY EventsAppend
<1>2. /\ b = e.block => Events(s, "start", b) # {}
      /\ b = e.block /\ b \in K => Events(s, "stop", b) = {}
  BY DEF Shape
<1>3. QED
  BY <1>1, <1>2 DEF Shape

\* Fewer blocks may be strict.
LEMMA ShapeLoosens ==
    ASSUME NEW s, NEW O, NEW C, NEW K, NEW L, L \subseteq K, Shape(s, O, C, K)
    PROVE  Shape(s, O, C, L)
BY DEF Shape

\* What a client gets for a block does not change with other events, ...
LEMMA GetsOther ==
    ASSUME NEW s \in Seq(EventRecord), NEW e \in EventRecord, NEW b, NEW P,
           e.type # "delta" \/ e.block # b, Gets(s, b, P)
    PROVE  Gets(Append(s, e), b, P)
<1>1. Events(Append(s, e), "delta", b) = Events(s, "delta", b)
  BY EventsAppend
<1>2. \A i \in Events(s, "delta", b) : Append(s, e)[i] = s[i]
  BY EventsAppend
<1>3. {Append(s, e)[i].piece : i \in Events(s, "delta", b)} =
      {s[i].piece : i \in Events(s, "delta", b)}
  BY <1>2
<1>4. \A i, j \in Events(s, "delta", b) : i < j => Append(s, e)[i].piece < Append(s, e)[j].piece
  BY <1>2 DEF Gets
<1>5. QED
  BY <1>1, <1>3, <1>4 DEF Gets

\* ... and grows with a delta of it.
LEMMA GetsMore ==
    ASSUME NEW s \in Seq(EventRecord), NEW e \in EventRecord, NEW P \in SUBSET Nat,
           e.type = "delta", \A p \in P : p < e.piece, Gets(s, e.block, P)
    PROVE  Gets(Append(s, e), e.block, P \cup {e.piece})
<1> DEFINE D == Events(s, "delta", e.block)
<1>1. /\ Events(Append(s, e), "delta", e.block) = D \cup {Len(s) + 1}
      /\ Append(s, e)[Len(s) + 1] = e
      /\ \A i \in D : Append(s, e)[i] = s[i] /\ i \in Nat /\ i < Len(s) + 1
  BY EventsAppend
<1>2. {s[i].piece : i \in D} = P /\ \A i, j \in D : i < j => s[i].piece < s[j].piece
  BY DEF Gets
<1>3. {Append(s, e)[i].piece : i \in D \cup {Len(s) + 1}} = P \cup {e.piece}
  <2>1. {Append(s, e)[i].piece : i \in D \cup {Len(s) + 1}} =
        {Append(s, e)[i].piece : i \in D} \cup {Append(s, e)[Len(s) + 1].piece}
    BY ONLY TRUE
  <2>2. {Append(s, e)[i].piece : i \in D} = {s[i].piece : i \in D}
    BY <1>1
  <2>3. QED
    BY <1>1, <1>2, <2>1, <2>2
<1>4. ASSUME NEW i \in D \cup {Len(s) + 1}, NEW j \in D \cup {Len(s) + 1}, i < j
      PROVE  Append(s, e)[i].piece < Append(s, e)[j].piece
  <2>1. i \in D
    BY <1>1, <1>4
  <2>2. CASE j \in D
    BY <1>1, <1>2, <1>4, <2>1, <2>2
  <2>3. CASE j = Len(s) + 1
    <3>1. s[i].piece \in P
      BY <1>2, <2>1
    <3>2. QED
      BY <1>1, <2>1, <2>3, <3>1
  <2>4. QED
    BY <2>2, <2>3
<1>5. QED
  BY <1>1, <1>3, <1>4 DEF Gets

-----------------------------------------------------------------------------
\* How many members of a set are not beyond one of them says which it is, so a
\* finite set of numbers can be counted upwards.
LEMMA UpwardsCounts ==
    ASSUME NEW S \in SUBSET Nat, IsFiniteSet(S)
    PROVE  /\ Upwards(S) \in [1..Cardinality(S) -> S]
           /\ Cardinality(S) \in Nat
           /\ \A i, j \in 1..Cardinality(S) : i # j => Upwards(S)[i] # Upwards(S)[j]
           /\ \A b \in S : \E i \in 1..Cardinality(S) : Upwards(S)[i] = b
           /\ \A i, j \in 1..Cardinality(S) : i < j => Upwards(S)[i] < Upwards(S)[j]
<1> DEFINE n == Cardinality(S)
           Below(x) == {y \in S : y <= x}
           rank == [x \in S |-> Cardinality(Below(x))]
<1>1. n \in Nat /\ IsFiniteSet(1..n) /\ Cardinality(1..n) = n
  BY FS_CardinalityType, FS_Interval
<1>2. \A x \in S : IsFiniteSet(Below(x)) /\ Cardinality(Below(x)) \in 1..n
  <2> TAKE x \in S
  <2>1. Below(x) \in SUBSET S
    OBVIOUS
  <2>2. IsFiniteSet(Below(x)) /\ Cardinality(Below(x)) <= n
    BY <2>1, FS_Subset
  <2>3. x \in Below(x)
    OBVIOUS
  <2>4. Cardinality(Below(x)) \in Nat /\ Cardinality(Below(x)) # 0
    BY <2>2, <2>3, FS_CardinalityType, FS_EmptySet
  <2>5. QED
    BY <1>1, <2>2, <2>4
<1>3. \A x, y \in S : x < y => Cardinality(Below(x)) < Cardinality(Below(y))
  <2> SUFFICES ASSUME NEW x \in S, NEW y \in S, x < y
               PROVE  Cardinality(Below(x)) < Cardinality(Below(y))
    OBVIOUS
  <2>1. Below(x) \in SUBSET Below(y)
    <3>1. x \in Nat /\ y \in Nat /\ \A z \in S : z \in Nat
      OBVIOUS
    <3>2. \A z \in S : z <= x => z <= y
      BY <3>1
    <3>3. QED
      BY <3>2
  <2>2. y \in Below(y) /\ y \notin Below(x)
    OBVIOUS
  <2>3. /\ Cardinality(Below(x)) <= Cardinality(Below(y))
        /\ Cardinality(Below(y)) = Cardinality(Below(x)) => Below(y) = Below(x)
    BY <1>2, <2>1, FS_Subset
  <2>4. Cardinality(Below(y)) # Cardinality(Below(x))
    BY <2>2, <2>3
  <2>5. Cardinality(Below(x)) \in Nat /\ Cardinality(Below(y)) \in Nat
    BY <1>1, <1>2
  <2>6. QED
    BY <2>3, <2>4, <2>5
<1>4. rank \in [S -> 1..n]
  BY <1>2
<1>5. \A x, y \in S : x < y => rank[x] < rank[y]
  BY <1>3
<1>6. \A x \in S : rank[x] \in Nat /\ x \in Nat
  BY <1>1, <1>4
<1> HIDE DEF rank
<1>7. \A x, y \in S : rank[x] = rank[y] => x = y
  BY <1>5, <1>6
<1>8. rank \in Injection(S, 1..n)
  BY <1>4, <1>7, Fun_IsInj
<1>9. rank \in Surjection(S, 1..n)
  BY <1>1, <1>8, FS_Injection
<1>10. \A i \in 1..n : \E x \in S : rank[x] = i
  BY <1>9, Fun_SurjectionProperties
<1> DEFINE s == [i \in 1..n |-> CHOOSE x \in S : rank[x] = i]
<1>11. s \in [1..n -> S] /\ \A i \in 1..n : rank[s[i]] = i
  BY <1>10
<1> HIDE DEF s
<1>12. \A i, j \in 1..n : i < j => s[i] < s[j]
  <2> SUFFICES ASSUME NEW i \in 1..n, NEW j \in 1..n, i < j
               PROVE  s[i] < s[j]
    OBVIOUS
  <2>1. s[i] \in S /\ s[j] \in S /\ rank[s[i]] = i /\ rank[s[j]] = j
    BY <1>11
  <2>2. s[i] \in Nat /\ s[j] \in Nat
    BY <1>6, <2>1
  <2>3. i # j /\ ~(j < i)
    BY <1>1
  <2>4. s[i] # s[j] /\ ~(s[j] < s[i])
    BY <1>5, <2>1, <2>3
  <2>5. QED
    BY <2>2, <2>4
<1>13. s \in SetToSeqs(S) /\ \A i, j \in DOMAIN s : i < j => s[i] < s[j]
  <2>1. \A i, j \in 1..n : i # j => s[i] # s[j]
    BY <1>11
  <2>2. QED
    BY <1>11, <1>12, <2>1 DEF SetToSeqs
<1>14. /\ Upwards(S) \in SetToSeqs(S)
       /\ \A i, j \in DOMAIN Upwards(S) : i < j => Upwards(S)[i] < Upwards(S)[j]
  BY <1>13 DEF Upwards
<1>15. /\ Upwards(S) \in [1..n -> S]
       /\ \A i, j \in 1..n : i # j => Upwards(S)[i] # Upwards(S)[j]
  BY <1>14 DEF SetToSeqs
<1>16. Upwards(S) \in Injection(1..n, S)
  BY <1>15, Fun_IsInj
<1>17. Upwards(S) \in Surjection(1..n, S)
  BY <1>1, <1>16, FS_Injection
<1>18. \A i, j \in 1..n : i < j => Upwards(S)[i] < Upwards(S)[j]
  BY <1>14, <1>15
<1>19. QED
  BY <1>1, <1>15, <1>17, <1>18, Fun_SurjectionProperties

\* So it has a greatest member, if it has any.
LEMMA MaxIsGreatest ==
    ASSUME NEW S \in SUBSET Nat, IsFiniteSet(S), S # {}
    PROVE  Max(S) \in S /\ \A y \in S : y <= Max(S)
<1>1. PICK n : n = Cardinality(S)
  OBVIOUS
<1>2. PICK u : u = Upwards(S)
  OBVIOUS
<1>3. /\ n \in Nat /\ u \in [1..n -> S]
      /\ \A b \in S : \E i \in 1..n : u[i] = b
      /\ \A i, j \in 1..n : i < j => u[i] < u[j]
  BY ONLY <1>1, <1>2, S \in SUBSET Nat, IsFiniteSet(S), UpwardsCounts
<1>4. n \in 1..n /\ u[n] \in S
  <2>1. PICK b : b \in S
    BY ONLY S # {}
  <2>2. PICK i : i \in 1..n
    BY ONLY <1>3, <2>1
  <2>3. n \in 1..n
    BY ONLY <1>3, <2>2
  <2>4. QED
    BY ONLY <1>3, <2>3
<1>5. \A i \in 1..n : i = n \/ i < n
  BY ONLY <1>3
<1>6. \A i \in 1..n : u[i] \in Nat /\ u[n] \in Nat
  BY ONLY <1>3, <1>4, S \in SUBSET Nat
<1>7. \A i \in 1..n : u[i] <= u[n]
  BY ONLY <1>3, <1>4, <1>5, <1>6
<1>8. \A y \in S : u[n] >= y
  <2> TAKE y \in S
  <2>1. PICK i \in 1..n : u[i] = y
    BY ONLY <1>3, y \in S
  <2>2. QED
    BY ONLY <1>6, <1>7, <2>1
<1>9. \E x \in S : \A y \in S : x >= y
  BY ONLY <1>4, <1>8
<1>10. Max(S) \in S /\ \A y \in S : Max(S) >= y
  BY ONLY <1>9 DEF Max
<1>11. QED
  BY ONLY <1>10, S \in SUBSET Nat

\* Several stops at once, of different blocks that are open.
AddStops(s, q) == s \o [i \in DOMAIN q |-> Event("stop", q[i], 0)]

\* u is s with m stops after it: it has the shape with closed blocks C.
StopsAdded(s, u, m, O, C, K) ==
    /\ u \in Seq(EventRecord) /\ Len(u) = Len(s) + m
    /\ \A i \in DOMAIN s : u[i] = s[i]
    /\ \A i \in DOMAIN u : i \in DOMAIN s \/ u[i].type = "stop"
    /\ Shape(u, O, C, K)
    /\ \A b : Events(u, "delta", b) = Events(s, "delta", b)

\* Stops for different open blocks end these blocks and no other.
LEMMA ShapeStops ==
    ASSUME NEW s \in Seq(EventRecord), NEW O, NEW C, NEW K, NEW m \in Nat,
           NEW D, \A b \in D : b \in Nat,
           NEW q \in [1..m -> D], \A i, j \in 1..m : i # j => q[i] # q[j],
           \A b \in D : \E i \in 1..m : q[i] = b,
           D \subseteq O, D \cap C = {}, Shape(s, O, C, K)
    PROVE  StopsAdded(s, AddStops(s, q), m, O, C \cup D, K)
<1> DEFINE v == [i \in 1..m |-> Event("stop", q[i], 0)]
           u == s \o v
<1>1. v \in Seq(EventRecord) /\ Len(v) = m /\ DOMAIN v = 1..m /\ DOMAIN q = 1..m
      /\ \A i \in 1..m : v[i].type = "stop" /\ v[i].block = q[i]
  <2>1. \A i \in 1..m : Event("stop", q[i], 0) \in EventRecord
                         /\ Event("stop", q[i], 0).type = "stop"
                         /\ Event("stop", q[i], 0).block = q[i]
    <3> TAKE i \in 1..m
    <3>1. q[i] \in D
      OBVIOUS
    <3>2. q[i] \in Int
      BY <3>1
    <3>3. "stop" \in EventTypes
      BY DEF EventTypes
    <3>4. QED
      BY <3>2, <3>3, EventFields
  <2>2. QED
    BY <2>1
<1> HIDE DEF v
<1>2. /\ u \in Seq(EventRecord) /\ Len(u) = Len(s) + m /\ DOMAIN u = 1..(Len(s) + m)
      /\ Len(s) \in Nat /\ DOMAIN s = 1..Len(s)
      /\ \A i \in DOMAIN s : u[i] = s[i]
      /\ \A i \in 1..m : u[Len(s) + i] = v[i]
  <2>1. s \in Seq(EventRecord) /\ v \in Seq(EventRecord) /\ Len(s) \in Nat /\ DOMAIN s = 1..Len(s)
    BY <1>1
  <2>2. u \in Seq(EventRecord) /\ Len(u) = Len(s) + Len(v) /\ DOMAIN u = 1..(Len(s) + Len(v))
    BY <2>1
  <2>3. \A i \in 1..Len(s) : u[i] = s[i]
    BY <2>1
  <2>4. \A i \in 1..Len(v) : u[Len(s) + i] = v[i]
    BY <2>1, <1>1
  <2>5. QED
    BY <1>1, <2>1, <2>2, <2>3, <2>4
<1> HIDE DEF u
<1>3. \A i \in DOMAIN u : i \in DOMAIN s \/ (i - Len(s) \in 1..m /\ i = Len(s) + (i - Len(s)))
  BY <1>2
<1>4. \A i \in DOMAIN u : i \in DOMAIN s \/ u[i].type = "stop"
  BY <1>1, <1>2, <1>3
<1>5. \A i \in DOMAIN s : i \in DOMAIN u
  BY <1>2
<1>6. \A b : /\ Events(u, "delta", b) = Events(s, "delta", b)
             /\ Events(u, "start", b) = Events(s, "start", b)
  BY <1>2, <1>4, <1>5 DEF Events
<1>7. \A b : b \notin D => Events(u, "stop", b) = Events(s, "stop", b)
  BY <1>1, <1>2, <1>3, <1>5 DEF Events
<1>8. ASSUME NEW b \in D
      PROVE  /\ Events(u, "stop", b) # {}
             /\ \A i, j \in Events(u, "stop", b) : i = j
             /\ \A i \in Events(u, "stop", b) : \A k \in DOMAIN s : k < i
  <2>1. Events(s, "stop", b) = {}
    BY DEF Shape
  <2>2. \A i \in Events(u, "stop", b) : i - Len(s) \in 1..m /\ q[i - Len(s)] = b /\ i \in Nat
    BY <1>1, <1>2, <1>3, <2>1, SMTT(30) DEF Events
  <2>3. PICK k \in 1..m : q[k] = b
    OBVIOUS
  <2>4. Len(s) + k \in DOMAIN u
    BY <1>2
  <2>5. Len(s) + k \in Events(u, "stop", b)
    BY <1>1, <1>2, <2>3, <2>4 DEF Events
  <2>6. \A i, j \in Events(u, "stop", b) : i = j
    <3> TAKE i, j \in Events(u, "stop", b)
    <3>1. i - Len(s) = j - Len(s)
      BY <2>2
    <3>2. QED
      BY <1>2, <2>2, <3>1
  <2>7. \A i \in Events(u, "stop", b) : \A l \in DOMAIN s : l < i
    BY <1>2, <2>2
  <2>8. QED
    BY <2>5, <2>6, <2>7
<1>9. \A b : \A i \in Events(s, "start", b) \cup Events(s, "delta", b) : i \in DOMAIN s
  BY DEF Events
<1>10. Shape(u, O, C \cup D, K)
  <2> SUFFICES ASSUME NEW b \in Nat
             PROVE  LET starts == Events(u, "start", b)
                        stops == Events(u, "stop", b)
                        deltas == Events(u, "delta", b)
                    IN  /\ starts # {} <=> b \in O
                        /\ stops # {} <=> b \in C \cup D
                        /\ \A i, j \in starts : i = j
                        /\ \A i, j \in stops : i = j
                        /\ \A i \in stops \cup deltas : \E j \in starts : j < i
                        /\ b \in K => \A i \in deltas, j \in stops : i < j
    BY DEF Shape
  <2>1. CASE b \notin D
    BY <1>6, <1>7, <2>1 DEF Shape
  <2>2. CASE b \in D
    <3>1. Events(s, "start", b) # {}
      BY <2>2 DEF Shape
    <3>2. QED
      BY <1>6, <1>8, <1>9, <2>2, <3>1 DEF Shape
  <2>3. QED
    BY <2>1, <2>2
<1>11. QED
  BY <1>1, <1>2, <1>4, <1>6, <1>10 DEF u, v, AddStops, StopsAdded

-----------------------------------------------------------------------------
\* v has sent the same deltas as w, block by block.
SameDeltas(w, v) == \A b \in Nat : \A P : Gets(w.sent, b, P) => Gets(v.sent, b, P)

\* Sending an event changes nothing else of the writer.
LEMMA EmitFields ==
    ASSUME NEW w \in StreamWriter, NEW t \in EventTypes, NEW b \in Int, NEW n \in Nat,
           NEW v, v = emitEvent(w, t, b, n)
    PROVE  /\ v \in StreamWriter
           /\ v.sent = Append(w.sent, Event(t, b, n))
           /\ v.started = w.started /\ v.textOpen = w.textOpen
           /\ v.textClosed = w.textClosed /\ v.stopped = w.stopped
           /\ v.finish = w.finish /\ v.next = w.next /\ v.tools = w.tools
<1>1. w.sent \in Seq(EventRecord) /\ Event(t, b, n) \in EventRecord
  BY EventFields DEF StreamWriter
<1>2. Append(w.sent, Event(t, b, n)) \in Seq(EventRecord)
  BY <1>1
<1>3. QED
  BY <1>2 DEF emitEvent, StreamWriter

\* The frame of a message that has begun and goes on.
LEMMA FrameGoesOn ==
    ASSUME NEW w \in StreamWriter, NEW v \in StreamWriter, NEW e \in EventRecord,
           Framed(w), w.started, v.started = w.started, e.type # "message_start",
           v.sent = Append(w.sent, e)
    PROVE  Framed(v)
<1>1. w.sent \in Seq(EventRecord) /\ w.sent # <<>>
  BY DEF Framed, StreamWriter
<1>2. /\ DOMAIN v.sent = DOMAIN w.sent \cup {Len(w.sent) + 1}
      /\ v.sent[Len(w.sent) + 1] = e
      /\ \A i \in DOMAIN w.sent : v.sent[i] = w.sent[i]
  BY <1>1, EventsAppend
<1>3. Len(w.sent) + 1 # 1 /\ v.sent # <<>>
  BY <1>1
<1>4. QED
  BY <1>2, <1>3 DEF Framed

\* What is sent is no message_stop as long as none of it is.
LEMMA GoesOn ==
    ASSUME NEW w \in StreamWriter, NEW v \in StreamWriter, NEW e \in EventRecord,
           Going(w), e.type # "message_stop", v.sent = Append(w.sent, e),
           \A x \in Indexes : v.tools[x].closed = w.tools[x].closed
    PROVE  Going(v)
<1>1. w.sent \in Seq(EventRecord)
  BY DEF StreamWriter
<1>2. /\ DOMAIN v.sent = DOMAIN w.sent \cup {Len(w.sent) + 1}
      /\ v.sent[Len(w.sent) + 1] = e
      /\ \A i \in DOMAIN w.sent : v.sent[i] = w.sent[i]
  BY <1>1, EventsAppend
<1>3. QED
  BY <1>2 DEF Going

\* An event that is no delta changes no delta.
LEMMA NoDelta ==
    ASSUME NEW w \in StreamWriter, NEW v, NEW e \in EventRecord, e.type # "delta",
           v.sent = Append(w.sent, e)
    PROVE  SameDeltas(w, v)
<1>1. w.sent \in Seq(EventRecord)
  BY DEF StreamWriter
<1>2. QED
  BY <1>1, GetsOther DEF SameDeltas

\* ensureStart: the message is begun.
LEMMA Starts ==
    ASSUME NEW w, NEW K, Core(w, K), Going(w)
    PROVE  LET v == ensureStart(w)
           IN  /\ Core(v, K) /\ Going(v) /\ v.started = TRUE /\ SameDeltas(w, v)
               /\ v.textOpen = w.textOpen /\ v.textClosed = w.textClosed
               /\ v.stopped = w.stopped
               /\ v.finish = w.finish /\ v.next = w.next /\ v.tools = w.tools
<1> DEFINE v == ensureStart(w)
<1>1. CASE w.started
  <2>1. w.started = TRUE
    BY <1>1 DEF Core, StreamWriter
  <2>2. QED
    BY <1>1, <2>1 DEF ensureStart, SameDeltas
<1>2. CASE ~w.started
  <2> DEFINE u == [w EXCEPT !.started = TRUE]
             e == Event("message_start", -1, 0)
  <2>1. w \in StreamWriter /\ w.sent = <<>>
    BY <1>2 DEF Core, Framed
  <2>2. u \in StreamWriter /\ u.started = TRUE /\ u.sent = w.sent /\ u.textOpen = w.textOpen
        /\ u.textClosed = w.textClosed /\ u.stopped = w.stopped /\ u.finish = w.finish
        /\ u.next = w.next /\ u.tools = w.tools
    BY <2>1 DEF StreamWriter
  <2>3. v = emitEvent(u, "message_start", -1, 0)
    BY <1>2 DEF ensureStart
  <2>4. "message_start" \in EventTypes /\ -1 \in Int /\ 0 \in Nat
    BY DEF EventTypes
  <2>5. e \in EventRecord /\ e.type = "message_start"
    BY <2>4, EventFields
  <2> HIDE DEF u, v, e
  <2>6. /\ v \in StreamWriter /\ v.sent = Append(w.sent, e) /\ v.started = TRUE
        /\ v.textOpen = w.textOpen /\ v.textClosed = w.textClosed /\ v.stopped = w.stopped
        /\ v.finish = w.finish /\ v.next = w.next /\ v.tools = w.tools
    BY <2>2, <2>3, <2>4, EmitFields DEF e
  <2>7. Framed(v)
    <3>1. v.sent = <<e>> /\ DOMAIN v.sent = {1} /\ v.sent[1] = e
      BY <2>1, <2>6
    <3>2. v.sent # <<>>
      BY <3>1
    <3>3. QED
      BY <2>5, <2>6, <3>1, <3>2 DEF Framed
  <2>8. Opened(v) = Opened(w) /\ Closed(v) = Closed(w)
    BY <2>6 DEF Opened, Closed
  <2>9. Shape(v.sent, Opened(v), Closed(v), K)
    <3>1. w.sent \in Seq(EventRecord)
      BY <2>1 DEF StreamWriter
    <3>2. QED
      BY <2>5, <2>6, <2>8, <3>1, ShapeOther DEF Core
  <2>10. Numbered(v)
    BY <2>6 DEF Core, Numbered
  <2>11. Going(v)
    BY <2>1, <2>5, <2>6, GoesOn
  <2>12. SameDeltas(w, v)
    BY <2>1, <2>5, <2>6, NoDelta
  <2>13. QED
    BY <2>6, <2>7, <2>9, <2>10, <2>11, <2>12 DEF Core, v
<1>3. QED
  BY <1>1, <1>2

\* The block of the text is none of a call.
LEMMA TextBlockAlone ==
    ASSUME NEW w, Numbered(w)
    PROVE  /\ 0 \in Opened(w) <=> w.textOpen
           /\ 0 \in Closed(w) <=> w.textClosed
BY DEF Numbered, Opened, Closed

\* ensureTextBlock: the block of the text is begun.
LEMMA TextStarts ==
    ASSUME NEW w, NEW K, Core(w, K), Going(w), w.started = TRUE
    PROVE  LET v == ensureTextBlock(w)
           IN  /\ Core(v, K) /\ Going(v) /\ SameDeltas(w, v)
               /\ v.started = TRUE /\ v.textOpen = TRUE
               /\ v.textClosed = w.textClosed /\ v.stopped = w.stopped
               /\ v.finish = w.finish /\ v.next = w.next /\ v.tools = w.tools
<1> DEFINE v == ensureTextBlock(w)
<1>1. CASE w.textOpen
  <2>1. w.textOpen = TRUE
    BY <1>1 DEF Core, StreamWriter
  <2>2. QED
    BY <1>1, <2>1 DEF ensureTextBlock, SameDeltas
<1>2. CASE ~w.textOpen
  <2> DEFINE u == [w EXCEPT !.textOpen = TRUE]
             e == Event("start", 0, 0)
  <2>1. w \in StreamWriter /\ w.sent \in Seq(EventRecord)
    BY DEF Core, StreamWriter
  <2>2. u \in StreamWriter /\ u.started = w.started /\ u.sent = w.sent /\ u.textOpen = TRUE
        /\ u.textClosed = w.textClosed /\ u.stopped = w.stopped /\ u.finish = w.finish
        /\ u.next = w.next /\ u.tools = w.tools
    BY <2>1 DEF StreamWriter
  <2>3. v = emitEvent(u, "start", 0, 0)
    BY <1>2 DEF ensureTextBlock
  <2>4. "start" \in EventTypes /\ 0 \in Int /\ 0 \in Nat
    BY DEF EventTypes
  <2>5. e \in EventRecord /\ e.type = "start" /\ e.block = 0
    BY <2>4, EventFields
  <2> HIDE DEF u, v, e
  <2>6. /\ v \in StreamWriter /\ v.sent = Append(w.sent, e) /\ v.started = w.started
        /\ v.textOpen = TRUE /\ v.textClosed = w.textClosed /\ v.stopped = w.stopped
        /\ v.finish = w.finish /\ v.next = w.next /\ v.tools = w.tools
    <3>1. /\ v \in StreamWriter /\ v.sent = Append(u.sent, e) /\ v.started = u.started
          /\ v.textOpen = u.textOpen /\ v.textClosed = u.textClosed /\ v.stopped = u.stopped
          /\ v.finish = u.finish /\ v.next = u.next /\ v.tools = u.tools
      BY <2>2, <2>3, <2>4, EmitFields DEF e
    <3>2. QED
      BY <2>2, <3>1
  <2>7. Framed(v)
    BY <2>1, <2>5, <2>6, FrameGoesOn DEF Core
  <2>8. Opened(v) = Opened(w) \cup {0} /\ Closed(v) = Closed(w)
    BY <1>2, <2>6 DEF Opened, Closed
  <2>9. 0 \notin Opened(w)
    BY <1>2, TextBlockAlone DEF Core
  <2>10. Shape(v.sent, Opened(v), Closed(v), K)
    BY <2>1, <2>5, <2>6, <2>8, <2>9, ShapeStart DEF Core
  <2>11. Numbered(v)
    BY <2>6 DEF Core, Numbered
  <2>12. Going(v)
    BY <2>1, <2>5, <2>6, GoesOn
  <2>13. SameDeltas(w, v)
    BY <2>1, <2>5, <2>6, NoDelta
  <2>14. QED
    BY <2>6, <2>7, <2>10, <2>11, <2>12, <2>13 DEF Core, v
<1>3. QED
  BY <1>1, <1>2

\* closeTextBlock: the block of the text is ended, if it was begun.
LEMMA TextStops ==
    ASSUME NEW w, NEW K, Core(w, K), Going(w)
    PROVE  LET v == closeTextBlock(w)
           IN  /\ Core(v, K) /\ Going(v) /\ v.started = w.started /\ SameDeltas(w, v)
               /\ v.textOpen = w.textOpen /\ v.textClosed = v.textOpen
               /\ v.stopped = w.stopped
               /\ v.finish = w.finish /\ v.next = w.next /\ v.tools = w.tools
<1> DEFINE v == closeTextBlock(w)
<1>1. w \in StreamWriter /\ w.sent \in Seq(EventRecord)
  BY DEF Core, StreamWriter
<1>2. w.textClosed => w.textOpen
  <2> SUFFICES ASSUME w.textClosed PROVE w.textOpen
    OBVIOUS
  <2>1. Events(w.sent, "stop", 0) # {}
    BY TextBlockAlone DEF Core, Shape
  <2>2. Events(w.sent, "start", 0) # {}
    BY <2>1 DEF Core, Shape
  <2>3. QED
    BY <2>2, TextBlockAlone DEF Core, Shape
<1>3. CASE ~w.textOpen \/ w.textClosed
  <2>1. w.textOpen \in BOOLEAN /\ w.textClosed \in BOOLEAN
    BY <1>1 DEF StreamWriter
  <2>2. v = w
    BY <1>3 DEF closeTextBlock
  <2>3. w.textClosed = w.textOpen
    BY <1>2, <1>3, <2>1
  <2>4. QED
    BY <2>2, <2>3 DEF SameDeltas
<1>4. CASE w.textOpen /\ ~w.textClosed
  <2> DEFINE u == [w EXCEPT !.textClosed = TRUE]
             e == Event("stop", 0, 0)
  <2>2. u \in StreamWriter /\ u.started = w.started /\ u.sent = w.sent /\ u.textOpen = w.textOpen
        /\ u.textClosed = TRUE /\ u.stopped = w.stopped /\ u.finish = w.finish
        /\ u.next = w.next /\ u.tools = w.tools
    BY <1>1 DEF StreamWriter
  <2>3. v = emitEvent(u, "stop", 0, 0)
    BY <1>4 DEF closeTextBlock
  <2>4. "stop" \in EventTypes /\ 0 \in Int /\ 0 \in Nat
    BY DEF EventTypes
  <2>5. e \in EventRecord /\ e.type = "stop" /\ e.block = 0
    BY <2>4, EventFields
  <2> HIDE DEF u, v, e
  <2>6. /\ v \in StreamWriter /\ v.sent = Append(w.sent, e) /\ v.started = w.started
        /\ v.textOpen = w.textOpen /\ v.textClosed = TRUE /\ v.stopped = w.stopped
        /\ v.finish = w.finish /\ v.next = w.next /\ v.tools = w.tools
    BY <2>2, <2>3, <2>4, EmitFields DEF e
  <2>7. 0 \in Opened(w) /\ 0 \notin Closed(w)
    BY <1>4, TextBlockAlone DEF Core
  <2>8. w.started
    <3>1. Events(w.sent, "start", 0) # {}
      BY <2>7 DEF Core, Shape
    <3>2. w.sent # <<>>
      BY <3>1 DEF Events
    <3>3. QED
      BY <3>2 DEF Core, Framed
  <2>9. Framed(v)
    BY <1>1, <2>5, <2>6, <2>8, FrameGoesOn DEF Core
  <2>10. Opened(v) = Opened(w) /\ Closed(v) = Closed(w) \cup {0}
    BY <1>4, <2>6 DEF Opened, Closed
  <2>11. Shape(v.sent, Opened(v), Closed(v), K)
    BY <1>1, <2>5, <2>6, <2>7, <2>10, ShapeStop DEF Core
  <2>12. Numbered(v)
    BY <2>6 DEF Core, Numbered
  <2>13. Going(v)
    BY <1>1, <2>5, <2>6, GoesOn
  <2>14. SameDeltas(w, v)
    BY <1>1, <2>5, <2>6, NoDelta
  <2>15. v.textClosed = v.textOpen
    <3>1. w.textOpen \in BOOLEAN
      BY <1>1 DEF StreamWriter
    <3>2. QED
      BY <1>4, <2>6, <3>1
  <2>16. QED
    BY <2>6, <2>9, <2>11, <2>12, <2>13, <2>14, <2>15 DEF Core, v
<1>5. QED
  BY <1>3, <1>4

-----------------------------------------------------------------------------
\* v is w but for what it knows of call x, and what it sent apart from deltas.
Kept(w, v, x, strict) ==
    /\ Core(v, strict) /\ Going(v) /\ SameDeltas(w, v)
    /\ v.started = w.started /\ v.textOpen = w.textOpen /\ v.stopped = w.stopped
    /\ v.finish = w.finish
    /\ \A y \in Indexes \ {x} : v.tools[y] = w.tools[y]

\* A call that is new gets the next block number.
Seen(w, x) ==
    IF w.tools[x].block # 0 THEN w
    ELSE [w EXCEPT !.tools[x].block = w.next, !.next = @ + 1]

\* Giving a call the next number keeps the message, and no other block has it.
LEMMA CallSeen ==
    ASSUME NEW w, NEW K, Core(w, K), Going(w), NEW x \in Indexes, w.tools[x].block = 0,
           NEW v, v = Seen(w, x)
    PROVE  /\ Kept(w, v, x, K)
           /\ v.tools[x].block = w.next /\ v.tools[x].started = FALSE
           /\ w.next # 0 /\ w.next \notin Opened(w)
<1>1. /\ w \in StreamWriter /\ w.next \in Nat \ {0} /\ w.tools \in [Indexes -> ToolBlock]
      /\ w.tools[x] \in ToolBlock
  BY DEF Core, StreamWriter
<1>2. /\ v.sent = w.sent /\ v.started = w.started
      /\ v.textOpen = w.textOpen /\ v.textClosed = w.textClosed /\ v.stopped = w.stopped
      /\ v.finish = w.finish /\ v.next = w.next + 1
      /\ v.tools = [w.tools EXCEPT ![x].block = w.next]
  BY <1>1 DEF StreamWriter, Seen
<1>3. [w.tools EXCEPT ![x].block = w.next] \in [Indexes -> ToolBlock]
  BY <1>1 DEF ToolBlock
<1>4. v \in StreamWriter
  <2>1. w.next + 1 \in Nat \ {0}
    BY <1>1
  <2>2. QED
    BY <1>1, <1>3, <2>1 DEF StreamWriter, Seen
<1>5. /\ v.tools[x] = [w.tools[x] EXCEPT !.block = w.next]
      /\ \A y \in Indexes \ {x} : v.tools[y] = w.tools[y]
  BY <1>1, <1>2
<1>6. w.tools[x].started = FALSE /\ w.tools[x].closed = FALSE
  BY <1>1 DEF Core, Numbered, ToolBlock, Going
<1>7. v.tools[x].block = w.next /\ v.tools[x].started = FALSE /\ v.tools[x].closed = FALSE
  BY <1>1, <1>5, <1>6 DEF ToolBlock
<1>8. Numbered(v)
  <2>1. \A y \in Indexes : w.tools[y].block \in Nat /\ w.tools[y].block < w.next
    BY <1>1 DEF Core, Numbered, ToolBlock
  <2>2. \A y \in Indexes : /\ v.tools[y].block < v.next
                           /\ v.tools[y].started => v.tools[y].block # 0
                           /\ v.tools[y].closed => v.tools[y].started
    BY <1>1, <1>2, <1>5, <1>7, <2>1 DEF Core, Numbered
  <2>3. \A y, z \in Indexes :
            y # z /\ v.tools[y].block # 0 => v.tools[y].block # v.tools[z].block
    <3>1. \A y, z \in Indexes :
              y # z /\ w.tools[y].block # 0 => w.tools[y].block # w.tools[z].block
      BY DEF Core, Numbered
    <3>2. \A y \in Indexes \ {x} : v.tools[y].block # w.next
      BY <1>1, <1>5, <2>1
    <3>3. SUFFICES ASSUME NEW y \in Indexes, NEW z \in Indexes, y # z, v.tools[y].block # 0
                   PROVE  v.tools[y].block # v.tools[z].block
      OBVIOUS
    <3>4. CASE y = x
      BY ONLY <1>7, <3>2, <3>3, <3>4, z \in Indexes
    <3>5. CASE z = x
      BY ONLY <1>7, <3>2, <3>3, <3>5, y \in Indexes
    <3>6. CASE y # x /\ z # x
      BY ONLY <1>5, <3>1, <3>3, <3>6, y \in Indexes, z \in Indexes
    <3>7. QED
      BY ONLY <3>4, <3>5, <3>6
  <2>4. QED
    BY <2>2, <2>3 DEF Numbered
<1>9. Opened(v) = Opened(w) /\ Closed(v) = Closed(w)
  <2>1. {y \in Indexes : v.tools[y].started} = {y \in Indexes : w.tools[y].started}
    BY <1>5, <1>6, <1>7
  <2>2. {y \in Indexes : v.tools[y].closed} = {y \in Indexes : w.tools[y].closed}
    BY <1>5, <1>6, <1>7
  <2>3. {v.tools[y].block : y \in {z \in Indexes : v.tools[z].started}} =
        {w.tools[y].block : y \in {z \in Indexes : w.tools[z].started}}
    BY <1>5, <1>6, <2>1
  <2>4. {v.tools[y].block : y \in {z \in Indexes : v.tools[z].closed}} =
        {w.tools[y].block : y \in {z \in Indexes : w.tools[z].closed}}
    BY <1>5, <1>6, <2>2
  <2>5. QED
    BY <1>2, <2>3, <2>4 DEF Opened, Closed
<1>10. Framed(v) /\ Shape(v.sent, Opened(v), Closed(v), K)
  BY <1>2, <1>9 DEF Core, Framed
<1>11. Going(v)
  BY <1>2, <1>5, <1>7 DEF Going
<1>12. w.next \notin Opened(w)
  BY <1>1 DEF Core, Numbered, Opened, ToolBlock
<1>13. SameDeltas(w, v)
  BY <1>2 DEF SameDeltas
<1>14. Core(v, K)
  BY <1>4, <1>8, <1>10 DEF Core
<1>15. QED
  BY <1>1, <1>2, <1>5, <1>7, <1>11, <1>12, <1>13, <1>14 DEF Kept

\* The name of a call is kept.
Titled(w, x, name) == [w EXCEPT !.tools[x].name = @ \/ name]

\* Keeping the name of a call keeps the message.
LEMMA CallNamed ==
    ASSUME NEW w, NEW K, Core(w, K), Going(w), NEW x \in Indexes, NEW name \in BOOLEAN,
           NEW v, v = Titled(w, x, name)
    PROVE  /\ Kept(w, v, x, K)
           /\ v.tools[x].block = w.tools[x].block /\ v.tools[x].started = w.tools[x].started
           /\ name => v.tools[x].name
<1>1. w \in StreamWriter /\ w.tools \in [Indexes -> ToolBlock] /\ w.tools[x] \in ToolBlock
  BY DEF Core, StreamWriter
<1>2. /\ v.sent = w.sent /\ v.started = w.started
      /\ v.textOpen = w.textOpen /\ v.textClosed = w.textClosed /\ v.stopped = w.stopped
      /\ v.finish = w.finish /\ v.next = w.next
      /\ v.tools = [w.tools EXCEPT ![x].name = @ \/ name]
  BY <1>1 DEF StreamWriter, Titled
<1>3. [w.tools EXCEPT ![x].name = @ \/ name] \in [Indexes -> ToolBlock]
  BY <1>1 DEF ToolBlock
<1>4. v \in StreamWriter
  BY <1>1, <1>3 DEF StreamWriter, Titled
<1>5. /\ v.tools[x] = [w.tools[x] EXCEPT !.name = @ \/ name]
      /\ \A y \in Indexes \ {x} : v.tools[y] = w.tools[y]
  BY <1>1, <1>2
<1>6. /\ v.tools[x].block = w.tools[x].block /\ v.tools[x].started = w.tools[x].started
      /\ v.tools[x].closed = w.tools[x].closed
      /\ name => v.tools[x].name
  BY <1>1, <1>5 DEF ToolBlock
<1>7. \A y \in Indexes : /\ v.tools[y].block = w.tools[y].block
                         /\ v.tools[y].started = w.tools[y].started
                         /\ v.tools[y].closed = w.tools[y].closed
  BY <1>5, <1>6
<1>8. Numbered(v) /\ Going(v) /\ Framed(v)
  BY <1>2, <1>7 DEF Core, Numbered, Going, Framed
<1>9. Opened(v) = Opened(w) /\ Closed(v) = Closed(w)
  BY <1>2, <1>7 DEF Opened, Closed
<1>10. Core(v, K)
  BY <1>2, <1>4, <1>8, <1>9 DEF Core
<1>11. SameDeltas(w, v)
  BY <1>2 DEF SameDeltas
<1>12. QED
  BY <1>2, <1>5, <1>6, <1>8, <1>10, <1>11 DEF Kept

\* A call is marked as begun ...
Marked(w, x) == [w EXCEPT !.tools[x].started = TRUE]

\* u is w with call x marked as begun.
BegunAlone(w, u, x) ==
    /\ u \in StreamWriter /\ u.sent = w.sent /\ u.started = w.started
    /\ u.textOpen = w.textOpen /\ u.textClosed = w.textClosed /\ u.stopped = w.stopped
    /\ u.finish = w.finish /\ u.next = w.next
    /\ u.tools[x].block = w.tools[x].block /\ u.tools[x].started = TRUE
    /\ u.tools[x].closed = w.tools[x].closed
    /\ \A y \in Indexes \ {x} : u.tools[y] = w.tools[y]

\* Marking a call changes nothing but its mark.
LEMMA CallMarked ==
    ASSUME NEW w \in StreamWriter, NEW x \in Indexes, NEW u, u = Marked(w, x)
    PROVE  BegunAlone(w, u, x)
<1>1. w.tools \in [Indexes -> ToolBlock] /\ w.tools[x] \in ToolBlock
  BY DEF StreamWriter
<1>2. /\ u.sent = w.sent /\ u.started = w.started
      /\ u.textOpen = w.textOpen /\ u.textClosed = w.textClosed /\ u.stopped = w.stopped
      /\ u.finish = w.finish /\ u.next = w.next
      /\ u.tools = [w.tools EXCEPT ![x].started = TRUE]
  BY DEF StreamWriter, Marked
<1>3. [w.tools EXCEPT ![x].started = TRUE] \in [Indexes -> ToolBlock]
  BY <1>1 DEF ToolBlock
<1>4. u \in StreamWriter
  BY <1>3 DEF StreamWriter, Marked
<1>5. /\ u.tools[x] = [w.tools[x] EXCEPT !.started = TRUE]
      /\ \A y \in Indexes \ {x} : u.tools[y] = w.tools[y]
  BY <1>1, <1>2
<1>6. /\ u.tools[x].block = w.tools[x].block /\ u.tools[x].started = TRUE
      /\ u.tools[x].closed = w.tools[x].closed
  BY <1>1, <1>5 DEF ToolBlock
<1>7. QED
  BY <1>2, <1>4, <1>5, <1>6 DEF BegunAlone

\* ... and its block with it.
LEMMA CallBegun ==
    ASSUME NEW w, NEW K, Core(w, K), Going(w), w.started = TRUE, NEW x \in Indexes,
           NEW b \in Nat, b # 0, w.tools[x].block = b, w.tools[x].started = FALSE,
           NEW v \in StreamWriter, NEW e \in EventRecord, e.type = "start", e.block = b,
           v.sent = Append(w.sent, e), v.started = w.started,
           v.textOpen = w.textOpen, v.textClosed = w.textClosed, v.next = w.next,
           v.tools[x].block = b, v.tools[x].started = TRUE,
           v.tools[x].closed = w.tools[x].closed,
           \A y \in Indexes \ {x} : v.tools[y] = w.tools[y]
    PROVE  Core(v, K) /\ Going(v) /\ SameDeltas(w, v)
<1>1. w \in StreamWriter /\ w.sent \in Seq(EventRecord)
  BY DEF Core, StreamWriter
<1>2. \A y \in Indexes : /\ v.tools[y].block = w.tools[y].block
                         /\ v.tools[y].closed = w.tools[y].closed
  OBVIOUS
<1>3. \A y \in Indexes : v.tools[y].started <=> (w.tools[y].started \/ y = x)
  OBVIOUS
<1>4. Numbered(v)
  <2>1. \A y \in Indexes : /\ w.tools[y].block < w.next
                           /\ w.tools[y].started => w.tools[y].block # 0
                           /\ w.tools[y].closed => w.tools[y].started
    BY DEF Core, Numbered
  <2>2. \A y \in Indexes : /\ v.tools[y].block < v.next
                           /\ v.tools[y].started => v.tools[y].block # 0
                           /\ v.tools[y].closed => v.tools[y].started
    BY <1>2, <1>3, <2>1
  <2>3. \A y, z \in Indexes :
            y # z /\ w.tools[y].block # 0 => w.tools[y].block # w.tools[z].block
    BY DEF Core, Numbered
  <2>4. \A y, z \in Indexes :
            y # z /\ v.tools[y].block # 0 => v.tools[y].block # v.tools[z].block
    BY <1>2, <2>3
  <2>5. QED
    BY <2>2, <2>4 DEF Numbered
<1>5. Opened(v) = Opened(w) \cup {b} /\ Closed(v) = Closed(w)
  <2>1. {y \in Indexes : v.tools[y].started} = {y \in Indexes : w.tools[y].started} \cup {x}
    BY <1>3
  <2>2. {v.tools[y].block : y \in {z \in Indexes : v.tools[z].started}} =
        {w.tools[y].block : y \in {z \in Indexes : w.tools[z].started}} \cup {b}
    BY <1>2, <2>1
  <2>3. {v.tools[y].block : y \in {z \in Indexes : v.tools[z].closed}} =
        {w.tools[y].block : y \in {z \in Indexes : w.tools[z].closed}}
    BY <1>2
  <2>4. QED
    BY <2>2, <2>3 DEF Opened, Closed
<1>6. b \notin Opened(w)
  <2>1. \A y \in Indexes : w.tools[y].started => w.tools[y].block # b
    BY DEF Core, Numbered
  <2>2. QED
    BY <2>1 DEF Opened
<1>7. Shape(v.sent, Opened(v), Closed(v), K)
  <2>1. Shape(w.sent, Opened(w), Closed(w), K)
    BY DEF Core
  <2>2. QED
    BY <1>1, <1>5, <1>6, <2>1, ShapeStart
<1>8. Framed(v)
  <2>1. Framed(w)
    BY DEF Core
  <2>2. QED
    BY <1>1, <2>1, FrameGoesOn
<1>9. Going(v)
  BY <1>1, <1>2, GoesOn
<1>10. SameDeltas(w, v)
  BY <1>1, NoDelta
<1>11. QED
  BY <1>4, <1>7, <1>8, <1>9, <1>10 DEF Core

\* Call x is begun by the step from w to v, and nothing else is.
Begins(w, v, x, strict) ==
    /\ Kept(w, v, x, strict)
    /\ v.tools[x].block = w.tools[x].block /\ v.tools[x].started = TRUE

\* emitEvent sends the start of a marked call: its block is begun, once.
LEMMA CallStarts ==
    ASSUME NEW w, NEW K, Core(w, K), Going(w), w.started = TRUE, NEW x \in Indexes,
           w.tools[x].block # 0, w.tools[x].started = FALSE,
           NEW v, v = emitEvent(Marked(w, x), "start", w.tools[x].block, 0)
    PROVE  Begins(w, v, x, K)
<1>1. w \in StreamWriter
  BY DEF Core
<1>2. PICK u : u = Marked(w, x)
  OBVIOUS
<1>3. PICK b : b = w.tools[x].block
  OBVIOUS
<1>4. v = emitEvent(u, "start", b, 0)
  BY <1>2, <1>3
<1>5. b \in Nat /\ b \in Int /\ b # 0
  <2>1. w.tools \in [Indexes -> ToolBlock]
    BY ONLY <1>1 DEF StreamWriter
  <2>2. w.tools[x].block \in Nat
    BY ONLY <2>1, x \in Indexes DEF ToolBlock
  <2>3. QED
    BY <1>3, <2>2
<1>6. /\ u \in StreamWriter /\ u.sent = w.sent /\ u.started = w.started
      /\ u.textOpen = w.textOpen /\ u.textClosed = w.textClosed /\ u.stopped = w.stopped
      /\ u.finish = w.finish /\ u.next = w.next
      /\ u.tools[x].block = w.tools[x].block /\ u.tools[x].started = TRUE
      /\ u.tools[x].closed = w.tools[x].closed
      /\ \A y \in Indexes \ {x} : u.tools[y] = w.tools[y]
  <2>1. BegunAlone(w, u, x)
    BY ONLY <1>1, <1>2, x \in Indexes, CallMarked
  <2>2. QED
    BY ONLY <2>1 DEF BegunAlone
<1>7. "start" \in EventTypes /\ 0 \in Nat
  BY DEF EventTypes
<1>8. PICK e : e = Event("start", b, 0)
  OBVIOUS
<1>9. e \in EventRecord /\ e.type = "start" /\ e.block = b
  BY ONLY <1>5, <1>7, <1>8, EventFields
<1>10. /\ v \in StreamWriter /\ v.sent = Append(u.sent, e) /\ v.started = u.started
       /\ v.textOpen = u.textOpen /\ v.textClosed = u.textClosed /\ v.stopped = u.stopped
       /\ v.finish = u.finish /\ v.next = u.next /\ v.tools = u.tools
  BY ONLY <1>4, <1>5, <1>6, <1>7, <1>8, EmitFields
<1>11. /\ v.sent = Append(w.sent, e) /\ v.started = w.started
       /\ v.textOpen = w.textOpen /\ v.textClosed = w.textClosed /\ v.stopped = w.stopped
       /\ v.finish = w.finish /\ v.next = w.next
       /\ v.tools[x].block = b /\ v.tools[x].started = TRUE
       /\ v.tools[x].closed = w.tools[x].closed
       /\ \A y \in Indexes \ {x} : v.tools[y] = w.tools[y]
  BY ONLY <1>3, <1>6, <1>10
<1>12. Core(v, K) /\ Going(v) /\ SameDeltas(w, v)
  BY ONLY Core(w, K), Going(w), w.started = TRUE, x \in Indexes, w.tools[x].started = FALSE,
          <1>3, <1>5, <1>9, <1>10, <1>11, CallBegun
<1>13. QED
  BY ONLY <1>3, <1>11, <1>12 DEF Kept, Begins

\* Two steps that keep the message keep it.
LEMMA KeptOn ==
    ASSUME NEW w, NEW v, NEW u, NEW x, NEW K, Kept(w, v, x, K), Kept(v, u, x, K)
    PROVE  Kept(w, u, x, K)
BY DEF Kept, SameDeltas

\* A block that was never begun has no deltas.
LEMMA NothingYet ==
    ASSUME NEW w, NEW K, Core(w, K), NEW b \in Nat, b \notin Opened(w)
    PROVE  Gets(w.sent, b, {})
<1>1. Events(w.sent, "delta", b) = {}
  BY DEF Core, Shape
<1>2. QED
  BY <1>1 DEF Gets

\* ensureToolBlock: the call has a block number of its own, and its block is
\* begun when its name is known.
Opens(w, v, c, x, strict) ==
    /\ Kept(w, v, x, strict)
    /\ x \in Indexes
    /\ v.tools[x].block # 0
    /\ w.tools[x].block # 0 => v.tools[x].block = w.tools[x].block
    /\ w.tools[x].block = 0 => Gets(w.sent, v.tools[x].block, {})
    /\ c.name \/ w.tools[x].started => v.tools[x].started = TRUE

\* ensureToolBlock opens the block of a call as Opens says, in every case.
LEMMA CallOpened ==
    ASSUME NEW w, NEW K, Core(w, K), Going(w), w.started = TRUE, NEW c \in ToolCalls,
           NEW x, x = c.index, NEW v, v = ensureToolBlock(w, c)
    PROVE  Opens(w, v, c, x, K)
<1>1. x \in Indexes /\ c.name \in BOOLEAN
  BY DEF ToolCalls
<1>2. PICK seen : seen = Seen(w, x)
  OBVIOUS
<1>3. PICK named : named = Titled(seen, x, c.name)
  OBVIOUS
<1>4. PICK closed : closed = closeTextBlock(named)
  OBVIOUS
<1>5. v = IF named.tools[x].started \/ ~named.tools[x].name THEN named
          ELSE emitEvent(Marked(closed, x), "start", closed.tools[x].block, 0)
  <2>1. ensureToolBlock(w, c) =
          LET sn == Seen(w, c.index)
              nm == Titled(sn, c.index, c.name)
          IN  IF nm.tools[c.index].started \/ ~nm.tools[c.index].name THEN nm
              ELSE LET cl == closeTextBlock(nm)
                   IN  emitEvent(Marked(cl, c.index), "start", cl.tools[c.index].block, 0)
    BY ONLY TRUE DEF ensureToolBlock, Seen, Titled, Marked
  <2>2. QED
    BY ONLY <1>2, <1>3, <1>4, <2>1, x = c.index, v = ensureToolBlock(w, c)
<1>6. /\ Kept(w, seen, x, K)
      /\ seen.tools[x].block # 0
      /\ w.tools[x].block # 0 => /\ seen.tools[x].block = w.tools[x].block
                                 /\ seen.tools[x].started = w.tools[x].started
      /\ w.tools[x].block = 0 => /\ Gets(w.sent, seen.tools[x].block, {})
                                 /\ seen.tools[x].started = FALSE
  <2>1. CASE w.tools[x].block # 0
    <3>1. seen = w
      BY <1>2, <2>1 DEF Seen
    <3>2. Kept(w, w, x, K)
      BY DEF Kept, SameDeltas
    <3>3. QED
      BY ONLY <2>1, <3>1, <3>2
  <2>2. CASE w.tools[x].block = 0
    <3>1. /\ Kept(w, seen, x, K)
          /\ seen.tools[x].block = w.next /\ seen.tools[x].started = FALSE
          /\ w.next # 0 /\ w.next \notin Opened(w)
      BY ONLY <1>1, <1>2, <2>2, Core(w, K), Going(w), CallSeen
    <3>2. w.next \in Nat
      BY ONLY Core(w, K) DEF Core, StreamWriter
    <3>3. Gets(w.sent, w.next, {})
      BY ONLY <3>1, <3>2, Core(w, K), NothingYet
    <3>4. QED
      BY ONLY <2>2, <3>1, <3>3
  <2>3. QED
    BY ONLY <2>1, <2>2
<1>7. /\ Kept(seen, named, x, K)
      /\ named.tools[x].block = seen.tools[x].block
      /\ named.tools[x].started = seen.tools[x].started
      /\ c.name => named.tools[x].name
  <2>1. Core(seen, K) /\ Going(seen)
    BY ONLY <1>6 DEF Kept
  <2>2. QED
    BY ONLY <1>1, <1>3, <2>1, CallNamed
<1>8. Kept(w, named, x, K)
  BY ONLY <1>6, <1>7, KeptOn
<1>9. w.tools[x].started => w.tools[x].block # 0
  BY <1>1 DEF Core, Numbered
<1>10. CASE named.tools[x].started
  <2>1. v = named
    BY ONLY <1>5, <1>10
  <2>2. named \in StreamWriter
    BY ONLY <1>8 DEF Kept, Core
  <2>3. named.tools[x].started = TRUE
    <3>1. named.tools \in [Indexes -> ToolBlock]
      BY ONLY <2>2 DEF StreamWriter
    <3>2. named.tools[x].started \in BOOLEAN
      BY ONLY <1>1, <3>1 DEF ToolBlock
    <3>3. QED
      BY ONLY <1>10, <3>2
  <2>4. QED
    BY ONLY <1>1, <1>6, <1>7, <1>8, <2>1, <2>3 DEF Opens
<1>11. CASE ~named.tools[x].started /\ ~named.tools[x].name
  <2>1. v = named
    BY ONLY <1>5, <1>11
  <2>2. ~c.name /\ ~w.tools[x].started
    BY ONLY <1>6, <1>7, <1>9, <1>11
  <2>3. QED
    BY ONLY <1>1, <1>6, <1>7, <1>8, <2>1, <2>2 DEF Opens
<1>12. CASE ~named.tools[x].started /\ named.tools[x].name
  <2>1. v = emitEvent(Marked(closed, x), "start", closed.tools[x].block, 0)
    BY ONLY <1>5, <1>12
  <2>2. Core(named, K) /\ Going(named) /\ named.started = TRUE
    BY ONLY <1>8, w.started = TRUE DEF Kept
  <2>3. /\ Core(closed, K) /\ Going(closed) /\ closed.started = named.started
        /\ SameDeltas(named, closed) /\ closed.textOpen = named.textOpen
        /\ closed.stopped = named.stopped /\ closed.finish = named.finish
        /\ closed.tools = named.tools
    BY ONLY <1>4, <2>2, TextStops
  <2>4. Kept(named, closed, x, K)
    BY ONLY <2>3 DEF Kept
  <2>5. named.tools[x].started = FALSE
    <3>1. named.tools \in [Indexes -> ToolBlock]
      BY ONLY <2>2 DEF Core, StreamWriter
    <3>2. named.tools[x].started \in BOOLEAN
      BY ONLY <1>1, <3>1 DEF ToolBlock
    <3>3. QED
      BY ONLY <1>12, <3>2
  <2>6. closed.started = TRUE /\ closed.tools[x].block # 0 /\ closed.tools[x].started = FALSE
    BY ONLY <1>6, <1>7, <2>2, <2>3, <2>5
  <2>7. /\ Kept(closed, v, x, K)
        /\ v.tools[x].block = closed.tools[x].block /\ v.tools[x].started = TRUE
    <3>1. Begins(closed, v, x, K)
      BY ONLY <1>1, <2>1, <2>3, <2>6, CallStarts
    <3>2. QED
      BY ONLY <3>1 DEF Begins
  <2>8. Kept(w, v, x, K)
    BY ONLY <1>8, <2>4, <2>7, KeptOn
  <2>9. v.tools[x].block = seen.tools[x].block
    BY ONLY <1>7, <2>3, <2>7
  <2>10. QED
    BY ONLY <1>1, <1>6, <2>7, <2>8, <2>9 DEF Opens
<1>13. QED
  BY ONLY <1>10, <1>11, <1>12

-----------------------------------------------------------------------------
\* The writer knows that the message ends.
Stopping(w) == [w EXCEPT !.stopped = TRUE]

\* Noting that the message ends sends nothing.
LEMMA StopNoted ==
    ASSUME NEW w, NEW K, Core(w, K), Going(w), NEW v, v = Stopping(w)
    PROVE  /\ Core(v, K) /\ Going(v) /\ SameDeltas(w, v) /\ v.stopped = TRUE
           /\ v.started = w.started /\ v.textOpen = w.textOpen
           /\ v.finish = w.finish /\ v.tools = w.tools
<1>1. w \in StreamWriter
  BY DEF Core
<1>2. /\ v \in StreamWriter /\ v.stopped = TRUE /\ v.sent = w.sent
      /\ v.started = w.started /\ v.textOpen = w.textOpen /\ v.textClosed = w.textClosed
      /\ v.finish = w.finish /\ v.next = w.next /\ v.tools = w.tools
  BY <1>1 DEF StreamWriter, Stopping
<1>3. Opened(v) = Opened(w) /\ Closed(v) = Closed(w)
  BY <1>2 DEF Opened, Closed
<1>4. Framed(v) /\ Numbered(v) /\ Going(v)
  BY <1>2 DEF Core, Framed, Numbered, Going
<1>5. Core(v, K) /\ SameDeltas(w, v)
  BY <1>2, <1>3, <1>4 DEF Core, SameDeltas
<1>6. QED
  BY <1>2, <1>4, <1>5

\* An event of the message itself, once it has begun.
Sends(w, v, t, strict) ==
    /\ Core(v, strict) /\ SameDeltas(w, v)
    /\ v.started = TRUE /\ v.stopped = w.stopped /\ v.finish = w.finish
    /\ v.tools = w.tools /\ Opened(v) = Opened(w) /\ Closed(v) = Closed(w)
    /\ Len(v.sent) = Len(w.sent) + 1
    /\ v.sent[Len(w.sent) + 1].type = t /\ v.sent[Len(w.sent) + 1].block = -1
    /\ \A i \in DOMAIN w.sent : v.sent[i] = w.sent[i]
    /\ DOMAIN v.sent = DOMAIN w.sent \cup {Len(w.sent) + 1}

\* emitEvent sends one event, of no block, as the last one.
LEMMA SentOther ==
    ASSUME NEW w, NEW K, Core(w, K), w.started = TRUE, NEW t \in EventTypes,
           t \notin {"start", "stop", "delta", "message_start"}, NEW v, v = emitEvent(w, t, -1, 0)
    PROVE  Sends(w, v, t, K)
<1>1. w \in StreamWriter /\ w.sent \in Seq(EventRecord) /\ -1 \in Int /\ 0 \in Nat
  <2>1. w \in StreamWriter
    BY DEF Core
  <2>2. w.sent \in Seq(EventRecord)
    BY ONLY <2>1 DEF StreamWriter
  <2>3. QED
    BY ONLY <2>1, <2>2
<1>2. PICK e : e = Event(t, -1, 0)
  OBVIOUS
<1>3. e \in EventRecord /\ e.type = t /\ e.block = -1
  BY ONLY <1>1, <1>2, t \in EventTypes, EventFields
<1>4. /\ v \in StreamWriter /\ v.sent = Append(w.sent, e)
      /\ v.started = w.started /\ v.textOpen = w.textOpen
      /\ v.textClosed = w.textClosed /\ v.stopped = w.stopped
      /\ v.finish = w.finish /\ v.next = w.next /\ v.tools = w.tools
  BY ONLY <1>1, <1>2, t \in EventTypes, v = emitEvent(w, t, -1, 0), EmitFields
<1>5. Opened(v) = Opened(w) /\ Closed(v) = Closed(w)
  BY ONLY <1>4 DEF Opened, Closed
<1>6. Shape(v.sent, Opened(v), Closed(v), K)
  BY <1>1, <1>3, <1>4, <1>5, ShapeOther DEF Core
<1>7. Framed(v)
  BY <1>1, <1>3, <1>4, FrameGoesOn DEF Core
<1>8. Numbered(v)
  BY <1>4 DEF Core, Numbered
<1>9. SameDeltas(w, v)
  BY <1>1, <1>3, <1>4, NoDelta
<1>10. /\ v.sent[Len(w.sent) + 1] = e
       /\ \A i \in DOMAIN w.sent : v.sent[i] = w.sent[i]
       /\ DOMAIN v.sent = DOMAIN w.sent \cup {Len(w.sent) + 1}
       /\ Len(v.sent) = Len(w.sent) + 1
  BY ONLY <1>1, <1>3, <1>4, EventsAppend
<1>11. Core(v, K)
  BY ONLY <1>4, <1>6, <1>7, <1>8 DEF Core
<1>12. QED
  BY ONLY <1>3, <1>4, <1>5, <1>9, <1>10, <1>11, w.started = TRUE DEF Sends

\* The blocks of the calls that were begun, all of them open.
Begun(w) == {w.tools[x].block : x \in {y \in Indexes : w.tools[y].started}}

\* The blocks of the calls are finitely many, and none is that of the text.
LEMMA BegunFinite ==
    ASSUME NEW w, NEW K, Core(w, K)
    PROVE  /\ Begun(w) \in SUBSET Nat /\ IsFiniteSet(Begun(w)) /\ 0 \notin Begun(w)
           /\ Opened(w) = (IF w.textOpen THEN {0} ELSE {}) \cup Begun(w)
<1>1. w.next \in Nat /\ w.tools \in [Indexes -> ToolBlock]
  BY DEF Core, StreamWriter
<1>2. \A x \in Indexes : w.tools[x].block \in Nat
  BY ONLY <1>1 DEF ToolBlock
<1>3. \A x \in Indexes : /\ w.tools[x].block < w.next
                         /\ w.tools[x].started => w.tools[x].block # 0
  BY DEF Core, Numbered
<1>4. Begun(w) \subseteq 0..w.next
  BY ONLY <1>1, <1>2, <1>3 DEF Begun
<1>5. IsFiniteSet(0..w.next)
  BY ONLY <1>1, FS_Interval, 0 \in Int, w.next \in Int
<1>6. IsFiniteSet(Begun(w))
  BY ONLY <1>4, <1>5, FS_Subset
<1>7. Begun(w) \in SUBSET Nat
  BY ONLY <1>2 DEF Begun
<1>8. 0 \notin Begun(w)
  BY ONLY <1>3 DEF Begun
<1>9. QED
  BY ONLY <1>6, <1>7, <1>8 DEF Opened, Begun

\* What closeToolBlocks makes of the writer.
AllClosed(w, v, q) ==
    /\ v.started = w.started /\ v.textOpen = w.textOpen /\ v.textClosed = w.textClosed
    /\ v.stopped = w.stopped /\ v.finish = w.finish /\ v.next = w.next
    /\ v.tools \in [Indexes -> ToolBlock]
    /\ \A x \in Indexes : /\ v.tools[x].block = w.tools[x].block
                          /\ v.tools[x].started = w.tools[x].started
                          /\ v.tools[x].closed = w.tools[x].started
    /\ v.sent = AddStops(w.sent, q)
    /\ v.sent \in Seq(EventRecord) => v \in StreamWriter

\* closeToolBlocks marks every open call as ended and sends their stops.
LEMMA ToolsClosed ==
    ASSUME NEW w \in StreamWriter, Going(w), NEW v, v = closeToolBlocks(w)
    PROVE  AllClosed(w, v, Upwards(Begun(w)))
<1> DEFINE open == {x \in Indexes : w.tools[x].started /\ ~w.tools[x].closed}
<1>1. w.tools \in [Indexes -> ToolBlock]
  BY DEF StreamWriter
<1>2. open = {x \in Indexes : w.tools[x].started}
  BY DEF Going
<1>3. {w.tools[x].block : x \in open} = Begun(w)
  BY <1>2 DEF Begun
<1>4. PICK ts : ts = [x \in Indexes |-> [w.tools[x] EXCEPT !.closed = @ \/ x \in open]]
  OBVIOUS
<1>5. PICK ss : ss = w.sent \o [i \in DOMAIN Upwards(Begun(w)) |->
                                     Event("stop", Upwards(Begun(w))[i], 0)]
  OBVIOUS
<1>6. v = [w EXCEPT !.tools = ts, !.sent = ss]
  BY <1>3, <1>4, <1>5 DEF closeToolBlocks
<1>7. ASSUME NEW x \in Indexes
      PROVE  /\ ts[x] \in ToolBlock /\ ts[x].block = w.tools[x].block
             /\ ts[x].started = w.tools[x].started /\ ts[x].closed = w.tools[x].started
  <2>1. w.tools[x] \in ToolBlock
    BY ONLY <1>1, x \in Indexes
  <2>2. ts[x] = [w.tools[x] EXCEPT !.closed = @ \/ x \in open]
    BY ONLY <1>4, x \in Indexes
  <2>3. (x \in open) <=> w.tools[x].started
    BY ONLY <1>2, x \in Indexes
  <2>4. ~w.tools[x].closed
    BY ONLY Going(w), x \in Indexes DEF Going
  <2>5. w.tools[x].started \in BOOLEAN
    BY ONLY <2>1 DEF ToolBlock
  <2>6. (w.tools[x].closed \/ x \in open) = w.tools[x].started
    BY ONLY <2>3, <2>4, <2>5
  <2>7. QED
    BY ONLY <2>1, <2>2, <2>5, <2>6 DEF ToolBlock
<1>8. ts \in [Indexes -> ToolBlock]
  BY ONLY <1>4, <1>7
<1>9. /\ v.started = w.started /\ v.textOpen = w.textOpen /\ v.textClosed = w.textClosed
      /\ v.stopped = w.stopped /\ v.finish = w.finish /\ v.next = w.next
      /\ v.tools = ts /\ v.sent = ss
  BY ONLY <1>6, w \in StreamWriter DEF StreamWriter
<1>10. v.sent \in Seq(EventRecord) => v \in StreamWriter
  BY ONLY <1>6, <1>8, <1>9, w \in StreamWriter DEF StreamWriter
<1>11. QED
  BY ONLY <1>5, <1>7, <1>8, <1>9, <1>10 DEF AllClosed, AddStops

\* closeToolBlocks: every block is ended, with that of the text.
AllStopped(w, v, strict) ==
    /\ Core(v, strict) /\ SameDeltas(w, v) /\ Closed(v) = Opened(v)
    /\ \A i \in DOMAIN v.sent : v.sent[i].type # "message_stop"
    /\ v.started = TRUE /\ v.stopped = w.stopped /\ v.finish = w.finish
    /\ \A x \in Indexes : /\ v.tools[x].block = w.tools[x].block
                          /\ v.tools[x].started = w.tools[x].started

\* closeToolBlocks sends one stop for each open block.
LEMMA ToolsStop ==
    ASSUME NEW w, NEW K, Core(w, K), Going(w), w.started = TRUE, w.textClosed = w.textOpen,
           NEW v, v = closeToolBlocks(w)
    PROVE  AllStopped(w, v, K)
<1>1. w \in StreamWriter /\ w.sent \in Seq(EventRecord)
  BY DEF Core, StreamWriter
<1>2. PICK D : D = Begun(w)
  OBVIOUS
<1>3. PICK q : q = Upwards(D)
  OBVIOUS
<1>4. D \in SUBSET Nat /\ IsFiniteSet(D) /\ 0 \notin D
      /\ Opened(w) = (IF w.textOpen THEN {0} ELSE {}) \cup D
  BY ONLY <1>2, Core(w, K), BegunFinite
<1>5. PICK m \in Nat : m = Cardinality(D)
  BY ONLY <1>4, FS_CardinalityType
<1>6. /\ q \in [1..m -> D]
      /\ \A i, j \in 1..m : i # j => q[i] # q[j]
      /\ \A b \in D : \E i \in 1..m : q[i] = b
  BY ONLY <1>3, <1>4, <1>5, UpwardsCounts
<1>7. /\ v.started = w.started /\ v.textOpen = w.textOpen /\ v.textClosed = w.textClosed
      /\ v.stopped = w.stopped /\ v.finish = w.finish /\ v.next = w.next
      /\ v.tools \in [Indexes -> ToolBlock]
      /\ \A x \in Indexes : /\ v.tools[x].block = w.tools[x].block
                            /\ v.tools[x].started = w.tools[x].started
                            /\ v.tools[x].closed = w.tools[x].started
      /\ v.sent = AddStops(w.sent, q)
      /\ v.sent \in Seq(EventRecord) => v \in StreamWriter
  <2>1. AllClosed(w, v, q)
    BY ONLY <1>1, <1>2, <1>3, Going(w), v = closeToolBlocks(w), ToolsClosed
  <2>2. QED
    BY ONLY <2>1 DEF AllClosed
<1>8. Closed(w) = IF w.textClosed THEN {0} ELSE {}
  BY DEF Closed, Going
<1>9. /\ D \subseteq Opened(w) /\ D \cap Closed(w) = {} /\ \A b \in D : b \in Nat
  BY ONLY <1>4, <1>8
<1>10. Shape(w.sent, Opened(w), Closed(w), K)
  BY DEF Core
<1>11. PICK O : O = Opened(w)
  OBVIOUS
<1>12. PICK C : C = Closed(w)
  OBVIOUS
<1>13. /\ v.sent \in Seq(EventRecord) /\ Len(v.sent) = Len(w.sent) + m
       /\ \A i \in DOMAIN w.sent : v.sent[i] = w.sent[i]
       /\ \A i \in DOMAIN v.sent : i \in DOMAIN w.sent \/ v.sent[i].type = "stop"
       /\ Shape(v.sent, O, C \cup D, K)
       /\ \A b : Events(v.sent, "delta", b) = Events(w.sent, "delta", b)
  <2>1. PICK ws \in Seq(EventRecord) : ws = w.sent
    BY ONLY <1>1
  <2>2. PICK vs : vs = AddStops(ws, q)
    OBVIOUS
  <2>3. vs = v.sent
    BY ONLY <1>7, <2>1, <2>2
  <2>4. Shape(ws, O, C, K)
    BY ONLY <1>10, <1>11, <1>12, <2>1
  <2>5. D \subseteq O /\ D \cap C = {} /\ \A b \in D : b \in Nat
    BY ONLY <1>9, <1>11, <1>12
  <2>6. StopsAdded(ws, vs, m, O, C \cup D, K)
    BY ONLY m \in Nat, ws \in Seq(EventRecord), <1>6, <2>2, <2>4, <2>5, ShapeStops
  <2>7. QED
    BY ONLY <2>1, <2>3, <2>6 DEF StopsAdded
<1>14. v \in StreamWriter
  BY ONLY <1>7, <1>13
<1>15. Opened(v) = Opened(w) /\ Closed(v) = Closed(w) \cup D
  <2>1. \A x \in Indexes : v.tools[x].block = w.tools[x].block
    BY ONLY <1>7
  <2>2. {z \in Indexes : v.tools[z].started} = {z \in Indexes : w.tools[z].started}
    BY ONLY <1>7
  <2>3. {v.tools[y].block : y \in {z \in Indexes : v.tools[z].started}} = D
    BY ONLY <1>2, <2>1, <2>2 DEF Begun
  <2>4. {v.tools[y].block : y \in {z \in Indexes : v.tools[z].closed}} = D
    BY ONLY <1>2, <1>7 DEF Begun
  <2>5. QED
    BY ONLY <1>4, <1>7, <1>8, <2>3, <2>4 DEF Opened, Closed
<1>16. Closed(v) = Opened(v)
  BY ONLY <1>4, <1>8, <1>15, w.textClosed = w.textOpen
<1>17. Numbered(v)
  <2>1. /\ \A x \in Indexes : /\ w.tools[x].block < w.next
                              /\ w.tools[x].started => w.tools[x].block # 0
        /\ \A x, y \in Indexes :
              x # y /\ w.tools[x].block # 0 => w.tools[x].block # w.tools[y].block
    BY DEF Core, Numbered
  <2>2. QED
    BY ONLY <1>7, <2>1 DEF Numbered
<1>18. Framed(v)
  <2>1. /\ w.sent # <<>>
        /\ \A i \in DOMAIN w.sent : (w.sent[i].type = "message_start") <=> (i = 1)
    BY DEF Core, Framed
  <2>2. 1 \in DOMAIN w.sent /\ Len(w.sent) \in Nat \ {0}
    BY ONLY <1>1, <2>1
  <2>3. v.sent # <<>>
    BY ONLY <1>13, <2>2, m \in Nat
  <2>4. \A i \in DOMAIN v.sent : (v.sent[i].type = "message_start") <=> (i = 1)
    BY ONLY <1>13, <2>1, <2>2
  <2>5. QED
    BY ONLY <1>7, <2>3, <2>4, w.started = TRUE DEF Framed
<1>19. \A i \in DOMAIN v.sent : v.sent[i].type # "message_stop"
  <2>1. \A i \in DOMAIN w.sent : w.sent[i].type # "message_stop"
    BY DEF Going
  <2>2. QED
    BY ONLY <1>13, <2>1
<1>20. SameDeltas(w, v)
  <2>1. SUFFICES ASSUME NEW b \in Nat, NEW P, Gets(w.sent, b, P)
                 PROVE  Gets(v.sent, b, P)
    BY DEF SameDeltas
  <2>2. \A i \in Events(w.sent, "delta", b) : v.sent[i] = w.sent[i]
    BY ONLY <1>13 DEF Events
  <2>3. {v.sent[i].piece : i \in Events(w.sent, "delta", b)} =
        {w.sent[i].piece : i \in Events(w.sent, "delta", b)}
    BY ONLY <2>2
  <2>4. \A i, j \in Events(w.sent, "delta", b) : i < j => v.sent[i].piece < v.sent[j].piece
    BY ONLY <2>1, <2>2 DEF Gets
  <2>5. QED
    BY ONLY <1>13, <2>1, <2>3, <2>4 DEF Gets
<1>21. Core(v, K)
  BY ONLY <1>11, <1>12, <1>13, <1>14, <1>15, <1>17, <1>18 DEF Core
<1>22. QED
  BY ONLY <1>7, <1>16, <1>19, <1>20, <1>21, w.started = TRUE DEF AllStopped

\* The reason a message stops for is an event of the message.
LEMMA ReasonType ==
    ASSUME NEW f
    PROVE  /\ mapStopReason(f) \in EventTypes
           /\ mapStopReason(f) \notin
                 {"start", "stop", "delta", "message_start", "message_stop"}
BY DEF mapStopReason, EventTypes

\* What finalize has made of a writer.
Ending(w, v, strict) ==
    /\ Core(v, strict) /\ Over(v) /\ SameDeltas(w, v)
    /\ v.started = TRUE /\ v.stopped = TRUE /\ v.finish = w.finish
    /\ \A x \in Indexes : /\ v.tools[x].block = w.tools[x].block
                          /\ v.tools[x].started = w.tools[x].started

\* The two events that end a message of which all blocks are ended.
LEMMA LastEvents ==
    ASSUME NEW w, NEW K, Core(w, K), w.started = TRUE, w.stopped = TRUE, Closed(w) = Opened(w),
           \A i \in DOMAIN w.sent : w.sent[i].type # "message_stop",
           NEW d, d = emitEvent(w, mapStopReason(w.finish), -1, 0),
           NEW v, v = emitEvent(d, "message_stop", -1, 0)
    PROVE  Ending(w, v, K)
<1>1. PICK t : t = mapStopReason(w.finish)
  OBVIOUS
<1>2. t \in EventTypes /\ t \notin {"start", "stop", "delta", "message_start", "message_stop"}
  BY ONLY <1>1, ReasonType
<1>3. d = emitEvent(w, t, -1, 0)
  BY <1>1
<1>4. /\ Core(d, K) /\ SameDeltas(w, d)
      /\ d.started = TRUE /\ d.stopped = w.stopped /\ d.finish = w.finish
      /\ d.tools = w.tools /\ Opened(d) = Opened(w) /\ Closed(d) = Closed(w)
      /\ Len(d.sent) = Len(w.sent) + 1
      /\ d.sent[Len(w.sent) + 1].type = t
      /\ \A i \in DOMAIN w.sent : d.sent[i] = w.sent[i]
      /\ DOMAIN d.sent = DOMAIN w.sent \cup {Len(w.sent) + 1}
  <2>1. Sends(w, d, t, K)
    BY ONLY <1>2, <1>3, Core(w, K), w.started = TRUE, SentOther
  <2>2. QED
    BY ONLY <2>1 DEF Sends
<1>5. "message_stop" \in EventTypes
  BY DEF EventTypes
<1>6. /\ Core(v, K) /\ SameDeltas(d, v)
      /\ v.started = TRUE /\ v.stopped = d.stopped /\ v.finish = d.finish
      /\ v.tools = d.tools /\ Opened(v) = Opened(d) /\ Closed(v) = Closed(d)
      /\ Len(v.sent) = Len(d.sent) + 1
      /\ v.sent[Len(d.sent) + 1].type = "message_stop" /\ v.sent[Len(d.sent) + 1].block = -1
      /\ \A i \in DOMAIN d.sent : v.sent[i] = d.sent[i]
      /\ DOMAIN v.sent = DOMAIN d.sent \cup {Len(d.sent) + 1}
  <2>1. Sends(d, v, "message_stop", K)
    BY ONLY <1>4, <1>5, v = emitEvent(d, "message_stop", -1, 0), SentOther
  <2>2. QED
    BY ONLY <2>1 DEF Sends
<1>7. w.sent \in Seq(EventRecord) /\ d.sent \in Seq(EventRecord)
  BY ONLY <1>4, Core(w, K) DEF Core, StreamWriter
<1>8. Len(w.sent) \in Nat /\ DOMAIN w.sent = 1..Len(w.sent) /\ w.sent # <<>>
  <2>1. w.sent # <<>>
    BY ONLY Core(w, K), w.started = TRUE DEF Core, Framed
  <2>2. QED
    BY ONLY <1>7, <2>1
<1>9. Len(w.sent) # 0
  BY ONLY <1>7, <1>8
<1>10. Over(v)
  <2>1. PICK k \in Nat : k = Len(w.sent)
    BY ONLY <1>8
  <2>2. /\ Len(v.sent) = k + 2 /\ Len(v.sent) >= 2 /\ Len(v.sent) - 1 = k + 1
        /\ Len(d.sent) = k + 1 /\ Len(d.sent) + 1 = k + 2
    BY ONLY <1>4, <1>6, <2>1, k \in Nat
  <2>3. /\ DOMAIN w.sent = 1..k
        /\ DOMAIN d.sent = 1..k \cup {k + 1}
        /\ DOMAIN v.sent = 1..k \cup {k + 1, k + 2}
    BY ONLY <1>4, <1>6, <1>8, <2>1, <2>2
  <2>4. v.sent[k + 2].type = "message_stop" /\ v.sent[k + 2].block = -1
    BY ONLY <1>6, <2>2
  <2>5. v.sent[k + 1] = d.sent[k + 1] /\ d.sent[k + 1].type = t
    BY ONLY <1>4, <1>6, <2>1, <2>3
  <2>6. \A i \in 1..k : v.sent[i] = w.sent[i]
    BY ONLY <1>4, <1>6, <2>3
  <2>7. \A i \in 1..k : i # k + 2
    BY ONLY k \in Nat
  <2>8. \A i \in DOMAIN v.sent : (v.sent[i].type = "message_stop") <=> (i = k + 2)
    <3>1. ASSUME NEW i \in 1..k PROVE (v.sent[i].type = "message_stop") <=> (i = k + 2)
      BY ONLY <2>3, <2>6, <2>7, i \in 1..k, \A j \in DOMAIN w.sent : w.sent[j].type # "message_stop"
    <3>2. v.sent[k + 1].type # "message_stop" /\ k + 1 # k + 2
      BY ONLY <1>2, <2>5, k \in Nat
    <3>3. QED
      BY ONLY <2>3, <2>4, <3>1, <3>2
  <2>9. v.sent[Len(v.sent) - 1].type = mapStopReason(v.finish)
    BY ONLY <1>1, <1>4, <1>6, <2>2, <2>5
  <2>10. Closed(v) = Opened(v)
    BY ONLY <1>4, <1>6, Closed(w) = Opened(w)
  <2>11. QED
    BY ONLY <2>2, <2>4, <2>8, <2>9, <2>10 DEF Over
<1>11. SameDeltas(w, v)
  BY ONLY <1>4, <1>6 DEF SameDeltas
<1>12. QED
  BY ONLY <1>4, <1>6, <1>10, <1>11, w.stopped = TRUE DEF Ending

\* finalize: what was begun is ended, each block once, and the message is over.
LEMMA Finalized ==
    ASSUME NEW w, NEW K, Core(w, K), Going(w), ~w.stopped, NEW v, v = finalize(w)
    PROVE  Ending(w, v, K)
<1>1. PICK shell : shell = ensureStart(w)
  OBVIOUS
<1>2. PICK shown : shown = IF ~shell.textOpen /\ shell.next = 1
                           THEN ensureTextBlock(shell) ELSE shell
  OBVIOUS
<1>3. PICK stopping : stopping = Stopping(shown)
  OBVIOUS
<1>4. PICK told : told = closeTextBlock(stopping)
  OBVIOUS
<1>5. PICK closed : closed = closeToolBlocks(told)
  OBVIOUS
<1>6. PICK delta : delta = emitEvent(closed, mapStopReason(closed.finish), -1, 0)
  OBVIOUS
<1>7. v = emitEvent(delta, "message_stop", -1, 0)
  <2>1. ~w.stopped =>
          finalize(w) =
            LET sl == ensureStart(w)
                sn == IF ~sl.textOpen /\ sl.next = 1 THEN ensureTextBlock(sl) ELSE sl
                cl == closeToolBlocks(closeTextBlock(Stopping(sn)))
                dl == emitEvent(cl, mapStopReason(cl.finish), -1, 0)
            IN  emitEvent(dl, "message_stop", -1, 0)
    BY ONLY TRUE DEF finalize, Stopping
  <2>2. QED
    BY ONLY <1>1, <1>2, <1>3, <1>4, <1>5, <1>6, <2>1, ~w.stopped, v = finalize(w)
<1>8. /\ Core(shell, K) /\ Going(shell) /\ shell.started = TRUE /\ SameDeltas(w, shell)
      /\ shell.finish = w.finish /\ shell.tools = w.tools
  BY ONLY <1>1, Core(w, K), Going(w), Starts
<1>9. /\ Core(shown, K) /\ Going(shown) /\ shown.started = TRUE /\ SameDeltas(shell, shown)
      /\ shown.finish = shell.finish /\ shown.tools = shell.tools
  <2>1. CASE shown = ensureTextBlock(shell)
    BY ONLY <1>8, <2>1, TextStarts
  <2>2. CASE shown = shell
    BY ONLY <1>8, <2>2 DEF SameDeltas
  <2>3. QED
    BY ONLY <1>2, <2>1, <2>2
<1>10. /\ Core(stopping, K) /\ Going(stopping) /\ SameDeltas(shown, stopping)
       /\ stopping.stopped = TRUE /\ stopping.started = shown.started
       /\ stopping.finish = shown.finish /\ stopping.tools = shown.tools
  BY ONLY <1>3, <1>9, StopNoted
<1>11. /\ Core(told, K) /\ Going(told) /\ told.started = stopping.started
       /\ SameDeltas(stopping, told) /\ told.textClosed = told.textOpen
       /\ told.stopped = stopping.stopped /\ told.finish = stopping.finish
       /\ told.tools = stopping.tools
  BY ONLY <1>4, <1>10, TextStops
<1>12. told.started = TRUE /\ told.stopped = TRUE
  BY ONLY <1>9, <1>10, <1>11
<1>13. /\ Core(closed, K) /\ SameDeltas(told, closed) /\ Closed(closed) = Opened(closed)
       /\ \A i \in DOMAIN closed.sent : closed.sent[i].type # "message_stop"
       /\ closed.started = TRUE /\ closed.stopped = told.stopped /\ closed.finish = told.finish
       /\ \A x \in Indexes : /\ closed.tools[x].block = told.tools[x].block
                             /\ closed.tools[x].started = told.tools[x].started
  <2>1. AllStopped(told, closed, K)
    BY ONLY <1>5, <1>11, <1>12, ToolsStop
  <2>2. QED
    BY ONLY <2>1 DEF AllStopped
<1>14. closed.stopped = TRUE
  BY ONLY <1>12, <1>13
<1>15. Ending(closed, v, K)
  BY ONLY <1>6, <1>7, <1>13, <1>14, LastEvents
<1>16. SameDeltas(w, v)
  BY ONLY <1>8, <1>9, <1>10, <1>11, <1>13, <1>15 DEF Ending, SameDeltas
<1>17. told.tools = w.tools /\ closed.finish = w.finish
  BY ONLY <1>8, <1>9, <1>10, <1>11, <1>13
<1>18. QED
  BY ONLY <1>13, <1>15, <1>16, <1>17 DEF Ending

-----------------------------------------------------------------------------
\* A delta of block b carries piece n.
Hears(w, v, b, n) ==
    /\ \A P \in SUBSET Nat :
          (\A p \in P : p < n) /\ Gets(w.sent, b, P) => Gets(v.sent, b, P \cup {n})
    /\ \A a \in Nat \ {b} : \A P : Gets(w.sent, a, P) => Gets(v.sent, a, P)

\* A delta changes nothing but what was sent.
SameState(w, v) ==
    /\ v.started = w.started /\ v.textOpen = w.textOpen /\ v.textClosed = w.textClosed
    /\ v.stopped = w.stopped /\ v.finish = w.finish /\ v.tools = w.tools

\* A delta may be sent to a block that is open.
LEMMA DeltaSent ==
    ASSUME NEW w, NEW K, NEW L, Core(w, K), Going(w), w.started = TRUE, L \subseteq K,
           NEW b \in Nat, b \in Opened(w), b \in L => b \notin Closed(w),
           NEW n \in Nat, NEW v, v = emitEvent(w, "delta", b, n)
    PROVE  Core(v, L) /\ Going(v) /\ Hears(w, v, b, n) /\ SameState(w, v)
<1>1. w \in StreamWriter /\ w.sent \in Seq(EventRecord)
  BY ONLY Core(w, K) DEF Core, StreamWriter
<1>2. PICK e : e = Event("delta", b, n)
  OBVIOUS
<1>3. "delta" \in EventTypes /\ b \in Int
  BY DEF EventTypes
<1>4. e \in EventRecord /\ e.type = "delta" /\ e.block = b /\ e.piece = n
  BY ONLY <1>2, <1>3, n \in Nat, EventFields
<1>5. /\ v \in StreamWriter /\ v.sent = Append(w.sent, e)
      /\ v.started = w.started /\ v.textOpen = w.textOpen
      /\ v.textClosed = w.textClosed /\ v.stopped = w.stopped
      /\ v.finish = w.finish /\ v.next = w.next /\ v.tools = w.tools
  BY ONLY <1>1, <1>2, <1>3, n \in Nat, v = emitEvent(w, "delta", b, n), EmitFields
<1>6. Opened(v) = Opened(w) /\ Closed(v) = Closed(w)
  BY ONLY <1>5 DEF Opened, Closed
<1>7. Shape(w.sent, Opened(w), Closed(w), L)
  BY ONLY Core(w, K), L \subseteq K, ShapeLoosens DEF Core
<1>8. Shape(v.sent, Opened(v), Closed(v), L)
  BY ONLY <1>1, <1>4, <1>5, <1>6, <1>7, b \in Opened(w), b \in L => b \notin Closed(w), ShapeDelta
<1>9. Framed(v)
  <2>1. Framed(w)
    BY DEF Core
  <2>2. QED
    BY ONLY <1>1, <1>4, <1>5, <2>1, w.started = TRUE, FrameGoesOn
<1>10. Numbered(v)
  BY <1>5 DEF Core, Numbered
<1>11. Going(v)
  BY <1>1, <1>4, <1>5, GoesOn
<1>12. Hears(w, v, b, n)
  <2>1. \A P \in SUBSET Nat :
          (\A p \in P : p < n) /\ Gets(w.sent, b, P) => Gets(v.sent, b, P \cup {n})
    BY ONLY <1>1, <1>4, <1>5, GetsMore
  <2>2. \A a \in Nat \ {b} : \A P : Gets(w.sent, a, P) => Gets(v.sent, a, P)
    BY ONLY <1>1, <1>4, <1>5, GetsOther
  <2>3. QED
    BY ONLY <2>1, <2>2 DEF Hears
<1>13. SameState(w, v)
  BY ONLY <1>5 DEF SameState
<1>14. Core(v, L)
  BY ONLY <1>5, <1>8, <1>9, <1>10 DEF Core
<1>15. QED
  BY ONLY <1>11, <1>12, <1>13, <1>14

\* processText: a piece of text, in the block of the text.
Says(w, v, l, n) ==
    /\ IF l.text THEN Hears(w, v, 0, n) ELSE SameDeltas(w, v)
    /\ v.textClosed = w.textClosed /\ v.stopped = w.stopped /\ v.finish = w.finish
    /\ v.tools = w.tools

\* processText sends what a line has of text, after the start of its block.
LEMMA TextSaid ==
    ASSUME NEW w, NEW K, NEW L, Core(w, K), Going(w), L \subseteq K,
           NEW l, l.text /\ 0 \in L => ~w.textClosed,
           NEW n \in Nat, NEW v, v = processText(w, l, n)
    PROVE  Core(v, L) /\ Going(v) /\ Says(w, v, l, n)
<1>1. CASE ~l.text
  <2>1. v = w
    BY ONLY <1>1, v = processText(w, l, n) DEF processText
  <2>2. Shape(w.sent, Opened(w), Closed(w), L)
    BY ONLY Core(w, K), L \subseteq K, ShapeLoosens DEF Core
  <2>3. Core(w, L)
    BY ONLY Core(w, K), <2>2 DEF Core
  <2>4. QED
    BY ONLY <1>1, <2>1, <2>3, Going(w) DEF Says, SameDeltas
<1>2. CASE l.text
  <2>1. PICK s : s = ensureStart(w)
    OBVIOUS
  <2>2. PICK t : t = ensureTextBlock(s)
    OBVIOUS
  <2>3. v = emitEvent(t, "delta", 0, n)
    BY ONLY <1>2, <2>1, <2>2, v = processText(w, l, n) DEF processText
  <2>4. /\ Core(s, K) /\ Going(s) /\ s.started = TRUE /\ SameDeltas(w, s)
        /\ s.textOpen = w.textOpen /\ s.textClosed = w.textClosed
        /\ s.stopped = w.stopped /\ s.finish = w.finish /\ s.tools = w.tools
    BY ONLY <2>1, Core(w, K), Going(w), Starts
  <2>5. /\ Core(t, K) /\ Going(t) /\ SameDeltas(s, t) /\ t.started = TRUE /\ t.textOpen = TRUE
        /\ t.textClosed = s.textClosed /\ t.stopped = s.stopped
        /\ t.finish = s.finish /\ t.tools = s.tools
    BY ONLY <2>2, <2>4, TextStarts
  <2>6. 0 \in Opened(t) /\ (0 \in L => 0 \notin Closed(t)) /\ 0 \in Nat
    <3>1. Numbered(t)
      BY ONLY <2>5 DEF Core
    <3>2. 0 \in Opened(t) <=> t.textOpen
      BY ONLY <3>1, TextBlockAlone
    <3>3. 0 \in Closed(t) <=> t.textClosed
      BY ONLY <3>1, TextBlockAlone
    <3>4. t.textClosed = w.textClosed
      BY ONLY <2>4, <2>5
    <3>5. 0 \in L => ~w.textClosed
      BY ONLY <1>2, l.text /\ 0 \in L => ~w.textClosed
    <3>6. QED
      BY ONLY <2>5, <3>2, <3>3, <3>4, <3>5
  <2>7. Core(v, L) /\ Going(v) /\ Hears(t, v, 0, n) /\ SameState(t, v)
    BY ONLY <2>3, <2>5, <2>6, L \subseteq K, n \in Nat, DeltaSent
  <2>8. SameDeltas(w, t)
    BY ONLY <2>4, <2>5 DEF SameDeltas
  <2>9. Hears(w, v, 0, n)
    BY ONLY <2>6, <2>7, <2>8 DEF Hears, SameDeltas
  <2>10. /\ v.textClosed = w.textClosed /\ v.stopped = w.stopped /\ v.finish = w.finish
         /\ v.tools = w.tools
    BY ONLY <2>4, <2>5, <2>7 DEF SameState
  <2>11. QED
    BY ONLY <1>2, <2>7, <2>9, <2>10 DEF Says
<1>3. QED
  BY ONLY <1>1, <1>2

\* processCall: the block of the call gets the piece of the arguments, once it
\* is begun.
CallHeard(w, v, x, args, n) ==
    /\ v.stopped = w.stopped /\ v.finish = w.finish
    /\ \A y \in Indexes \ {x} : v.tools[y] = w.tools[y]
    /\ v.tools[x].block \in Nat \ {0}
    /\ w.tools[x].block # 0 => v.tools[x].block = w.tools[x].block
    /\ \A a \in Nat \ {v.tools[x].block} : \A P : Gets(w.sent, a, P) => Gets(v.sent, a, P)
    /\ \A P \in SUBSET Nat :
          /\ \A p \in P : p < n
          /\ IF w.tools[x].block # 0 THEN Gets(w.sent, w.tools[x].block, P) ELSE P = {}
          /\ v.tools[x].started = TRUE
          => Gets(v.sent, v.tools[x].block, IF args THEN P \cup {n} ELSE P)

Called(w, v, c, x, n, strict) ==
    /\ Core(v, strict) /\ Going(v) /\ x \in Indexes /\ CallHeard(w, v, x, c.args, n)
    /\ c.name \/ w.tools[x].started => v.tools[x].started = TRUE

\* processCall sends what a line has of arguments to the block of its call.
LEMMA CallMade ==
    ASSUME NEW w, NEW K, Core(w, K), Going(w), NEW l, l.call \in ToolCalls,
           NEW x, x = l.call.index, NEW n \in Nat, NEW v, v = processCall(w, l, n)
    PROVE  Called(w, v, l.call, x, n, K)
<1>1. PICK c \in ToolCalls : c = l.call
  OBVIOUS
<1>2. c # NoCall
  BY IndexesAssumption DEF ToolCalls, NoCall
<1>3. PICK s : s = ensureStart(w)
  OBVIOUS
<1>4. PICK o : o = ensureToolBlock(s, c)
  OBVIOUS
<1>5. v = IF c.args /\ o.tools[x].started THEN emitEvent(o, "delta", o.tools[x].block, n) ELSE o
  BY ONLY <1>1, <1>2, <1>3, <1>4, x = l.call.index, v = processCall(w, l, n) DEF processCall
<1>6. /\ Core(s, K) /\ Going(s) /\ s.started = TRUE /\ SameDeltas(w, s)
      /\ s.stopped = w.stopped /\ s.finish = w.finish /\ s.tools = w.tools
  BY ONLY <1>3, Core(w, K), Going(w), Starts
<1>7. /\ Kept(s, o, x, K)
      /\ x \in Indexes
      /\ o.tools[x].block # 0
      /\ s.tools[x].block # 0 => o.tools[x].block = s.tools[x].block
      /\ s.tools[x].block = 0 => Gets(s.sent, o.tools[x].block, {})
      /\ c.name \/ s.tools[x].started => o.tools[x].started = TRUE
  <2>1. x = c.index
    BY ONLY <1>1, x = l.call.index
  <2>2. Opens(s, o, c, x, K)
    BY ONLY <1>4, <1>6, <2>1, c \in ToolCalls, CallOpened
  <2>3. QED
    BY ONLY <2>2 DEF Opens
<1>8. PICK b : b = o.tools[x].block
  OBVIOUS
<1>9. b \in Nat /\ b # 0 /\ o.tools[x].started \in BOOLEAN
  <2>1. o.tools \in [Indexes -> ToolBlock]
    BY ONLY <1>7 DEF Kept, Core, StreamWriter
  <2>2. o.tools[x] \in ToolBlock
    BY ONLY <1>7, <2>1
  <2>3. QED
    BY ONLY <1>7, <1>8, <2>2 DEF ToolBlock
<1>10. SameDeltas(w, o)
  BY ONLY <1>6, <1>7 DEF Kept, SameDeltas
<1>11. /\ o.stopped = w.stopped /\ o.finish = w.finish
       /\ \A y \in Indexes \ {x} : o.tools[y] = w.tools[y]
       /\ w.tools[x].block # 0 => b = w.tools[x].block
       /\ c.name \/ w.tools[x].started => o.tools[x].started = TRUE
  BY ONLY <1>6, <1>7, <1>8 DEF Kept
<1>12. ASSUME NEW P, IF w.tools[x].block # 0 THEN Gets(w.sent, w.tools[x].block, P) ELSE P = {}
       PROVE  Gets(o.sent, b, P)
  <2>1. CASE w.tools[x].block # 0
    <3>1. Gets(w.sent, b, P)
      BY ONLY <1>11, <1>12, <2>1
    <3>2. QED
      BY ONLY <1>9, <1>10, <3>1 DEF SameDeltas
  <2>2. CASE w.tools[x].block = 0
    <3>1. Gets(s.sent, b, {})
      BY ONLY <1>6, <1>7, <1>8, <2>2
    <3>2. Gets(o.sent, b, {})
      BY ONLY <1>7, <1>9, <3>1 DEF Kept, SameDeltas
    <3>3. P = {}
      BY ONLY <1>12, <2>2
    <3>4. QED
      BY ONLY <3>2, <3>3
  <2>3. QED
    BY ONLY <2>1, <2>2
<1>13. Core(o, K) /\ Going(o) /\ o.started = TRUE
  BY ONLY <1>6, <1>7 DEF Kept
<1>14. CASE ~(c.args /\ o.tools[x].started)
  <2>1. v = o
    BY ONLY <1>5, <1>14
  <2>2. v.tools[x].block = b /\ v.sent = o.sent /\ v.tools[x].started = o.tools[x].started
    BY ONLY <1>8, <2>1
  <2>3. \A a \in Nat \ {b} : \A P : Gets(w.sent, a, P) => Gets(v.sent, a, P)
    BY ONLY <1>10, <2>2 DEF SameDeltas
  <2>4. ASSUME NEW P \in SUBSET Nat, \A p \in P : p < n,
               IF w.tools[x].block # 0 THEN Gets(w.sent, w.tools[x].block, P) ELSE P = {},
               v.tools[x].started = TRUE
        PROVE  Gets(v.sent, b, IF c.args THEN P \cup {n} ELSE P)
    <3>1. ~c.args
      BY ONLY <1>14, <2>1, <2>4
    <3>2. Gets(v.sent, b, P)
      BY ONLY <1>12, <2>2, <2>4
    <3>3. QED
      BY ONLY <3>1, <3>2
  <2>5. CallHeard(w, v, x, c.args, n)
    BY ONLY <1>9, <1>11, <2>1, <2>2, <2>3, <2>4 DEF CallHeard
  <2>6. QED
    BY ONLY <1>1, <1>7, <1>11, <1>13, <2>1, <2>5 DEF Called
<1>15. CASE c.args /\ o.tools[x].started
  <2>1. v = emitEvent(o, "delta", b, n)
    BY ONLY <1>5, <1>8, <1>15
  <2>2. b \in Opened(o)
    BY ONLY <1>7, <1>8, <1>15 DEF Opened
  <2>3. b \notin Closed(o)
    BY ONLY <1>9, <1>13 DEF Closed, Going
  <2>4. Core(v, K) /\ Going(v) /\ Hears(o, v, b, n) /\ SameState(o, v)
    BY ONLY <1>9, <1>13, <2>1, <2>2, <2>3, n \in Nat, K \subseteq K, DeltaSent
  <2>5. v.tools = o.tools /\ v.tools[x].block = b /\ v.stopped = o.stopped /\ v.finish = o.finish
    BY ONLY <1>8, <2>4 DEF SameState
  <2>6. \A a \in Nat \ {b} : \A P : Gets(w.sent, a, P) => Gets(v.sent, a, P)
    BY ONLY <1>10, <2>4 DEF SameDeltas, Hears
  <2>7. ASSUME NEW P \in SUBSET Nat, \A p \in P : p < n,
               IF w.tools[x].block # 0 THEN Gets(w.sent, w.tools[x].block, P) ELSE P = {},
               v.tools[x].started = TRUE
        PROVE  Gets(v.sent, b, IF c.args THEN P \cup {n} ELSE P)
    <3>1. Gets(o.sent, b, P)
      BY ONLY <1>12, <2>7
    <3>2. Gets(v.sent, b, P \cup {n})
      BY ONLY <2>4, <2>7, <3>1 DEF Hears
    <3>3. QED
      BY ONLY <1>15, <3>2
  <2>8. CallHeard(w, v, x, c.args, n)
    BY ONLY <1>9, <1>11, <2>5, <2>6, <2>7 DEF CallHeard
  <2>9. v.tools[x].started = o.tools[x].started
    BY ONLY <2>5
  <2>10. QED
    BY ONLY <1>1, <1>7, <1>11, <2>4, <2>8, <2>9 DEF Called
<1>16. QED
  BY ONLY <1>14, <1>15

\* The finish_reason is kept.
FinishKept(w, f) == IF f = "" THEN w ELSE [w EXCEPT !.finish = f]

FinishOnly(w, v, f, strict) ==
    /\ Core(v, strict) /\ Going(v) /\ v.sent = w.sent /\ v.stopped = w.stopped
    /\ v.textClosed = w.textClosed /\ v.tools = w.tools
    /\ v.finish = IF f = "" THEN w.finish ELSE f

\* Keeping a finish_reason sends nothing.
LEMMA FinishNoted ==
    ASSUME NEW w, NEW K, Core(w, K), Going(w), NEW f \in Finishes \cup {""},
           NEW v, v = FinishKept(w, f)
    PROVE  FinishOnly(w, v, f, K)
<1>1. w \in StreamWriter
  BY DEF Core
<1>2. /\ v \in StreamWriter /\ v.sent = w.sent /\ v.started = w.started
      /\ v.textOpen = w.textOpen /\ v.textClosed = w.textClosed /\ v.stopped = w.stopped
      /\ v.next = w.next /\ v.tools = w.tools
      /\ v.finish = IF f = "" THEN w.finish ELSE f
  <2>1. CASE f = ""
    BY ONLY <1>1, <2>1, v = FinishKept(w, f) DEF FinishKept
  <2>2. CASE f # ""
    BY ONLY <1>1, <2>2, v = FinishKept(w, f), f \in Finishes \cup {""} DEF FinishKept, StreamWriter
  <2>3. QED
    BY ONLY <2>1, <2>2
<1>3. Opened(v) = Opened(w) /\ Closed(v) = Closed(w)
  BY ONLY <1>2 DEF Opened, Closed
<1>4. Framed(v) /\ Numbered(v) /\ Going(v)
  <2>1. Framed(w) /\ Numbered(w)
    BY ONLY Core(w, K) DEF Core
  <2>2. Framed(v)
    BY ONLY <1>2, <2>1 DEF Framed
  <2>3. Numbered(v)
    BY ONLY <1>2, <2>1 DEF Numbered
  <2>4. Going(v)
    BY ONLY <1>2, Going(w) DEF Going
  <2>5. QED
    BY ONLY <2>2, <2>3, <2>4
<1>5. Shape(v.sent, Opened(v), Closed(v), K)
  BY ONLY <1>2, <1>3, Core(w, K) DEF Core
<1>6. QED
  BY ONLY <1>2, <1>4, <1>5 DEF Core, FinishOnly

-----------------------------------------------------------------------------
\* What a line may be.
LineType(l) ==
    /\ l.text \in BOOLEAN
    /\ l.call \in ToolCalls \cup {NoCall}
    /\ l.finish \in Finishes \cup {""}
    /\ l.kind \in {"ignored", "done", "chunk"}
    /\ l.kind # "chunk" => l.text = FALSE /\ l.call = NoCall /\ l.finish = ""

\* Every line is one of these.
LEMMA LineFields ==
    ASSUME NEW l \in Lines
    PROVE  LineType(l)
<1>1. ASSUME NEW t \in BOOLEAN, NEW c \in ToolCalls \cup {NoCall}, NEW f \in Finishes \cup {""}
      PROVE  LineType(Line(t, c, f))
  BY ONLY <1>1 DEF Line, LineType
<1>2. LineType(Ignored)
  BY ONLY TRUE DEF Line, Ignored, LineType
<1>3. LineType(Done)
  BY ONLY TRUE DEF Line, Done, LineType
<1>4. CASE l \in {Line(TRUE, c, "") : c \in ToolCalls \cup {NoCall}}
  BY ONLY <1>1, <1>4
<1>5. CASE l \in {Line(FALSE, c, "") : c \in ToolCalls}
  BY ONLY <1>1, <1>5
<1>6. CASE l \in {Line(FALSE, NoCall, f) : f \in Finishes}
  BY ONLY <1>1, <1>6
<1>7. CASE l \in {Ignored, Done}
  BY ONLY <1>2, <1>3, <1>7
<1>8. QED
  BY ONLY <1>4, <1>5, <1>6, <1>7, l \in Lines DEF Lines

\* The index of a call that is one of the calls.
LEMMA CallIndex ==
    ASSUME NEW c \in ToolCalls \cup {NoCall}
    PROVE  /\ c.index \in Indexes <=> c # NoCall
           /\ c # NoCall => c \in ToolCalls
           /\ c = NoCall => c.index = -1 /\ c.index \notin Indexes
<1>1. NoCall.index = -1
  BY DEF NoCall
<1>2. -1 \notin Indexes
  BY IndexesAssumption
<1>3. \A d \in ToolCalls : d.index \in Indexes
  BY DEF ToolCalls
<1>4. QED
  BY <1>1, <1>2, <1>3

\* The answer ms is ls with line l as its last, the n-th.
Longer(ls, l, ms, n) ==
    /\ n \in Nat
    /\ TextOf(ls) \in SUBSET Nat /\ \A p \in TextOf(ls) : p < n
    /\ TextOf(ms) = IF l.text THEN TextOf(ls) \cup {n} ELSE TextOf(ls)
    /\ \A x \in Indexes :
          /\ ArgsOf(ls, x) \in SUBSET Nat /\ \A p \in ArgsOf(ls, x) : p < n
          /\ ArgsOf(ms, x) = IF l.call.index = x /\ l.call.args
                             THEN ArgsOf(ls, x) \cup {n} ELSE ArgsOf(ls, x)
          /\ x \in CallsOf(ms) <=> x \in CallsOf(ls) \/ l.call.index = x
          /\ x \notin CallsOf(ls) => ArgsOf(ls, x) = {}
          /\ Named(ms, x) => IF x \in CallsOf(ls) THEN Named(ls, x)
                             ELSE l.call.index = x /\ l.call.name
    /\ FinishOf(ms) = IF l.finish = "" THEN FinishOf(ls) ELSE l.finish
    /\ Strict(ms) \subseteq Strict(ls)
    /\ l.text /\ 0 \in Strict(ms) => \A k \in DOMAIN ls : ls[k].call = NoCall
    /\ (\E k \in DOMAIN ls : ls[k].call # NoCall) => \E k \in DOMAIN ms : ms[k].call # NoCall
    /\ l.call # NoCall => \E k \in DOMAIN ms : ms[k].call # NoCall

\* What one more line adds to the text, the calls and the reason of an answer.
LEMMA OneLineMore ==
    ASSUME NEW ls \in Seq(Lines), NEW l \in Lines, NEW ms, ms = Append(ls, l),
           NEW n, n = Len(ls) + 1
    PROVE  Longer(ls, l, ms, n)
<1>1. /\ n \in Nat /\ DOMAIN ls = 1..(n - 1) /\ DOMAIN ms = 1..n
      /\ ms[n] = l /\ \A k \in DOMAIN ls : ms[k] = ls[k]
  <2>1. Len(ls) \in Nat /\ DOMAIN ls = 1..Len(ls)
    OBVIOUS
  <2>2. Len(Append(ls, l)) = Len(ls) + 1 /\ DOMAIN Append(ls, l) = 1..(Len(ls) + 1)
    OBVIOUS
  <2>3. Append(ls, l)[Len(ls) + 1] = l /\ \A k \in 1..Len(ls) : Append(ls, l)[k] = ls[k]
    OBVIOUS
  <2>4. QED
    BY <2>1, <2>2, <2>3
<1>2. /\ DOMAIN ms = DOMAIN ls \cup {n} /\ n \notin DOMAIN ls
      /\ \A k \in DOMAIN ls : k \in Nat /\ k < n
  <2>1. n \in Nat \ {0}
    BY ONLY n = Len(ls) + 1, ls \in Seq(Lines)
  <2>2. 1..n = 1..(n - 1) \cup {n} /\ n \notin 1..(n - 1) /\ \A k \in 1..(n - 1) : k \in Nat /\ k < n
    BY ONLY <2>1
  <2>3. QED
    BY ONLY <1>1, <2>2
<1>3. /\ TextOf(ls) \in SUBSET Nat /\ \A p \in TextOf(ls) : p < n
      /\ \A x \in Indexes : ArgsOf(ls, x) \in SUBSET Nat /\ \A p \in ArgsOf(ls, x) : p < n
  BY ONLY <1>2 DEF TextOf, ArgsOf
<1>4. TextOf(ms) = IF l.text THEN TextOf(ls) \cup {n} ELSE TextOf(ls)
  BY ONLY <1>1, <1>2 DEF TextOf
<1>5. \A x \in Indexes :
          ArgsOf(ms, x) = IF l.call.index = x /\ l.call.args
                          THEN ArgsOf(ls, x) \cup {n} ELSE ArgsOf(ls, x)
  BY ONLY <1>1, <1>2 DEF ArgsOf
<1>6. \A x \in Indexes : x \in CallsOf(ms) <=> x \in CallsOf(ls) \/ l.call.index = x
  BY ONLY <1>1, <1>2 DEF CallsOf
<1>7. \A x \in Indexes : x \notin CallsOf(ls) => ArgsOf(ls, x) = {}
  BY ONLY TRUE DEF CallsOf, ArgsOf
<1>8. ASSUME NEW x \in Indexes, Named(ms, x)
      PROVE  IF x \in CallsOf(ls) THEN Named(ls, x) ELSE l.call.index = x /\ l.call.name
  <2>1. PICK k \in DOMAIN ms : /\ ms[k].call.index = x /\ ms[k].call.name
                               /\ \A m \in DOMAIN ms : ms[m].call.index = x => k <= m
    BY ONLY <1>8 DEF Named
  <2>2. CASE x \in CallsOf(ls)
    <3>1. PICK m \in DOMAIN ls : ls[m].call.index = x
      BY ONLY <2>2 DEF CallsOf
    <3>2. k <= m
      BY ONLY <1>1, <1>2, <2>1, <3>1
    <3>3. k \in DOMAIN ls
      BY ONLY <1>1, <1>2, <3>2, k \in DOMAIN ms, m \in DOMAIN ls
    <3>4. ls[k].call.index = x /\ ls[k].call.name
      BY ONLY <1>1, <2>1, <3>3
    <3>5. \A j \in DOMAIN ls : ls[j].call.index = x => k <= j
      BY ONLY <1>1, <1>2, <2>1
    <3>6. QED
      BY ONLY <2>2, <3>3, <3>4, <3>5 DEF Named
  <2>3. CASE x \notin CallsOf(ls)
    <3>1. k \notin DOMAIN ls
      BY ONLY <1>1, <2>1, <2>3, x \in Indexes DEF CallsOf
    <3>2. k = n
      BY ONLY <1>2, <3>1, k \in DOMAIN ms
    <3>3. QED
      BY ONLY <1>1, <2>1, <2>3, <3>2
  <2>4. QED
    BY ONLY <2>2, <2>3
<1>9. FinishOf(ms) = IF l.finish = "" THEN FinishOf(ls) ELSE l.finish
  <2>1. PICK fs : fs = {k \in DOMAIN ls : ls[k].finish # ""}
    OBVIOUS
  <2>2. PICK gs : gs = {k \in DOMAIN ms : ms[k].finish # ""}
    OBVIOUS
  <2>3. FinishOf(ls) = IF fs = {} THEN "" ELSE ls[Max(fs)].finish
    BY ONLY <2>1 DEF FinishOf
  <2>4. FinishOf(ms) = IF gs = {} THEN "" ELSE ms[Max(gs)].finish
    BY ONLY <2>2 DEF FinishOf
  <2>5. gs = IF l.finish = "" THEN fs ELSE fs \cup {n}
    BY ONLY <1>1, <1>2, <2>1, <2>2
  <2>6. /\ fs \in SUBSET Nat /\ fs \subseteq DOMAIN ls /\ \A k \in fs : k < n
        /\ gs \in SUBSET Nat /\ gs \subseteq DOMAIN ms
    BY ONLY <1>1, <1>2, <2>1, <2>2
  <2>7. IsFiniteSet(fs) /\ IsFiniteSet(gs)
    <3>1. IsFiniteSet(1..n)
      BY ONLY <1>1, 1 \in Int, n \in Int, FS_Interval
    <3>2. fs \subseteq 1..n /\ gs \subseteq 1..n
      BY ONLY <1>1, <1>2, <2>6
    <3>3. QED
      BY ONLY <3>1, <3>2, FS_Subset
  <2>8. CASE l.finish = ""
    <3>1. gs = fs
      BY ONLY <2>5, <2>8
    <3>2. fs # {} => Max(fs) \in fs
      BY ONLY <2>6, <2>7, MaxIsGreatest
    <3>3. fs # {} => ms[Max(fs)] = ls[Max(fs)]
      BY ONLY <1>1, <2>6, <3>2
    <3>4. QED
      BY ONLY <2>3, <2>4, <2>8, <3>1, <3>3
  <2>9. CASE l.finish # ""
    <3>1. gs = fs \cup {n}
      BY ONLY <2>5, <2>9
    <3>2. Max(gs) \in gs /\ \A y \in gs : y <= Max(gs)
      BY ONLY <2>6, <2>7, <3>1, MaxIsGreatest
    <3>3. PICK k : k = Max(gs)
      OBVIOUS
    <3>4. k \in gs /\ n <= k
      BY ONLY <3>1, <3>2, <3>3
    <3>5. k = n
      BY ONLY <1>1, <2>6, <3>1, <3>4
    <3>6. gs # {} /\ ms[Max(gs)] = l
      BY ONLY <1>1, <3>1, <3>3, <3>5
    <3>7. QED
      BY ONLY <2>4, <2>9, <3>6
  <2>10. QED
    BY ONLY <2>8, <2>9
<1>10. TextFirst(ms) => /\ TextFirst(ls)
                        /\ l.text => \A k \in DOMAIN ls : ls[k].call = NoCall
  <2> SUFFICES ASSUME TextFirst(ms)
               PROVE  /\ TextFirst(ls)
                      /\ l.text => \A k \in DOMAIN ls : ls[k].call = NoCall
    OBVIOUS
  <2>1. TextFirst(ls)
    BY ONLY <1>1, <1>2, TextFirst(ms) DEF TextFirst
  <2>2. ASSUME l.text, NEW k \in DOMAIN ls PROVE ls[k].call = NoCall
    <3>1. ms[k].call # NoCall /\ ms[n].text => n <= k
      BY ONLY <1>2, TextFirst(ms), k \in DOMAIN ls DEF TextFirst
    <3>2. ~(n <= k)
      BY ONLY <1>1, <1>2, k \in DOMAIN ls
    <3>3. QED
      BY ONLY <1>1, <2>2, <3>1, <3>2
  <2>3. QED
    BY ONLY <2>1, <2>2
<1>11. /\ Strict(ms) \subseteq Strict(ls)
       /\ l.text /\ 0 \in Strict(ms) => \A k \in DOMAIN ls : ls[k].call = NoCall
  BY ONLY <1>10 DEF Strict
<1>12. /\ (\E k \in DOMAIN ls : ls[k].call # NoCall) => \E k \in DOMAIN ms : ms[k].call # NoCall
       /\ l.call # NoCall => \E k \in DOMAIN ms : ms[k].call # NoCall
  BY ONLY <1>1, <1>2
<1>13. QED
  BY ONLY <1>1, <1>3, <1>4, <1>5, <1>6, <1>7, <1>8, <1>9, <1>11, <1>12 DEF Longer

\* Fewer blocks may be strict.
LEMMA CoreLoosens ==
    ASSUME NEW w, NEW K, NEW L, L \subseteq K, Core(w, K)
    PROVE  Core(w, L)
<1>1. Shape(w.sent, Opened(w), Closed(w), L)
  BY ShapeLoosens DEF Core
<1>2. QED
  BY <1>1 DEF Core

\* A line that says nothing.
LEMMA WritingOn ==
    ASSUME NEW w, NEW ls, NEW l, NEW ms, NEW n, Longer(ls, l, ms, n), Writing(w, ls),
           l.text = FALSE, l.call = NoCall, l.finish = ""
    PROVE  Writing(w, ms)
<1>1. l.call.index \notin Indexes
  BY CallIndex
<1>2. Core(w, Strict(ms))
  BY ONLY Longer(ls, l, ms, n), Writing(w, ls), CoreLoosens DEF Longer, Writing
<1>3. /\ TextOf(ms) = TextOf(ls) /\ FinishOf(ms) = FinishOf(ls)
      /\ \A x \in Indexes : /\ ArgsOf(ms, x) = ArgsOf(ls, x)
                            /\ x \in CallsOf(ms) <=> x \in CallsOf(ls)
                            /\ Named(ms, x) => Named(ls, x)
  BY ONLY <1>1, Longer(ls, l, ms, n), l.text = FALSE, l.finish = "" DEF Longer
<1>4. Heard(w, ms)
  BY ONLY <1>3, Writing(w, ls) DEF Writing, Heard
<1>5. Mixed(w, ms)
  BY ONLY Longer(ls, l, ms, n), Writing(w, ls) DEF Longer, Writing, Mixed
<1>6. QED
  BY ONLY <1>2, <1>4, <1>5, Writing(w, ls) DEF Writing

\* finalize keeps what was heard.
LEMMA FinalWritten ==
    ASSUME NEW w, NEW ls, Writing(w, ls), NEW v, v = finalize(w)
    PROVE  Writing(v, ls) /\ v.stopped = TRUE
<1>1. w \in StreamWriter
  BY DEF Writing, Core
<1>2. CASE w.stopped
  <2>1. v = w
    BY ONLY <1>2, v = finalize(w) DEF finalize
  <2>2. w.stopped \in BOOLEAN
    BY ONLY <1>1 DEF StreamWriter
  <2>3. QED
    BY ONLY <1>2, <2>1, <2>2, Writing(w, ls)
<1>3. CASE ~w.stopped
  <2>1. Core(w, Strict(ls)) /\ Going(w) /\ Heard(w, ls)
    BY ONLY <1>3, Writing(w, ls) DEF Writing
  <2>2. Ending(w, v, Strict(ls))
    BY ONLY <1>3, <2>1, v = finalize(w), Finalized
  <2>3. /\ Core(v, Strict(ls)) /\ Over(v) /\ SameDeltas(w, v)
        /\ v.stopped = TRUE /\ v.finish = w.finish
        /\ \A x \in Indexes : /\ v.tools[x].block = w.tools[x].block
                              /\ v.tools[x].started = w.tools[x].started
    BY ONLY <2>2 DEF Ending
  <2>4. w.tools \in [Indexes -> ToolBlock]
    BY ONLY <1>1 DEF StreamWriter
  <2>5. \A x \in Indexes : w.tools[x].block \in Nat
    BY ONLY <2>4 DEF ToolBlock
  <2>6. Gets(v.sent, 0, TextOf(ls))
    BY ONLY <2>1, <2>3 DEF Heard, SameDeltas
  <2>7. \A x \in Indexes :
            /\ v.tools[x].block # 0 <=> x \in CallsOf(ls)
            /\ Named(ls, x) => v.tools[x].started /\ Gets(v.sent, v.tools[x].block, ArgsOf(ls, x))
    BY ONLY <2>1, <2>3, <2>5 DEF Heard, SameDeltas
  <2>8. Heard(v, ls)
    BY ONLY <2>1, <2>3, <2>6, <2>7 DEF Heard
  <2>9. Mixed(v, ls)
    BY ONLY <2>3 DEF Mixed
  <2>10. QED
    BY ONLY <2>3, <2>8, <2>9 DEF Writing
<1>4. QED
  BY ONLY <1>2, <1>3

\* A chunk: the text it carries is heard, then the call, then the reason.
LEMMA ChunkWritten ==
    ASSUME NEW w, NEW ls, NEW l \in Lines, NEW ms, NEW n, Longer(ls, l, ms, n), Writing(w, ls),
           ~w.stopped, l.kind = "chunk", NEW v, v = processLine(w, l, n)
    PROVE  Writing(v, ms) /\ ~v.stopped
<1>1. LineType(l) /\ n \in Nat
  BY LineFields DEF Longer
<1>2. l.call \in ToolCalls \cup {NoCall} /\ l.finish \in Finishes \cup {""}
  BY ONLY <1>1 DEF LineType
<1>3. PICK S : S = Strict(ms)
  OBVIOUS
<1>4. PICK t : t = processText(w, l, n)
  OBVIOUS
<1>5. PICK c : c = processCall(t, l, n)
  OBVIOUS
<1>6. v = FinishKept(c, l.finish)
  <2>1. processLine(w, l, n) = FinishKept(processCall(processText(w, l, n), l, n), l.finish)
    BY ONLY l.kind = "chunk" DEF processLine, FinishKept
  <2>2. QED
    BY ONLY <1>4, <1>5, <2>1, v = processLine(w, l, n)
<1>7. /\ Core(w, Strict(ls)) /\ Going(w) /\ Heard(w, ls) /\ Mixed(w, ls)
  BY ONLY ~w.stopped, Writing(w, ls) DEF Writing
<1>8. S \subseteq Strict(ls) /\ (l.text /\ 0 \in S => ~w.textClosed)
  <2>1. /\ S \subseteq Strict(ls)
        /\ l.text /\ 0 \in S => \A k \in DOMAIN ls : ls[k].call = NoCall
    BY ONLY <1>3, Longer(ls, l, ms, n) DEF Longer
  <2>2. w.textClosed => \E k \in DOMAIN ls : ls[k].call # NoCall
    BY ONLY <1>7, ~w.stopped DEF Mixed
  <2>3. QED
    BY ONLY <2>1, <2>2
<1>9. Core(t, S) /\ Going(t) /\ Says(w, t, l, n)
  BY ONLY <1>1, <1>4, <1>7, <1>8, TextSaid
<1>10. /\ t.textClosed = w.textClosed /\ t.stopped = w.stopped /\ t.finish = w.finish
       /\ t.tools = w.tools
       /\ \A a \in Nat \ {0} : \A P : Gets(w.sent, a, P) => Gets(t.sent, a, P)
  BY ONLY <1>9 DEF Says, Hears, SameDeltas
<1>11. Gets(t.sent, 0, TextOf(ms))
  <2>1. Gets(w.sent, 0, TextOf(ls))
    BY ONLY <1>7 DEF Heard
  <2>2. /\ TextOf(ls) \in SUBSET Nat /\ \A p \in TextOf(ls) : p < n
        /\ TextOf(ms) = IF l.text THEN TextOf(ls) \cup {n} ELSE TextOf(ls)
    BY ONLY Longer(ls, l, ms, n) DEF Longer
  <2>3. CASE l.text
    BY ONLY <1>9, <2>1, <2>2, <2>3 DEF Says, Hears
  <2>4. CASE ~l.text
    BY ONLY <1>9, <2>1, <2>2, <2>4 DEF Says, SameDeltas
  <2>5. QED
    BY ONLY <2>3, <2>4
<1>12. \A x \in Indexes : t.tools[x].block \in Nat /\ (t.tools[x].started => t.tools[x].block # 0)
  <2>1. t.tools \in [Indexes -> ToolBlock] /\ Numbered(t)
    BY ONLY <1>9 DEF Core, StreamWriter
  <2>2. QED
    BY ONLY <2>1 DEF ToolBlock, Numbered
<1>13. \A x \in Indexes :
          /\ t.tools[x].block # 0 <=> x \in CallsOf(ls)
          /\ Named(ls, x) => /\ t.tools[x].started /\ t.tools[x].block # 0
                             /\ Gets(t.sent, t.tools[x].block, ArgsOf(ls, x))
  <2>1. \A x \in Indexes :
            /\ w.tools[x].block # 0 <=> x \in CallsOf(ls)
            /\ Named(ls, x) => w.tools[x].started /\ Gets(w.sent, w.tools[x].block, ArgsOf(ls, x))
    BY ONLY <1>7 DEF Heard
  <2>2. QED
    BY ONLY <1>10, <1>12, <2>1
<1>14. /\ Core(c, S) /\ Going(c) /\ c.stopped = w.stopped /\ c.finish = w.finish
       /\ Gets(c.sent, 0, TextOf(ms))
       /\ \A x \in Indexes :
             /\ c.tools[x].block # 0 <=> x \in CallsOf(ms)
             /\ Named(ms, x) => c.tools[x].started /\ Gets(c.sent, c.tools[x].block, ArgsOf(ms, x))
       /\ c.textClosed => \E k \in DOMAIN ms : ms[k].call # NoCall
  <2>1. CASE l.call = NoCall
    <3>1. c = t
      BY ONLY <1>5, <2>1 DEF processCall
    <3>2. l.call.index \notin Indexes
      BY ONLY <1>2, <2>1, CallIndex
    <3>3. \A x \in Indexes : /\ ArgsOf(ms, x) = ArgsOf(ls, x)
                             /\ x \in CallsOf(ms) <=> x \in CallsOf(ls)
                             /\ Named(ms, x) => Named(ls, x)
      BY ONLY <3>2, Longer(ls, l, ms, n) DEF Longer
    <3>4. \A x \in Indexes :
             /\ c.tools[x].block # 0 <=> x \in CallsOf(ms)
             /\ Named(ms, x) => c.tools[x].started /\ Gets(c.sent, c.tools[x].block, ArgsOf(ms, x))
      BY ONLY <1>13, <3>1, <3>3
    <3>5. c.textClosed => \E k \in DOMAIN ms : ms[k].call # NoCall
      BY ONLY <1>7, <1>10, <3>1, ~w.stopped, Longer(ls, l, ms, n) DEF Mixed, Longer
    <3>6. QED
      BY ONLY <1>9, <1>10, <1>11, <3>1, <3>4, <3>5
  <2>2. CASE l.call # NoCall
    <3>1. l.call \in ToolCalls
      BY ONLY <1>2, <2>2
    <3>2. PICK x : x = l.call.index
      OBVIOUS
    <3>3. /\ Core(c, S) /\ Going(c) /\ x \in Indexes /\ CallHeard(t, c, x, l.call.args, n)
          /\ l.call.name \/ t.tools[x].started => c.tools[x].started = TRUE
      <4>1. Called(t, c, l.call, x, n, S)
        BY ONLY <1>1, <1>5, <1>9, <3>1, <3>2, CallMade
      <4>2. QED
        BY ONLY <4>1 DEF Called
    <3>4. /\ c.stopped = t.stopped /\ c.finish = t.finish
          /\ \A y \in Indexes \ {x} : c.tools[y] = t.tools[y]
          /\ c.tools[x].block \in Nat \ {0}
          /\ t.tools[x].block # 0 => c.tools[x].block = t.tools[x].block
          /\ \A a \in Nat \ {c.tools[x].block} : \A P : Gets(t.sent, a, P) => Gets(c.sent, a, P)
      BY ONLY <3>3 DEF CallHeard
    <3>5. Gets(c.sent, 0, TextOf(ms))
      BY ONLY <1>11, <3>4
    <3>6. /\ ArgsOf(ls, x) \in SUBSET Nat /\ \A p \in ArgsOf(ls, x) : p < n
          /\ ArgsOf(ms, x) = IF l.call.args THEN ArgsOf(ls, x) \cup {n} ELSE ArgsOf(ls, x)
          /\ x \in CallsOf(ms)
          /\ x \notin CallsOf(ls) => ArgsOf(ls, x) = {}
          /\ Named(ms, x) => IF x \in CallsOf(ls) THEN Named(ls, x) ELSE l.call.name
      BY ONLY <3>2, <3>3, Longer(ls, l, ms, n) DEF Longer
    <3>7. Named(ms, x) => /\ c.tools[x].started
                          /\ Gets(c.sent, c.tools[x].block, ArgsOf(ms, x))
      <4>1. SUFFICES ASSUME Named(ms, x)
                     PROVE  c.tools[x].started /\ Gets(c.sent, c.tools[x].block, ArgsOf(ms, x))
        OBVIOUS
      <4>2. c.tools[x].started = TRUE
        BY ONLY <1>13, <3>3, <3>6, <4>1
      <4>3. IF t.tools[x].block # 0 THEN Gets(t.sent, t.tools[x].block, ArgsOf(ls, x))
            ELSE ArgsOf(ls, x) = {}
        BY ONLY <1>13, <3>3, <3>6, <4>1
      <4>4. Gets(c.sent, c.tools[x].block,
                 IF l.call.args THEN ArgsOf(ls, x) \cup {n} ELSE ArgsOf(ls, x))
        BY ONLY <3>3, <3>6, <4>2, <4>3 DEF CallHeard
      <4>5. QED
        BY ONLY <3>6, <4>2, <4>4
    <3>8. ASSUME NEW y \in Indexes, y # x
          PROVE  /\ c.tools[y].block # 0 <=> y \in CallsOf(ms)
                 /\ Named(ms, y) => c.tools[y].started /\ Gets(c.sent, c.tools[y].block, ArgsOf(ms, y))
      <4>1. /\ ArgsOf(ms, y) = ArgsOf(ls, y)
            /\ y \in CallsOf(ms) <=> y \in CallsOf(ls)
            /\ Named(ms, y) => Named(ls, y)
        BY ONLY <3>2, <3>8, Longer(ls, l, ms, n) DEF Longer
      <4>2. c.tools[y] = t.tools[y]
        BY ONLY <3>4, <3>8
      <4>3. c.tools[y].block # 0 => c.tools[y].block # c.tools[x].block
        BY ONLY <3>3, <3>8 DEF Core, Numbered
      <4>4. c.tools[y].block \in Nat
        BY ONLY <1>12, <3>8, <4>2
      <4>5. QED
        BY ONLY <1>13, <3>4, <3>8, <4>1, <4>2, <4>3, <4>4
    <3>9. \E k \in DOMAIN ms : ms[k].call # NoCall
      BY ONLY <2>2, Longer(ls, l, ms, n) DEF Longer
    <3>10. c.stopped = w.stopped /\ c.finish = w.finish
      BY ONLY <1>10, <3>4
    <3>11. c.tools[x].block # 0 <=> x \in CallsOf(ms)
      BY ONLY <3>4, <3>6
    <3>12. QED
      BY ONLY <3>3, <3>5, <3>7, <3>8, <3>9, <3>10, <3>11
  <2>3. QED
    BY ONLY <2>1, <2>2
<1>15. /\ Core(v, S) /\ Going(v) /\ v.sent = c.sent /\ v.stopped = c.stopped
       /\ v.textClosed = c.textClosed /\ v.tools = c.tools
       /\ v.finish = IF l.finish = "" THEN c.finish ELSE l.finish
  <2>1. FinishOnly(c, v, l.finish, S)
    BY ONLY <1>2, <1>6, <1>14, FinishNoted
  <2>2. QED
    BY ONLY <2>1 DEF FinishOnly
<1>16. v.finish = FinishOf(ms)
  <2>1. w.finish = FinishOf(ls)
    BY ONLY <1>7 DEF Heard
  <2>2. FinishOf(ms) = IF l.finish = "" THEN FinishOf(ls) ELSE l.finish
    BY ONLY Longer(ls, l, ms, n) DEF Longer
  <2>3. QED
    BY ONLY <1>14, <1>15, <2>1, <2>2
<1>17. Heard(v, ms)
  BY ONLY <1>14, <1>15, <1>16 DEF Heard
<1>18. Mixed(v, ms)
  BY ONLY <1>14, <1>15 DEF Mixed
<1>19. ~v.stopped
  BY ONLY <1>14, <1>15, ~w.stopped
<1>20. QED
  BY ONLY <1>3, <1>15, <1>17, <1>18, <1>19 DEF Writing

\* processLine, whatever the line.
LEMMA LineWritten ==
    ASSUME NEW ls \in Seq(Lines), NEW l \in Lines, NEW w, Writing(w, ls), ~w.stopped,
           NEW v, v = processLine(w, l, Len(Append(ls, l)))
    PROVE  /\ Writing(v, Append(ls, l))
           /\ v.stopped <=> IsDone(Append(ls, l))
           /\ Append(ls, l) \in Seq(Lines) /\ Append(ls, l) # <<>>
<1>1. PICK ms : ms = Append(ls, l)
  OBVIOUS
<1>2. PICK n : n = Len(ls) + 1
  OBVIOUS
<1>3. ms \in Seq(Lines) /\ ms # <<>> /\ Len(ms) = n /\ ms[Len(ms)] = l
  BY ONLY <1>1, <1>2, ls \in Seq(Lines), l \in Lines
<1>4. Longer(ls, l, ms, n)
  BY ONLY <1>1, <1>2, ls \in Seq(Lines), l \in Lines, OneLineMore
<1>5. v = processLine(w, l, n)
  BY ONLY <1>1, <1>3, v = processLine(w, l, Len(Append(ls, l)))
<1>6. IsDone(ms) <=> l.kind = "done"
  BY ONLY <1>3 DEF IsDone, Last
<1>7. LineType(l)
  BY ONLY l \in Lines, LineFields
<1>8. l.kind \in {"ignored", "done", "chunk"}
  BY ONLY <1>7 DEF LineType
<1>9. l.kind # "chunk" => Writing(w, ms)
  BY ONLY <1>4, <1>7, Writing(w, ls), WritingOn DEF LineType
<1>10. CASE l.kind = "ignored"
  <2>1. v = w
    BY ONLY <1>5, <1>10 DEF processLine
  <2>2. QED
    BY ONLY <1>1, <1>3, <1>6, <1>9, <1>10, <2>1, ~w.stopped
<1>11. CASE l.kind = "done"
  <2>1. v = finalize(w)
    BY ONLY <1>5, <1>11 DEF processLine
  <2>2. Writing(v, ms) /\ v.stopped = TRUE
    BY ONLY <1>9, <1>11, <2>1, FinalWritten
  <2>3. QED
    BY ONLY <1>1, <1>3, <1>6, <1>11, <2>2
<1>12. CASE l.kind = "chunk"
  <2>1. Writing(v, ms) /\ ~v.stopped
    BY ONLY <1>4, <1>5, <1>12, Writing(w, ls), ~w.stopped, l \in Lines, ChunkWritten
  <2>2. QED
    BY ONLY <1>1, <1>3, <1>6, <1>12, <2>1
<1>13. QED
  BY ONLY <1>8, <1>10, <1>11, <1>12

-----------------------------------------------------------------------------
\* A new writer has written nothing.
LEMMA FreshWriter ==
    /\ newStreamWriter.sent = <<>> /\ newStreamWriter.started = FALSE
    /\ newStreamWriter.stopped = FALSE
    /\ Writing(newStreamWriter, <<>>)
<1>1. PICK w : w = newStreamWriter
  OBVIOUS
<1>2. /\ w.started = FALSE /\ w.textOpen = FALSE /\ w.textClosed = FALSE /\ w.stopped = FALSE
      /\ w.finish = "" /\ w.next = 1 /\ w.tools = [x \in Indexes |-> NoTool] /\ w.sent = <<>>
  BY ONLY <1>1 DEF newStreamWriter
<1>3. NoTool \in ToolBlock /\ NoTool.block = 0 /\ NoTool.started = FALSE /\ NoTool.closed = FALSE
  BY ONLY TRUE DEF NoTool, ToolBlock
<1>4. \A x \in Indexes : w.tools[x] = NoTool
  BY ONLY <1>2
<1>5. w \in StreamWriter
  <2>1. [x \in Indexes |-> NoTool] \in [Indexes -> ToolBlock]
    BY ONLY <1>3
  <2>2. <<>> \in Seq(EventRecord)
    OBVIOUS
  <2>3. 1 \in Nat \ {0}
    OBVIOUS
  <2>4. QED
    BY ONLY <1>1, <2>1, <2>2, <2>3 DEF newStreamWriter, StreamWriter
<1>6. Opened(w) = {} /\ Closed(w) = {}
  BY ONLY <1>2, <1>3, <1>4 DEF Opened, Closed
<1>7. \A t, b : Events(<<>>, t, b) = {}
  BY ONLY TRUE DEF Events
<1>8. Shape(w.sent, Opened(w), Closed(w), Strict(<<>>))
  BY ONLY <1>2, <1>6, <1>7 DEF Shape
<1>9. Framed(w) /\ Going(w)
  <2>1. \A i : i \notin DOMAIN w.sent
    <3>1. w.sent = <<>>
      BY ONLY <1>2
    <3>2. QED
      BY ONLY <3>1
  <2>2. Framed(w)
    BY ONLY <1>2, <2>1 DEF Framed
  <2>3. Going(w)
    BY ONLY <1>3, <1>4, <2>1 DEF Going
  <2>4. QED
    BY ONLY <2>2, <2>3
<1>10. Numbered(w)
  <2>1. 0 < 1
    OBVIOUS
  <2>2. QED
    BY ONLY <1>2, <1>3, <1>4, <2>1 DEF Numbered
<1>11. /\ TextOf(<<>>) = {} /\ CallsOf(<<>>) = {} /\ FinishOf(<<>>) = ""
       /\ \A x : ~Named(<<>>, x)
  BY ONLY TRUE DEF TextOf, CallsOf, FinishOf, Named
<1>12. Gets(w.sent, 0, {})
  BY ONLY <1>2, <1>7 DEF Gets
<1>13. Heard(w, <<>>)
  BY ONLY <1>2, <1>3, <1>4, <1>11, <1>12 DEF Heard
<1>14. Mixed(w, <<>>)
  BY ONLY <1>2 DEF Mixed
<1>15. Core(w, Strict(<<>>))
  BY ONLY <1>5, <1>8, <1>9, <1>10 DEF Core
<1>16. QED
  BY ONLY <1>1, <1>2, <1>9, <1>13, <1>14, <1>15 DEF Writing

\* The kinds of answers.
LEMMA AnswerKinds ==
    /\ Failed.kind = "error" /\ Streamed.kind = "sse" /\ Unanswered.kind = "none"
    /\ Response.kind = "json"
BY DEF Failed, Streamed, Unanswered, Response

\* A writer that has not begun has sent nothing.
LEMMA NothingSent ==
    ASSUME NEW w, NEW ls, Writing(w, ls), ~w.started
    PROVE  w.sent = <<>>
BY DEF Writing, Core, Framed

\* The end of a stream.
LEMMA StreamOver ==
    ASSUME NEW w, NEW ls \in Seq(Lines), Writing(w, ls), EndStream(w), lines' = ls
    PROVE  MessagesInv'
<1>1. stage' = "end" /\ lines' \in Seq(Lines)
  BY DEF EndStream
<1>2. CASE w.started
  <2>1. sw' = finalize(w) /\ answer' = Streamed
    BY <1>2 DEF EndStream
  <2>2. Writing(sw', ls) /\ sw'.stopped = TRUE
    BY ONLY <2>1, Writing(w, ls), FinalWritten
  <2>3. QED
    BY ONLY <1>1, <2>1, <2>2, lines' = ls DEF MessagesInv
<1>3. CASE ~w.started
  <2>1. sw' = w /\ answer' = Failed
    BY <1>3 DEF EndStream
  <2>2. w.sent = <<>>
    BY ONLY <1>3, Writing(w, ls), NothingSent
  <2>3. QED
    BY ONLY <1>1, <2>1, <2>2 DEF MessagesInv
<1>4. QED
  BY ONLY <1>2, <1>3

\* MessagesInv holds at the start and every step keeps it.
THEOREM MessagesInvariance == MessagesSpec => []MessagesInv
<1>1. MessagesInit => MessagesInv
  BY DEF MessagesInit, MessagesInv
<1>2. MessagesInv /\ [MessagesNext]_messagesVars => MessagesInv'
  <2> SUFFICES ASSUME MessagesInv, [MessagesNext]_messagesVars
               PROVE  MessagesInv'
    OBVIOUS
  <2>1. CASE Reject
    <3>1. sw' = newStreamWriter /\ lines' = <<>> /\ stage' = "end" /\ answer' = Failed
      BY <2>1 DEF Reject, MessagesInv
    <3>2. <<>> \in Seq(Lines)
      OBVIOUS
    <3>3. QED
      BY ONLY <3>1, <3>2, FreshWriter DEF MessagesInv
  <2>2. CASE Translate
    BY <2>2 DEF Translate, MessagesInv
  <2>3. ASSUME NEW mode \in {"stream", "batch"}, Forward(mode) PROVE MessagesInv'
    <3>1. /\ sw' = newStreamWriter /\ lines' = <<>> /\ stage' = mode /\ answer' = Unanswered
      BY <2>3 DEF Forward, MessagesInv
    <3>2. <<>> \in Seq(Lines)
      OBVIOUS
    <3>3. ~IsDone(<<>>)
      BY DEF IsDone
    <3>4. QED
      BY ONLY <3>1, <3>2, <3>3, mode \in {"stream", "batch"}, FreshWriter DEF MessagesInv
  <2>4. CASE UpstreamError
    <3>1. /\ sw' = sw /\ lines' = lines /\ lines = <<>> /\ stage' = "end" /\ answer' = Failed
          /\ stage \in {"stream", "batch"}
      BY <2>4 DEF UpstreamError
    <3>2. lines \in Seq(Lines)
      BY DEF MessagesInv
    <3>3. sw.sent = <<>>
      <4>1. CASE stage = "stream"
        <5>1. Writing(sw, lines) /\ ~sw.started
          BY <3>1, <4>1 DEF MessagesInv
        <5>2. QED
          BY ONLY <5>1, NothingSent
      <4>2. CASE stage = "batch"
        BY <4>2, FreshWriter DEF MessagesInv
      <4>3. QED
        BY ONLY <3>1, <4>1, <4>2
    <3>4. QED
      BY ONLY <3>1, <3>2, <3>3 DEF MessagesInv
  <2>5. ASSUME NEW l \in Lines, StreamLine(l) PROVE MessagesInv'
    <3>1. /\ stage = "stream" /\ stage' = "stream" /\ answer' = answer /\ ~IsDone(lines)
          /\ lines' = Append(lines, l) /\ sw' = processLine(sw, l, Len(Append(lines, l)))
      BY <2>5 DEF StreamLine, CanSend
    <3>2. /\ lines \in Seq(Lines) /\ Writing(sw, lines) /\ ~sw.stopped /\ answer = Unanswered
      BY <3>1 DEF MessagesInv
    <3>3. /\ Writing(sw', Append(lines, l)) /\ (sw'.stopped <=> IsDone(Append(lines, l)))
          /\ Append(lines, l) \in Seq(Lines) /\ Append(lines, l) # <<>>
      BY ONLY <3>1, <3>2, l \in Lines, LineWritten
    <3>4. QED
      BY ONLY <3>1, <3>2, <3>3 DEF MessagesInv
  <2>6. ASSUME NEW l \in Lines, StreamEndsWith(l) PROVE MessagesInv'
    <3>1. /\ stage = "stream" /\ ~IsDone(lines) /\ lines' = Append(lines, l)
          /\ EndStream(processLine(sw, l, Len(Append(lines, l))))
      BY <2>6 DEF StreamEndsWith, CanSend
    <3>2. /\ lines \in Seq(Lines) /\ Writing(sw, lines) /\ ~sw.stopped
      BY <3>1 DEF MessagesInv
    <3>3. PICK w : w = processLine(sw, l, Len(Append(lines, l)))
      OBVIOUS
    <3>4. /\ Writing(w, Append(lines, l)) /\ Append(lines, l) \in Seq(Lines)
      BY ONLY <3>2, <3>3, l \in Lines, LineWritten
    <3>5. EndStream(w)
      BY ONLY <3>1, <3>3
    <3>6. QED
      BY ONLY <3>1, <3>4, <3>5, StreamOver
  <2>7. ASSUME NEW l \in Lines, BatchLine(l) PROVE MessagesInv'
    <3>1. lines \in Seq(Lines) /\ lines' = Append(lines, l)
      BY <2>7 DEF BatchLine, MessagesInv
    <3>2. lines' \in Seq(Lines)
      BY ONLY <3>1, l \in Lines
    <3>3. QED
      BY <2>7, <3>2 DEF BatchLine, MessagesInv
  <2>8. CASE StreamPart
    BY <2>8 DEF StreamPart, MessagesInv
  <2>9. CASE StreamEnds
    <3>1. /\ stage = "stream" /\ lines' = lines /\ EndStream(sw)
      BY <2>9 DEF StreamEnds
    <3>2. lines \in Seq(Lines) /\ Writing(sw, lines)
      BY <3>1 DEF MessagesInv
    <3>3. QED
      BY ONLY <3>1, <3>2, StreamOver
  <2>10. CASE BatchEnds
    <3>1. /\ stage' = "end" /\ lines' = lines /\ via' = via /\ sw' = sw /\ answer' = Response
          /\ lines \in Seq(Lines) /\ sw = newStreamWriter
      BY <2>10 DEF BatchEnds, MessagesInv
    <3>2. Response' = Response
      BY ONLY <3>1 DEF Response, captured
    <3>3. QED
      BY ONLY <3>1, <3>2, FreshWriter DEF MessagesInv
  <2>11. CASE UNCHANGED messagesVars
    <3>1. stage' = stage /\ lines' = lines /\ via' = via /\ sw' = sw /\ answer' = answer
      BY <2>11 DEF messagesVars
    <3>2. Response' = Response
      BY ONLY <3>1 DEF Response, captured
    <3>3. QED
      BY ONLY <3>1, <3>2, MessagesInv DEF MessagesInv
  <2>12. CASE Ended
    BY <2>11, <2>12 DEF Ended
  <2>13. QED
    BY ONLY <2>1, <2>2, <2>3, <2>4, <2>5, <2>6, <2>7, <2>8, <2>9, <2>10, <2>11, <2>12,
            [MessagesNext]_messagesVars DEF MessagesNext
<1>3. QED
  BY <1>1, <1>2, PTL DEF MessagesSpec

\* A set of which any two members are the same one.
LEMMA AtMostOne ==
    ASSUME NEW S, \A i, j \in S : i = j
    PROVE  /\ Cardinality(S) <= 1
           /\ Cardinality(S) = IF S = {} THEN 0 ELSE 1
<1>1. CASE S = {}
  BY <1>1, FS_EmptySet
<1>2. CASE S # {}
  <2>1. PICK i \in S : S = {i}
    BY <1>2
  <2>2. Cardinality({i}) = 1
    BY FS_Singleton
  <2>3. QED
    BY <1>2, <2>1, <2>2
<1>3. QED
  BY <1>1, <1>2

\* Whatever the upstream sends, and wherever the reads cut it, the events of
\* streamWriter form one message.
THEOREM MessagesWellFormed == MessagesSpec => []OneMessage
<1>1. MessagesInv => OneMessage
  <2> SUFFICES ASSUME MessagesInv PROVE OneMessage
    OBVIOUS
  <2>1. stage \in {"request", "translated", "stream", "batch", "end"}
    BY DEF MessagesInv
  <2>2. \/ /\ Writing(sw, lines)
           /\ answer.kind # "error"
           /\ stage = "end" => sw.stopped
           /\ answer.kind = "sse" => sw.stopped
        \/ sw.sent = <<>> /\ answer.kind # "sse"
    <3>1. CASE stage \in {"request", "translated", "batch"}
      <4>1. sw = newStreamWriter /\ answer = Unanswered
        BY <3>1 DEF MessagesInv
      <4>2. QED
        BY ONLY <4>1, FreshWriter, AnswerKinds
    <3>2. CASE stage = "stream"
      <4>1. Writing(sw, lines) /\ answer = Unanswered
        BY <3>2 DEF MessagesInv
      <4>2. QED
        BY ONLY <3>2, <4>1, AnswerKinds
    <3>3. CASE stage = "end"
      <4>1. \/ answer = Streamed /\ Writing(sw, lines) /\ sw.stopped
            \/ answer = Failed /\ sw.sent = <<>>
            \/ answer = Response /\ sw.sent = <<>>
        BY <3>3 DEF MessagesInv
      <4>2. QED
        BY ONLY <4>1, AnswerKinds
    <3>4. QED
      BY ONLY <2>1, <3>1, <3>2, <3>3
  <2>3. \A b \in Blocks : b \in Nat
    BY DEF Blocks
  <2>4. CASE sw.sent = <<>> /\ answer.kind # "sse"
    <3>1. \A t, b : At(t, b) = {}
      BY ONLY <2>4 DEF At, Events
    <3>2. Cardinality({}) = 0
      BY FS_EmptySet
    <3>3. \A i : i \notin DOMAIN sw.sent
      BY ONLY <2>4
    <3>4. \A b : Cardinality(At("start", b)) = 0 /\ Cardinality(At("stop", b)) = 0
      BY ONLY <3>1, <3>2
    <3>5. 0 <= 1
      OBVIOUS
    <3>6. \A b \in Blocks :
              /\ Cardinality(At("start", b)) <= 1
              /\ Cardinality(At("stop", b)) <= 1
              /\ Cardinality(At("start", b)) = Cardinality(At("stop", b))
      BY ONLY <3>4, <3>5
    <3>7. QED
      BY ONLY <2>4, <3>1, <3>3, <3>6 DEF OneMessage
  <2>5. CASE /\ Writing(sw, lines) /\ answer.kind # "error"
             /\ stage = "end" => sw.stopped
             /\ answer.kind = "sse" => sw.stopped
    <3>1. /\ Framed(sw) /\ Shape(sw.sent, Opened(sw), Closed(sw), Strict(lines))
          /\ sw.sent \in Seq(EventRecord)
      BY ONLY <2>5 DEF Writing, Core, StreamWriter
    <3>2. sw.stopped => Over(sw)
      BY ONLY <2>5 DEF Writing
    <3>3. \A i \in DOMAIN sw.sent : (sw.sent[i].type = "message_start") <=> (i = 1)
      BY ONLY <3>1 DEF Framed
    <3>4. ASSUME NEW b \in Blocks
          PROVE  /\ Cardinality(At("start", b)) <= 1
                 /\ Cardinality(At("stop", b)) <= 1
                 /\ \A i \in At("stop", b) \cup At("delta", b) :
                       \E j \in At("start", b) : j < i
                 /\ b # 0 \/ TextFirst(lines) =>
                       \A i \in At("delta", b), j \in At("stop", b) : i < j
                 /\ stage = "end" => Cardinality(At("start", b)) = Cardinality(At("stop", b))
      <4>1. b \in Nat
        BY ONLY <2>3, b \in Blocks
      <4>2. /\ At("start", b) # {} <=> b \in Opened(sw)
            /\ At("stop", b) # {} <=> b \in Closed(sw)
            /\ \A i, j \in At("start", b) : i = j
            /\ \A i, j \in At("stop", b) : i = j
            /\ \A i \in At("stop", b) \cup At("delta", b) : \E j \in At("start", b) : j < i
            /\ b \in Strict(lines) => \A i \in At("delta", b), j \in At("stop", b) : i < j
        BY ONLY <3>1, <4>1 DEF Shape, At
      <4>3. /\ Cardinality(At("start", b)) <= 1 /\ Cardinality(At("stop", b)) <= 1
            /\ Cardinality(At("start", b)) = IF At("start", b) = {} THEN 0 ELSE 1
            /\ Cardinality(At("stop", b)) = IF At("stop", b) = {} THEN 0 ELSE 1
        BY ONLY <4>2, AtMostOne
      <4>4. b # 0 \/ TextFirst(lines) => b \in Strict(lines)
        BY ONLY <4>1 DEF Strict
      <4>5. stage = "end" => Closed(sw) = Opened(sw)
        BY ONLY <2>5, <3>2 DEF Over
      <4>6. stage = "end" => Cardinality(At("start", b)) = Cardinality(At("stop", b))
        BY ONLY <4>2, <4>3, <4>5
      <4>7. QED
        BY ONLY <4>2, <4>3, <4>4, <4>6
    <3>5. answer.kind = "sse" => At("message_stop", -1) = {Len(sw.sent)}
      <4>1. answer.kind = "sse" => Over(sw)
        BY ONLY <2>5, <3>2
      <4>2. ASSUME Over(sw) PROVE At("message_stop", -1) = {Len(sw.sent)}
        <5>1. Len(sw.sent) \in DOMAIN sw.sent
          BY ONLY <3>1, <4>2 DEF Over
        <5>2. QED
          BY ONLY <4>2, <5>1 DEF Over, At, Events
      <4>3. QED
        BY ONLY <4>1, <4>2
    <3>6. QED
      BY ONLY <2>5, <3>3, <3>4, <3>5 DEF OneMessage
  <2>6. QED
    BY ONLY <2>2, <2>4, <2>5
<1>2. QED
  BY <1>1, MessagesInvariance, PTL

\* The client gets what the upstream answered: piece by piece from a stream,
\* whole from a response whose text is not longer than the log's limit.
THEOREM AnswerArrives == MessagesSpec => []ClientGetsAnswer
<1>1. MessagesInv => ClientGetsAnswer
  <2> SUFFICES ASSUME MessagesInv PROVE ClientGetsAnswer
    OBVIOUS
  <2>1. answer.kind = "sse" => Writing(sw, lines) /\ sw.stopped
    <3>1. CASE stage # "end"
      BY ONLY <3>1, MessagesInv, AnswerKinds DEF MessagesInv
    <3>2. CASE stage = "end"
      BY ONLY <3>2, MessagesInv, AnswerKinds DEF MessagesInv
    <3>3. QED
      BY ONLY <3>1, <3>2
  <2>2. answer.kind = "json" => answer = Response
    <3>1. CASE stage # "end"
      BY ONLY <3>1, MessagesInv, AnswerKinds DEF MessagesInv
    <3>2. CASE stage = "end"
      BY ONLY <3>2, MessagesInv, AnswerKinds DEF MessagesInv
    <3>3. QED
      BY ONLY <3>1, <3>2
  <2>3. ASSUME answer.kind = "sse"
        PROVE  /\ Gets(sw.sent, 0, TextOf(lines))
               /\ \A x \in CallsOf(lines) :
                     Named(lines, x) => Gets(sw.sent, sw.tools[x].block, ArgsOf(lines, x))
               /\ \A x, y \in CallsOf(lines) :
                     x # y => sw.tools[x].block # sw.tools[y].block
               /\ sw.sent[Len(sw.sent) - 1].type = mapStopReason(FinishOf(lines))
    <3>1. Heard(sw, lines) /\ Over(sw) /\ Numbered(sw)
      BY ONLY <2>1, <2>3 DEF Writing, Core
    <3>2. \A x \in CallsOf(lines) : x \in Indexes
      BY ONLY TRUE DEF CallsOf
    <3>3. /\ Gets(sw.sent, 0, TextOf(lines)) /\ sw.finish = FinishOf(lines)
          /\ \A x \in Indexes :
                /\ sw.tools[x].block # 0 <=> x \in CallsOf(lines)
                /\ Named(lines, x) => Gets(sw.sent, sw.tools[x].block, ArgsOf(lines, x))
      BY ONLY <3>1 DEF Heard
    <3>4. \A x, y \in CallsOf(lines) : x # y => sw.tools[x].block # sw.tools[y].block
      BY ONLY <3>1, <3>2, <3>3 DEF Numbered
    <3>5. sw.sent[Len(sw.sent) - 1].type = mapStopReason(FinishOf(lines))
      BY ONLY <3>1, <3>3 DEF Over
    <3>6. QED
      BY ONLY <3>2, <3>3, <3>4, <3>5
  <2>4. ASSUME answer.kind = "json", via = "grok", Cardinality(TextOf(lines)) <= LogLimit
        PROVE  /\ answer.text = TextOf(lines)
               /\ answer.tools = [x \in CallsOf(lines) |-> ArgsOf(lines, x)]
               /\ FinishOf(lines) # "" => answer.stop = mapStopReason(FinishOf(lines))
    <3>1. captured.text = TextOf(lines) /\ captured.calls = CallsOf(lines)
          /\ captured.finish = FinishOf(lines)
      BY ONLY <2>4 DEF captured
    <3>2. outputText(TextOf(lines)) = TextOf(lines)
      BY ONLY <2>4 DEF outputText, truncateLog
    <3>3. /\ Response.text = outputText(captured.text)
          /\ Response.tools = [x \in captured.calls |-> ArgsOf(lines, x)]
          /\ captured.finish # "" => Response.stop = mapStopReason(captured.finish)
      BY ONLY TRUE DEF Response
    <3>4. answer = Response
      BY ONLY <2>2, <2>4
    <3>5. QED
      BY ONLY <3>1, <3>2, <3>3, <3>4
  <2>5. QED
    BY ONLY <2>3, <2>4 DEF ClientGetsAnswer
<1>2. QED
  BY <1>1, MessagesInvariance, PTL
=============================================================================
