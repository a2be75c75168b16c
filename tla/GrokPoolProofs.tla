--------------------------- MODULE GrokPoolProofs ---------------------------
(***************************************************************************)
(* Proofs about GrokPool, for every set of accounts, every number of       *)
(* requests, workers and administrators and every choice of faults.        *)
(***************************************************************************)
EXTENDS GrokPool, FiniteSetTheorems, TLAPS

\* Objects that exist since the process started.
Created(o) == o[2] <= gen[Email(o)]

\* A refresh that has a token of its own: the one it sent or the one it got.
Busy(e) == flight[e].phase \in {"asking", "apply"}

\* Who may start a refresh, and for which e-mail.
Existing ==
    /\ \A o \in Pool : Created(o)
    /\ \A o \in async : Created(o)
    /\ \A p \in Procs : pc[p] = "sent" => Created(obj[p])
    /\ \A e \in Emails : flight[e].phase # "none" =>
          Email(flight[e].obj) = e /\ Created(flight[e].obj)

\* An account's refresh token is one that auth.x.ai accepts, but for the moment
\* between its answer and the account's update; so is that of a refresh.
Accepted ==
    /\ \A o \in Obj : Created(o) =>
          acc[o].tok \in valid \/ (flight[Email(o)].phase = "apply" /\ flight[Email(o)].obj = o)
    /\ \A e \in Emails : Busy(e) => flight[e].tok \in valid

\* Accounts and refreshes of other accounts do not share a login, and there was
\* none yet beyond the last.
Apart ==
    /\ \A o \in Obj : Created(o) => acc[o].tok.login <= logins
    /\ \A t \in valid : t.login <= logins
    /\ \A o, x \in Obj : Created(o) /\ Created(x) /\ o # x => acc[o].tok.login # acc[x].tok.login
    /\ \A e \in Emails, o \in Obj :
          Busy(e) /\ Created(o) /\ o # flight[e].obj => flight[e].tok.login # acc[o].tok.login
    /\ \A e, x \in Emails : Busy(e) /\ Busy(x) /\ e # x => flight[e].tok.login # flight[x].tok.login

\* A pooled account has its hash, or an administrator is about to write it.
Imported ==
    \A o \in Pool : Email(o) \in stored \/
        \E a \in Admins : pc[a] \in {"dto", "hset"} /\ Email(obj[a]) = Email(o)

NotDenied == \A e \in Emails : flight[e].res # "invalid_grant"

\* What holds until one of the faults strikes.
Quiet == Existing /\ Accepted /\ Apart /\ Imported /\ NotDenied

\* A refresh that is done has a result.
Answered == \A e \in Emails : flight[e].phase = "done" => flight[e].res # "none"

\* The inductive invariant.
GrokInv == TypeOK /\ Answered /\ (~struck => Quiet)

-----------------------------------------------------------------------------
\* Some object stands for none.
LEMMA NoObjType == NoObj \in Obj
<1>1. PICK e \in Emails : TRUE
  BY EmailsAssumption
<1>2. <<e, 1>> \in Obj
  BY BoundsAssumption DEF Obj
<1>3. QED
  BY <1>2 DEF NoObj

\* The constant records are of their types.
LEMMA Blanks ==
    /\ NoTok \in Tok /\ Blank \in Fields /\ NoFlight \in Flights
    /\ NoFlight.phase = "none" /\ NoFlight.res = "none"
    /\ \A o \in Obj : Email(o) \in Emails
<1>1. NoTok \in Tok
  BY BoundsAssumption DEF NoTok, Tok
<1>2. Blank \in Fields
  BY <1>1 DEF Blank, Fields
<1>3. NoFlight \in Flights /\ NoFlight.phase = "none" /\ NoFlight.res = "none"
  BY <1>1, <1>2, NoObjType DEF NoFlight, Flights
<1>4. QED
  BY <1>1, <1>2, <1>3 DEF Obj, Email

\* What happens to the fields of an account that keeps its tokens.
LEMMA FieldsKept ==
    ASSUME NEW f \in Fields
    PROVE  /\ PutOff(f) \in Fields /\ PutOff(f).tok = f.tok
           /\ CoolDown(f) \in Fields /\ CoolDown(f).tok = f.tok
           /\ Parsed(f) \in Fields /\ Parsed(f).tok = f.tok
           /\ Later(f) \in Fields /\ Later(f).tok = f.tok
           /\ [f EXCEPT !.disabled = FALSE] \in Fields /\ [f EXCEPT !.disabled = FALSE].tok = f.tok
<1>1. PutOff(f) \in Fields /\ PutOff(f).tok = f.tok /\ CoolDown(f) \in Fields /\ CoolDown(f).tok = f.tok
  BY DEF Fields, PutOff, CoolDown
<1>2. Parsed(f) \in Fields /\ Parsed(f).tok = f.tok
  BY DEF Fields, Parsed
<1>3. Later(f) \in Fields /\ Later(f).tok = f.tok
  BY DEF Fields, Later
<1>4. [f EXCEPT !.disabled = FALSE] \in Fields /\ [f EXCEPT !.disabled = FALSE].tok = f.tok
  BY DEF Fields
<1>5. QED
  BY <1>1, <1>2, <1>3, <1>4

\* A refresh that was just called.
LEMMA BeginType ==
    ASSUME NEW o \in Obj
    PROVE  /\ Begin(o) \in Flights /\ Begin(o).phase = "begin" /\ Begin(o).obj = o
           /\ Begin(o).res = "none"
BY Blanks DEF Begin, Flights

\* A new login and the account it is stored in.
LEMMA LoginType ==
    ASSUME NEW n \in 0..MaxLogins
    PROVE  /\ Login(n) \in Tok /\ Login(n).login = n
           /\ WithLogin(Login(n)) \in Fields /\ WithLogin(Login(n)).tok = Login(n)
<1>1. Login(n) \in Tok /\ Login(n).login = n
  BY BoundsAssumption DEF Login, Tok
<1>2. QED
  BY <1>1 DEF WithLogin, Fields

\* The orders a finite set has.
LEMMA OrdersAre ==
    ASSUME NEW S, IsFiniteSet(S), NEW s \in SetToSeqs(S)
    PROVE  /\ s \in Seq(S)
           /\ \A i, j \in DOMAIN s : s[i] = s[j] => i = j
<1> DEFINE n == Cardinality(S)
<1>1. n \in Nat
  BY FS_CardinalityType
<1>2. s \in [1..n -> S] /\ \A i, j \in 1..n : i # j => s[i] # s[j]
  BY DEF SetToSeqs
<1> HIDE DEF n
<1>3. QED
  BY <1>1, <1>2

\* A removal keeps some of the accounts and none of those to go.
LEMMA KeptFacts ==
    ASSUME TypeOK, NEW gone, accounts' \in Kept(gone)
    PROVE  /\ accounts' \in Seq(Obj)
           /\ \A o \in Pool' : o \in Pool /\ Email(o) \notin gone
<1> DEFINE places == {i \in DOMAIN accounts : Email(accounts[i]) \notin gone}
<1>0. accounts \in Seq(Obj)
  BY DEF TypeOK
<1>1. PICK p \in SetToSeqs(places) : accounts' = [n \in DOMAIN p |-> accounts[p[n]]]
  BY DEF Kept
<1>2. IsFiniteSet(places)
  <2>1. Len(accounts) \in Nat /\ DOMAIN accounts = 1..Len(accounts)
    BY <1>0
  <2>2. IsFiniteSet(1..Len(accounts))
    BY <2>1, FS_Interval
  <2>3. QED
    BY <2>1, <2>2, FS_Subset
<1>3. p \in Seq(places)
  BY <1>2, OrdersAre
<1>4. /\ Len(p) \in Nat /\ DOMAIN p = 1..Len(p)
      /\ \A n \in 1..Len(p) : p[n] \in DOMAIN accounts /\ Email(accounts[p[n]]) \notin gone
  BY <1>3
<1>5. DOMAIN accounts' = 1..Len(p) /\ \A n \in 1..Len(p) : accounts'[n] = accounts[p[n]] /\ accounts[p[n]] \in Obj
  BY <1>0, <1>1, <1>4
<1>6. accounts' \in Seq(Obj)
  <2>1. accounts' = [n \in 1..Len(p) |-> accounts[p[n]]]
    BY <1>1, <1>4
  <2>2. QED
    BY <1>4, <1>5, <2>1
<1>7. \A o \in Pool' : o \in Pool /\ Email(o) \notin gone
  BY <1>4, <1>5 DEF Pool, ToSet
<1>8. QED
  BY <1>6, <1>7

\* The accounts a load makes.
LEMMA LoadedAre ==
    ASSUME NEW S, S \subseteq Emails, NEW s \in SetToSeqs(S)
    PROVE  /\ s \in Seq(S) /\ Len(s) \in Nat /\ DOMAIN s = 1..Len(s)
           /\ \A i, j \in DOMAIN s : s[i] = s[j] => i = j
           /\ [i \in DOMAIN s |-> <<s[i], 1>>] \in Seq(Obj)
           /\ \A o \in ToSet([i \in DOMAIN s |-> <<s[i], 1>>]) : Email(o) \in ToSet(s) /\ o[2] = 1
<1>1. s \in Seq(S) /\ \A i, j \in DOMAIN s : s[i] = s[j] => i = j
  <2>1. IsFiniteSet(S)
    BY EmailsAssumption, FS_Subset
  <2>2. QED
    BY <2>1, OrdersAre
<1>2. Len(s) \in Nat /\ DOMAIN s = 1..Len(s) /\ \A i \in 1..Len(s) : s[i] \in S
  BY <1>1
<1> DEFINE t == [i \in DOMAIN s |-> <<s[i], 1>>]
<1>3. /\ t = [i \in 1..Len(s) |-> <<s[i], 1>>]
      /\ \A i \in 1..Len(s) : t[i] \in Obj /\ Email(t[i]) = s[i] /\ t[i][2] = 1
  BY <1>2, BoundsAssumption DEF Obj, Email
<1>4. t \in Seq(Obj) /\ DOMAIN t = 1..Len(s)
  BY <1>2, <1>3
<1> HIDE DEF t
<1>5. \A o \in ToSet(t) : Email(o) \in ToSet(s) /\ o[2] = 1
  BY <1>2, <1>3, <1>4 DEF ToSet
<1>6. QED
  BY <1>1, <1>2, <1>4, <1>5 DEF t

-----------------------------------------------------------------------------
\* A call of Refresh shares the refresh of its e-mail or starts one.
LEMMA JoinFacts ==
    ASSUME TypeOK, NEW o \in Obj, Join(o)
    PROVE  /\ flight' \in [Emails -> Flights]
           /\ \A e \in Emails : \/ flight'[e] = flight[e]
                                \/ e = Email(o) /\ flight'[e] = Begin(o)
BY BeginType, Blanks DEF TypeOK, Join

\* The steps of a refresh change the flight of its e-mail.
LEMMA FlightType ==
    ASSUME TypeOK, NEW e \in Emails, FlightStep(e)
    PROVE  /\ flight' \in [Emails -> Flights]
           /\ \A x \in Emails \ {e} : flight'[x] = flight[x]
<1>0. /\ flight \in [Emails -> Flights] /\ flight[e] \in Flights /\ flight[e].obj \in Obj
      /\ acc[flight[e].obj] \in Fields /\ acc[flight[e].obj].tok \in Tok /\ flight[e].tok \in Tok
  BY DEF TypeOK, Flights, Fields
<1>1. PICK w \in Flights : flight' = [flight EXCEPT ![e] = w]
  <2>1. CASE ReadToken(e)
    <3> DEFINE w == [flight[e] EXCEPT !.phase = "asking", !.tok = acc[flight[e].obj].tok]
    <3>1. w \in Flights
      BY <1>0 DEF Flights
    <3>2. flight' = [flight EXCEPT ![e] = w]
      BY <1>0, <2>1 DEF ReadToken
    <3>3. QED
      BY <3>1, <3>2
  <2>2. CASE Granted(e)
    <3>1. PICK t \in Successors(flight[e].tok) :
             flight' = [flight EXCEPT ![e].phase = "apply", ![e].tok = t]
      BY <2>2 DEF Granted
    <3> DEFINE w == [flight[e] EXCEPT !.phase = "apply", !.tok = t]
    <3>2. w \in Flights
      BY <1>0 DEF Flights, Successors
    <3>3. flight' = [flight EXCEPT ![e] = w]
      BY <1>0, <3>1
    <3>4. QED
      BY <3>2, <3>3
  <2>3. CASE Denied(e)
    <3> DEFINE w == [flight[e] EXCEPT !.phase = "done", !.res = "invalid_grant"]
    <3>1. w \in Flights
      BY <1>0 DEF Flights
    <3>2. flight' = [flight EXCEPT ![e] = w]
      BY <1>0, <2>3 DEF Denied
    <3>3. QED
      BY <3>1, <3>2
  <2>4. CASE Lost(e)
    <3> DEFINE w == [flight[e] EXCEPT !.phase = "done", !.res = "err"]
    <3>1. w \in Flights
      BY <1>0 DEF Flights
    <3>2. flight' = [flight EXCEPT ![e] = w]
      BY <1>0, <2>4 DEF Lost
    <3>3. QED
      BY <3>1, <3>2
  <2>5. CASE Apply(e)
    <3> DEFINE w == [flight[e] EXCEPT !.phase = "dto"]
    <3>1. w \in Flights
      BY <1>0 DEF Flights
    <3>2. flight' = [flight EXCEPT ![e] = w]
      BY <1>0, <2>5 DEF Apply
    <3>3. QED
      BY <3>1, <3>2
  <2>6. CASE FlightDTO(e)
    <3> DEFINE w == [flight[e] EXCEPT !.phase = "hset", !.snap = acc[flight[e].obj]]
    <3>1. w \in Flights
      BY <1>0 DEF Flights
    <3>2. flight' = [flight EXCEPT ![e] = w]
      BY <1>0, <2>6 DEF FlightDTO
    <3>3. QED
      BY <3>1, <3>2
  <2>7. CASE FlightHSet(e)
    <3> DEFINE w == [flight[e] EXCEPT !.phase = "done", !.res = "ok"]
    <3>1. w \in Flights
      BY <1>0 DEF Flights
    <3>2. flight' = [flight EXCEPT ![e] = w]
      BY <1>0, <2>7 DEF FlightHSet
    <3>3. QED
      BY <3>1, <3>2
  <2>8. CASE FlightDone(e)
    BY <2>8, Blanks DEF FlightDone
  <2>9. QED
    BY <2>1, <2>2, <2>3, <2>4, <2>5, <2>6, <2>7, <2>8 DEF FlightStep
<1>2. QED
  BY <1>0, <1>1

\* A write to Redis.
LEMMA WriteFacts ==
    ASSUME TypeOK, NEW e \in Emails, NEW f \in Fields, HSet(e, f)
    PROVE  /\ stored' \subseteq Emails /\ row' \in [Emails -> Fields] /\ struck' \in BOOLEAN
           /\ stored \subseteq stored' /\ (~struck' => ~struck /\ e \in stored')
<1>1. CASE stored' = stored \cup {e} /\ row' = [row EXCEPT ![e] = f] /\ struck' = struck
  BY <1>1 DEF TypeOK
<1>2. CASE struck' = TRUE /\ UNCHANGED redisVars
  BY <1>2 DEF TypeOK, redisVars
<1>3. QED
  BY <1>1, <1>2 DEF HSet

\* Every step of a refresh keeps the types.
LEMMA FlightStepType ==
    ASSUME TypeOK, Answered, NEW e \in Emails, FlightStep(e)
    PROVE  TypeOK'
<1>0. /\ flight' \in [Emails -> Flights] /\ flight[e] \in Flights /\ flight[e].obj \in Obj
      /\ flight[e].tok \in Tok /\ flight[e].snap \in Fields
      /\ flight[e].res \in {"none", "ok", "invalid_grant", "err"}
  BY FlightType DEF TypeOK, Flights
<1>1. CASE ReadToken(e) \/ Denied(e) \/ FlightDTO(e)
  <2>1. UNCHANGED <<acc, gen, accounts, next, stored, row, logins, valid, struck, async, pc, obj, left, snap>>
    BY <1>1 DEF ReadToken, Denied, FlightDTO, poolVars, redisVars, serverVars, procVars
  <2>2. QED
    BY <1>0, <2>1 DEF TypeOK
<1>2. CASE Granted(e) \/ Lost(e)
  <2>1. UNCHANGED <<acc, gen, accounts, next, stored, row, logins, async, pc, obj, left, snap>>
    BY <1>2 DEF Granted, Lost, poolVars, redisVars, procVars
  <2>2. valid' \subseteq Tok /\ struck' \in BOOLEAN
    BY <1>0, <1>2 DEF Granted, Lost, Successors, TypeOK
  <2>3. QED
    BY <1>0, <2>1, <2>2 DEF TypeOK
<1>3. CASE Apply(e)
  <2>1. UNCHANGED <<gen, accounts, next, stored, row, logins, valid, struck, async, pc, obj, left, snap>>
    BY <1>3 DEF Apply, redisVars, serverVars, procVars
  <2>2. acc' \in [Obj -> Fields]
    <3> DEFINE o == flight[e].obj
               f == [acc[o] EXCEPT !.tok = flight[e].tok, !.life = "valid"]
    <3>1. acc \in [Obj -> Fields]
      BY DEF TypeOK
    <3>2. f \in Fields
      BY <1>0, <3>1 DEF Fields
    <3>3. acc' = [acc EXCEPT ![o] = f]
      BY <1>0, <1>3, <3>1 DEF Apply
    <3>4. QED
      BY <1>0, <3>1, <3>2, <3>3
  <2>3. QED
    BY <1>0, <2>1, <2>2 DEF TypeOK
<1>4. CASE FlightHSet(e)
  <2>1. UNCHANGED <<acc, gen, accounts, next, logins, valid, async, pc, obj, left, snap>>
    BY <1>4 DEF FlightHSet, poolVars, procVars
  <2>2. stored' \subseteq Emails /\ row' \in [Emails -> Fields] /\ struck' \in BOOLEAN
    BY <1>0, <1>4, WriteFacts DEF FlightHSet
  <2>3. QED
    BY <1>0, <2>1, <2>2 DEF TypeOK
<1>5. CASE FlightDone(e)
  <2>1. UNCHANGED <<acc, gen, accounts, next, stored, row, logins, valid, struck, async, obj, left, snap>>
    BY <1>5 DEF FlightDone, poolVars, redisVars, serverVars
  <2>2. pc' \in [Procs -> {"idle", "pick", "sent", "retry", "wait", "ok",
                         "invalid_grant", "err", "dto", "hset"}]
    BY <1>0, <1>5 DEF FlightDone, TypeOK, Answered
  <2>3. QED
    BY <1>0, <2>1, <2>2 DEF TypeOK
<1>6. QED
  BY <1>1, <1>2, <1>3, <1>4, <1>5 DEF FlightStep

\* So do the saves outside a refresh ...
LEMMA SavesType ==
    ASSUME TypeOK, NEW p \in Procs, SaveDTO(p) \/ SaveHSet(p)
    PROVE  TypeOK'
<1>0. obj[p] \in Obj /\ acc[obj[p]] \in Fields /\ snap[p] \in Fields /\ Email(obj[p]) \in Emails
  BY Blanks DEF TypeOK
<1>1. CASE SaveDTO(p)
  <2>1. UNCHANGED <<acc, gen, accounts, next, stored, row, logins, valid, struck, flight, async, obj, left>>
    BY <1>1 DEF SaveDTO, poolVars, redisVars, serverVars
  <2>2. QED
    BY <1>0, <1>1, <2>1 DEF SaveDTO, Go, TypeOK
<1>2. CASE SaveHSet(p)
  <2>1. UNCHANGED <<acc, gen, accounts, next, logins, valid, flight, async, left>>
    BY <1>2 DEF SaveHSet, poolVars
  <2>2. stored' \subseteq Emails /\ row' \in [Emails -> Fields] /\ struck' \in BOOLEAN
    BY <1>0, <1>2, WriteFacts DEF SaveHSet
  <2>3. QED
    BY <1>0, <1>2, <2>1, <2>2, Blanks, NoObjType DEF SaveHSet, Go, TypeOK
<1>3. QED
  BY <1>1, <1>2

\* ... the other steps of requests ...
LEMMA RequestType ==
    ASSUME TypeOK, NEW q \in Requests, Start(q) \/ RequestStep(q)
    PROVE  TypeOK'
<1>0. q \in Procs /\ obj[q] \in Obj /\ acc[obj[q]] \in Fields /\ accounts \in Seq(Obj)
  BY DEF TypeOK, Procs
<1>1. CASE Start(q) \/ End(q) \/ TryNext(q) \/ Retry(q)
  <2>1. UNCHANGED <<acc, gen, accounts, next, stored, row, logins, valid, struck, flight, async, snap>>
    BY <1>1 DEF Start, End, TryNext, Retry, poolVars, redisVars, serverVars
  <2>2. pc' \in [Procs -> {"idle", "pick", "sent", "retry", "wait", "ok",
                         "invalid_grant", "err", "dto", "hset"}]
    BY <1>0, <1>1 DEF Start, End, TryNext, Retry, Go, TypeOK
  <2>3. left' \in [Procs -> Nat] /\ obj' \in [Procs -> Obj]
    BY <1>0, <1>1, NoObjType DEF Start, End, TryNext, Retry, TypeOK
  <2>4. QED
    BY <2>1, <2>2, <2>3 DEF TypeOK
<1>2. CASE Pick(q)
  <2>1. UNCHANGED <<acc, gen, accounts, stored, row, logins, valid, struck, flight, snap>>
    BY <1>2 DEF Pick, redisVars, serverVars
  <2>2. PICK i \in DOMAIN accounts :
           /\ next' \in {i % Len(accounts), (next + 1) % Len(accounts)}
           /\ async' \in {async, async \cup {accounts[i]}}
           /\ obj' = [obj EXCEPT ![q] = accounts[i]]
    BY <1>2 DEF Pick
  <2>3. accounts[i] \in Obj /\ Len(accounts) \in Nat \ {0} /\ i \in Nat /\ next \in Nat
    BY <1>0 DEF TypeOK
  <2>4. next' \in Nat /\ async' \subseteq Obj /\ obj' \in [Procs -> Obj]
    BY <1>0, <2>2, <2>3 DEF TypeOK
  <2>5. left' \in [Procs -> Nat]
    BY <1>0, <1>2 DEF Pick, TypeOK
  <2>6. QED
    BY <1>0, <1>2, <2>1, <2>4, <2>5 DEF Pick, Go, TypeOK
<1>3. CASE Unauthorized(q)
  <2>1. UNCHANGED <<acc, gen, accounts, next, stored, row, logins, valid, struck, async, obj, left, snap>>
    BY <1>3 DEF Unauthorized, poolVars, redisVars, serverVars
  <2>2. flight' \in [Emails -> Flights]
    BY <1>0, <1>3, JoinFacts DEF Unauthorized
  <2>3. QED
    BY <1>0, <1>3, <2>1, <2>2 DEF Unauthorized, Go, TypeOK
<1>4. CASE PutOffFor(q) \/ Forbidden(q)
  <2>1. PICK f \in Fields : Set(q, f)
    BY <1>0, <1>4, FieldsKept DEF PutOffFor, Forbidden
  <2>2. UNCHANGED <<gen, accounts, next, stored, row, logins, valid, struck, flight, async, obj, left, snap>>
    BY <2>1 DEF Set, redisVars, serverVars
  <2>3. QED
    BY <1>0, <2>1, <2>2 DEF Set, Go, TypeOK
<1>5. QED
  BY <1>1, <1>2, <1>3, <1>4 DEF RequestStep

\* ... those of the workers ...
LEMMA WorkerType ==
    ASSUME TypeOK, NEW w \in Workers, NEW o \in Obj, WorkerStep(w) \/ PreWarm(w, o) \/ Reenable(w, o)
    PROVE  TypeOK'
<1>0. w \in Procs /\ obj[w] \in Obj /\ acc[obj[w]] \in Fields /\ acc[o] \in Fields
  BY DEF TypeOK, Procs
<1>1. CASE PreWarmed(w)
  <2>1. UNCHANGED <<acc, gen, accounts, next, stored, row, logins, valid, struck, flight, async, left, snap>>
    BY <1>1 DEF PreWarmed, poolVars, redisVars, serverVars
  <2>2. QED
    BY <1>0, <1>1, <2>1, NoObjType DEF PreWarmed, Go, TypeOK
<1>2. CASE Revoked(w)
  <2>1. PICK f \in Fields : Set(w, f)
    BY <1>0, <1>2, FieldsKept DEF Revoked
  <2>2. UNCHANGED <<gen, accounts, next, stored, row, logins, valid, struck, flight, async, obj, left, snap>>
    BY <2>1 DEF Set, redisVars, serverVars
  <2>3. QED
    BY <1>0, <2>1, <2>2 DEF Set, Go, TypeOK
<1>3. CASE PreWarm(w, o)
  <2>1. UNCHANGED <<acc, gen, accounts, next, stored, row, logins, valid, struck, async, left, snap>>
    BY <1>3 DEF PreWarm, poolVars, redisVars, serverVars
  <2>2. flight' \in [Emails -> Flights]
    BY <1>3, JoinFacts DEF PreWarm
  <2>3. QED
    BY <1>0, <1>3, <2>1, <2>2 DEF PreWarm, Go, TypeOK
<1>4. CASE Reenable(w, o)
  <2>1. UNCHANGED <<gen, accounts, next, stored, row, logins, valid, struck, flight, async, left, snap>>
    BY <1>4 DEF Reenable, redisVars, serverVars
  <2>2. acc' \in [Obj -> Fields]
    <3> DEFINE f == [acc[o] EXCEPT !.disabled = FALSE]
    <3>1. f \in Fields
      BY <1>0, FieldsKept
    <3>2. acc' = [acc EXCEPT ![o] = f]
      BY <1>4 DEF Reenable, TypeOK
    <3> HIDE DEF f
    <3>3. QED
      BY <3>1, <3>2 DEF TypeOK
  <2>3. QED
    BY <1>0, <1>4, <2>1, <2>2 DEF Reenable, Go, TypeOK
<1>5. QED
  BY <1>1, <1>2, <1>3, <1>4 DEF WorkerStep

\* An import: the account of the e-mail, or a new one, gets the new login.
LEMMA UpsertFacts ==
    ASSUME TypeOK, NEW a \in Admins, NEW e \in Emails, Upsert(a, e)
    PROVE  \E o \in Obj :
             /\ Email(o) = e /\ acc' = [acc EXCEPT ![o] = WithLogin(Login(logins + 1))]
             /\ obj' = [obj EXCEPT ![a] = o] /\ pc' = [pc EXCEPT ![a] = "dto"]
             /\ \/ o \in Pool /\ gen' = gen /\ accounts' = accounts
                \/ /\ gen' \in [Emails -> 0..MaxGen] /\ gen'[e] = o[2] /\ gen[e] = o[2] - 1
                   /\ \A x \in Emails \ {e} : gen'[x] = gen[x]
                   /\ accounts' = Append(accounts, o)
<1>1. CASE \E o \in Known(e) :
                 /\ acc' = [acc EXCEPT ![o] = WithLogin(Login(logins + 1))]
                 /\ obj' = [obj EXCEPT ![a] = o]
                 /\ UNCHANGED <<gen, accounts>>
  <2>1. PICK o \in Known(e) :
                 /\ acc' = [acc EXCEPT ![o] = WithLogin(Login(logins + 1))]
                 /\ obj' = [obj EXCEPT ![a] = o]
                 /\ UNCHANGED <<gen, accounts>>
    BY <1>1
  <2>2. o \in Pool /\ Email(o) = e /\ o \in Obj
    BY DEF Known, Pool, ToSet, TypeOK
  <2>3. QED
    BY <2>1, <2>2 DEF Upsert, Go
<1>2. CASE /\ gen[e] < MaxGen
           /\ gen' = [gen EXCEPT ![e] = gen[e] + 1]
           /\ acc' = [acc EXCEPT ![<<e, gen[e] + 1>>] = WithLogin(Login(logins + 1))]
           /\ accounts' = Append(accounts, <<e, gen[e] + 1>>)
           /\ obj' = [obj EXCEPT ![a] = <<e, gen[e] + 1>>]
  <2> DEFINE o == <<e, gen[e] + 1>>
  <2>0. gen \in [Emails -> 0..MaxGen] /\ gen[e] \in Nat
    BY BoundsAssumption DEF TypeOK
  <2>1. o \in Obj /\ Email(o) = e /\ o[2] = gen[e] + 1
    BY <1>2, <2>0, BoundsAssumption DEF Obj, Email
  <2>2. /\ gen' \in [Emails -> 0..MaxGen] /\ gen'[e] = o[2] /\ gen[e] = o[2] - 1
        /\ \A x \in Emails \ {e} : gen'[x] = gen[x]
    <3>1. gen' = [gen EXCEPT ![e] = gen[e] + 1] /\ gen[e] + 1 \in 0..MaxGen
      BY <1>2, <2>0, BoundsAssumption
    <3> HIDE DEF o
    <3>2. QED
      BY <2>0, <2>1, <3>1
  <2>3. pc' = [pc EXCEPT ![a] = "dto"]
    BY DEF Upsert, Go
  <2> HIDE DEF o
  <2>4. /\ acc' = [acc EXCEPT ![o] = WithLogin(Login(logins + 1))]
        /\ accounts' = Append(accounts, o) /\ obj' = [obj EXCEPT ![a] = o]
    BY <1>2 DEF o
  <2>5. QED
    BY <2>1, <2>2, <2>3, <2>4
<1>3. QED
  BY <1>1, <1>2 DEF Upsert

\* ... of administrators ...
LEMMA AdminType ==
    ASSUME TypeOK, NEW a \in Admins, NEW e \in Emails,
           HandleRefresh(a) \/ Cleanup(a) \/ Upsert(a, e) \/ DeleteAccount(a, e)
    PROVE  TypeOK'
<1>0. a \in Procs
  BY DEF Procs
<1>1. CASE HandleRefresh(a)
  <2>1. UNCHANGED <<acc, gen, accounts, next, stored, row, logins, valid, struck, flight, pc, obj, left, snap>>
    BY <1>1 DEF HandleRefresh, poolVars, redisVars, serverVars, procVars
  <2>2. Pool \subseteq Obj
    BY DEF TypeOK, Pool, ToSet
  <2>3. QED
    BY <1>1, <2>1, <2>2 DEF HandleRefresh, TypeOK
<1>2. ASSUME NEW gone, Drop(gone)
      PROVE  TypeOK'
  <2>1. UNCHANGED <<acc, gen, next, logins, valid, flight, async, pc, obj, left, snap>>
    BY <1>2 DEF Drop, procVars
  <2>2. accounts' \in Seq(Obj)
    BY <1>2, KeptFacts DEF Drop
  <2>3. stored' \subseteq Emails /\ row' \in [Emails -> Fields] /\ struck' \in BOOLEAN
    BY <1>2, Blanks DEF Drop, TypeOK
  <2>4. QED
    BY <2>1, <2>2, <2>3 DEF TypeOK
<1>3. CASE Upsert(a, e)
  <2>0. logins + 1 \in 0..MaxLogins /\ logins' = logins + 1 /\ valid' = valid \cup {Login(logins + 1)}
    BY <1>3, BoundsAssumption DEF Upsert, TypeOK
  <2>1. UNCHANGED <<next, stored, row, struck, flight, async, left, snap>>
    BY <1>3 DEF Upsert, redisVars
  <2>2. PICK o \in Obj :
             /\ acc' = [acc EXCEPT ![o] = WithLogin(Login(logins + 1))]
             /\ obj' = [obj EXCEPT ![a] = o] /\ pc' = [pc EXCEPT ![a] = "dto"]
             /\ gen' \in [Emails -> 0..MaxGen] /\ accounts' \in {accounts, Append(accounts, o)}
    BY <1>3, UpsertFacts, ZenonT(40) DEF TypeOK
  <2>3. WithLogin(Login(logins + 1)) \in Fields /\ Login(logins + 1) \in Tok
    BY <2>0, LoginType
  <2>4. accounts' \in Seq(Obj) /\ valid' \subseteq Tok
    <3>1. accounts \in Seq(Obj) /\ valid \subseteq Tok
      BY DEF TypeOK
    <3>2. Append(accounts, o) \in Seq(Obj)
      BY <3>1
    <3>3. QED
      BY <2>0, <2>2, <2>3, <3>1, <3>2
  <2>5. QED
    BY <1>0, <2>0, <2>1, <2>2, <2>3, <2>4 DEF TypeOK
<1>4. QED
  BY <1>1, <1>2, <1>3 DEF Cleanup, DeleteAccount

\* ... and of the environment.
LEMMA WorldType ==
    ASSUME TypeOK, Tick \/ Revoke \/ Restart \/ \E o \in Obj : AsyncRefresh(o)
    PROVE  TypeOK'
<1>1. CASE Tick
  <2>1. UNCHANGED <<gen, accounts, next, stored, logins, valid, struck, async, pc, obj, left>>
    BY <1>1 DEF Tick, serverVars
  <2>2. \A o \in Obj : Later(acc[o]) \in Fields
    BY FieldsKept DEF TypeOK
  <2>3. \A e \in Emails : Later(row[e]) \in Fields
    BY FieldsKept DEF TypeOK
  <2>4. \A p \in Procs : Later(snap[p]) \in Fields
    BY FieldsKept DEF TypeOK
  <2>5. \A e \in Emails : [flight[e] EXCEPT !.snap = Later(flight[e].snap)] \in Flights
    <3> SUFFICES ASSUME NEW e \in Emails
                 PROVE  [flight[e] EXCEPT !.snap = Later(flight[e].snap)] \in Flights
      OBVIOUS
    <3>1. flight[e] \in Flights /\ flight[e].snap \in Fields
      BY DEF TypeOK, Flights
    <3>2. Later(flight[e].snap) \in Fields
      BY <3>1, FieldsKept
    <3>3. QED
      BY <3>1, <3>2 DEF Flights
  <2>6. acc' \in [Obj -> Fields] /\ row' \in [Emails -> Fields] /\ snap' \in [Procs -> Fields]
    BY <1>1, <2>2, <2>3, <2>4 DEF Tick
  <2>7. flight' \in [Emails -> Flights]
    BY <1>1, <2>5 DEF Tick
  <2>8. QED
    BY <2>1, <2>6, <2>7 DEF TypeOK
<1>2. CASE Revoke
  <2>1. UNCHANGED <<acc, gen, accounts, next, stored, row, logins, flight, async, pc, obj, left, snap>>
    BY <1>2 DEF Revoke, poolVars, redisVars, procVars
  <2>2. QED
    BY <1>2, <2>1 DEF Revoke, TypeOK
<1>3. CASE Restart
  <2>1. UNCHANGED <<stored, row, logins, valid>>
    BY <1>3 DEF Restart, redisVars
  <2>2. acc' \in [Obj -> Fields]
    <3>1. \A o \in Obj : Parsed(row[Email(o)]) \in Fields
      BY FieldsKept, Blanks DEF TypeOK
    <3>2. QED
      BY <1>3, <3>1, Blanks DEF Restart
  <2>3. accounts' \in Seq(Obj)
    <3>1. PICK s \in SetToSeqs(stored) : accounts' = [i \in DOMAIN s |-> <<s[i], 1>>]
      BY <1>3 DEF Restart
    <3>2. stored \subseteq Emails
      BY DEF TypeOK
    <3>3. [i \in DOMAIN s |-> <<s[i], 1>>] \in Seq(Obj)
      BY <3>2, LoadedAre
    <3>4. QED
      BY <3>1, <3>3
  <2>4. gen' \in [Emails -> 0..MaxGen] /\ next' \in Nat /\ struck' \in BOOLEAN
    BY <1>3, BoundsAssumption DEF Restart
  <2>5. flight' \in [Emails -> Flights] /\ async' \subseteq Obj
    BY <1>3, Blanks DEF Restart
  <2>6. /\ pc' \in [Procs -> {"idle", "pick", "sent", "retry", "wait", "ok",
                         "invalid_grant", "err", "dto", "hset"}]
        /\ obj' \in [Procs -> Obj] /\ left' \in [Procs -> Nat] /\ snap' \in [Procs -> Fields]
    BY <1>3, Blanks, NoObjType DEF Restart
  <2>7. QED
    BY <2>1, <2>2, <2>3, <2>4, <2>5, <2>6 DEF TypeOK
<1>4. ASSUME NEW o \in Obj, AsyncRefresh(o)
      PROVE  TypeOK'
  <2>1. UNCHANGED <<acc, gen, accounts, next, stored, row, logins, valid, struck, pc, obj, left, snap>>
    BY <1>4 DEF AsyncRefresh, poolVars, redisVars, serverVars, procVars
  <2>2. flight' \in [Emails -> Flights]
    BY <1>4, JoinFacts DEF AsyncRefresh
  <2>3. QED
    BY <1>4, <2>1, <2>2 DEF AsyncRefresh, TypeOK
<1>5. QED
  BY <1>1, <1>2, <1>3, <1>4

-----------------------------------------------------------------------------
\* While nobody's tokens change, they stay accepted and apart.
LEMMA TokensStay ==
    ASSUME Accepted, Apart, NotDenied, gen' = gen, logins' = logins, valid' = valid,
           \A o \in Obj : acc'[o].tok = acc[o].tok,
           \A e \in Emails :
              /\ flight'[e].res # "invalid_grant"
              /\ \/ /\ flight'[e].phase = flight[e].phase /\ flight'[e].obj = flight[e].obj
                    /\ flight'[e].tok = flight[e].tok
                 \/ flight[e].phase # "apply" /\ flight'[e].phase \notin {"asking", "apply"}
    PROVE  Accepted' /\ Apart' /\ NotDenied'
<1>1. \A o \in Obj : Created(o)' <=> Created(o)
  BY DEF Created
<1>2. \A e \in Emails : Busy(e)' => Busy(e) /\ flight'[e].tok = flight[e].tok /\ flight'[e].obj = flight[e].obj
  BY DEF Busy
<1>3. NotDenied'
  BY DEF NotDenied
<1>4. Accepted'
  <2>1. \A o \in Obj : Email(o) \in Emails
    BY Blanks
  <2>2. QED
    BY <1>1, <1>2, <2>1 DEF Accepted
<1>5. Apart'
  BY <1>1, <1>2 DEF Apart
<1>6. QED
  BY <1>3, <1>4, <1>5

\* While nothing new is created, refreshes are of what exists.
LEMMA ExistingStay ==
    ASSUME Existing, gen' = gen, Pool' \subseteq Pool, async' \subseteq async \cup Pool,
           \A p \in Procs : pc'[p] = "sent" =>
              (pc[p] = "sent" /\ obj'[p] = obj[p]) \/ obj'[p] \in Pool,
           \A e \in Emails : flight'[e].phase # "none" =>
              \/ flight[e].phase # "none" /\ flight'[e].obj = flight[e].obj
              \/ Email(flight'[e].obj) = e /\ Created(flight'[e].obj)
    PROVE  Existing'
<1>1. \A o : Created(o)' <=> Created(o)
  BY DEF Created
<1>2. QED
  BY <1>1 DEF Existing

\* While no hash is removed of what stays in the pool, imports are kept.
LEMMA ImportedStay ==
    ASSUME Imported, Pool' \subseteq Pool,
           \A o \in Pool' : Email(o) \in stored => Email(o) \in stored',
           \A a \in Admins : pc[a] \in {"dto", "hset"} =>
              \/ pc'[a] \in {"dto", "hset"} /\ obj'[a] = obj[a]
              \/ Email(obj[a]) \in stored'
    PROVE  Imported'
BY DEF Imported

\* A refresh goes on.
LEMMA FlightQuiet ==
    ASSUME TypeOK, Quiet, Answered, NEW e \in Emails, FlightStep(e), ~struck'
    PROVE  Quiet'
<1>0. /\ Existing /\ Accepted /\ Apart /\ Imported /\ NotDenied
      /\ flight' \in [Emails -> Flights] /\ \A x \in Emails \ {e} : flight'[x] = flight[x]
      /\ flight[e] \in Flights /\ flight[e].obj \in Obj /\ flight \in [Emails -> Flights]
      /\ acc \in [Obj -> Fields]
  BY FlightType DEF Quiet, TypeOK, Flights
<1>a. UNCHANGED <<gen, accounts, logins, async>> /\ Pool' = Pool
  BY DEF FlightStep, ReadToken, Granted, Denied, Lost, Apply, FlightDTO, FlightHSet, FlightDone,
         poolVars, serverVars, Pool
<1>b. ASSUME UNCHANGED <<pc, obj, stored>>, flight'[e].obj = flight[e].obj, flight[e].phase # "none"
      PROVE  Existing' /\ Imported'
  <2>1. Existing'
    BY <1>0, <1>a, <1>b, ExistingStay
  <2>2. Imported'
    BY <1>0, <1>a, <1>b, ImportedStay
  <2>3. QED
    BY <2>1, <2>2
<1>c. \A o \in Obj : (Created(o)' <=> Created(o)) /\ Email(o) \in Emails
  BY <1>a, Blanks DEF Created
<1>1. CASE ReadToken(e)
  <2> DEFINE w == flight[e].obj
  <2>1. /\ UNCHANGED <<acc, stored, valid, pc, obj>> /\ flight[e].phase = "begin"
        /\ flight'[e].phase = "asking" /\ flight'[e].obj = w /\ flight'[e].res = flight[e].res
        /\ flight'[e].tok = acc[w].tok
    BY <1>0, <1>1 DEF ReadToken, poolVars, redisVars, serverVars, procVars, Flights
  <2>2. Email(w) = e /\ Created(w) /\ acc[w].tok \in valid
    BY <1>0, <2>1 DEF Existing, Accepted
  <2>3. Accepted'
    <3>1. \A x \in Emails : x # e => (Busy(x)' <=> Busy(x)) /\ flight'[x] = flight[x]
      BY <1>0 DEF Busy
    <3>2. \A x \in Emails : Busy(x)' => flight'[x].tok \in valid'
      BY <1>0, <2>1, <2>2, <3>1 DEF Accepted
    <3>3. \A o \in Obj : Created(o)' =>
             acc'[o].tok \in valid' \/ (flight'[Email(o)].phase = "apply" /\ flight'[Email(o)].obj = o)
      BY <1>0, <1>c, <2>1 DEF Accepted
    <3>4. QED
      BY <3>2, <3>3 DEF Accepted
  <2>4. Apart'
    <3>1. \A x \in Emails : x # e => (Busy(x)' <=> Busy(x)) /\ flight'[x] = flight[x]
      BY <1>0 DEF Busy
    <3>2. \A x \in Emails, o \in Obj :
             Busy(x)' /\ Created(o) /\ o # flight'[x].obj => flight'[x].tok.login # acc[o].tok.login
      BY <1>0, <2>1, <2>2, <3>1 DEF Apart
    <3>3. \A x \in Emails : Busy(x) /\ x # e => flight[x].obj # w
      BY <1>0, <2>2 DEF Existing, Busy
    <3>4. \A x \in Emails : Busy(x) /\ x # e => flight[x].tok.login # acc[w].tok.login
      BY <1>0, <2>2, <3>3 DEF Apart
    <3>5. \A x, y \in Emails : Busy(x)' /\ Busy(y)' /\ x # y => flight'[x].tok.login # flight'[y].tok.login
      BY <1>0, <2>1, <3>1, <3>4 DEF Apart
    <3>6. QED
      BY <1>0, <1>a, <1>c, <2>1, <3>2, <3>5 DEF Apart
  <2>5. NotDenied'
    BY <1>0, <2>1 DEF NotDenied
  <2>6. QED
    BY <1>b, <2>1, <2>3, <2>4, <2>5 DEF Quiet
<1>2. CASE Granted(e)
  <2> DEFINE w == flight[e].obj
             s == flight[e].tok
  <2>1. PICK t \in Successors(s) :
          /\ valid' = (valid \ {s}) \cup {t}
          /\ flight' = [flight EXCEPT ![e].phase = "apply", ![e].tok = t]
    BY <1>2 DEF Granted
  <2>2. /\ UNCHANGED <<acc, stored, pc, obj>> /\ flight[e].phase = "asking" /\ s \in valid
        /\ flight'[e].phase = "apply" /\ flight'[e].obj = w /\ flight'[e].res = flight[e].res
        /\ flight'[e].tok = t /\ t.login = s.login
    BY <1>0, <1>2, <2>1 DEF Granted, poolVars, redisVars, procVars, Flights, Successors
  <2>3. Email(w) = e /\ Created(w) /\ Busy(e) /\ s.login <= logins
    BY <1>0, <2>2 DEF Existing, Busy, Apart
  <2>4. \A x \in Emails : x # e => (Busy(x)' <=> Busy(x)) /\ flight'[x] = flight[x]
    BY <1>0 DEF Busy
  <2> HIDE DEF w, s
  <2>5. \A o \in Obj : Created(o) /\ o # w => acc[o].tok # s
    BY <1>0, <2>3 DEF Apart, w, s
  <2>6. \A x \in Emails : Busy(x) /\ x # e => flight[x].tok # s
    BY <1>0, <2>3 DEF Apart, s
  <2>7. Accepted'
    <3>1. \A o \in Obj : Created(o)' =>
             acc'[o].tok \in valid' \/ (flight'[Email(o)].phase = "apply" /\ flight'[Email(o)].obj = o)
      <4> SUFFICES ASSUME NEW o \in Obj, Created(o)
                   PROVE  acc[o].tok \in valid' \/ (flight'[Email(o)].phase = "apply" /\ flight'[Email(o)].obj = o)
        BY <1>c, <2>2
      <4>1. CASE o = w
        BY <2>2, <2>3, <4>1
      <4>2. CASE o # w /\ Email(o) = e
        BY <1>0, <2>1, <2>2, <2>5, <4>2 DEF Accepted, w
      <4>3. CASE o # w /\ Email(o) # e
        BY <1>0, <1>c, <2>1, <2>4, <2>5, <4>3 DEF Accepted
      <4>4. QED
        BY <4>1, <4>2, <4>3
    <3>2. \A x \in Emails : Busy(x)' => flight'[x].tok \in valid'
      BY <1>0, <2>1, <2>2, <2>4, <2>6 DEF Accepted
    <3>3. QED
      BY <3>1, <3>2 DEF Accepted
  <2>8. Apart'
    <3>1. \A x \in Emails, o \in Obj :
             Busy(x)' /\ Created(o) /\ o # flight'[x].obj => flight'[x].tok.login # acc[o].tok.login
      BY <1>0, <2>2, <2>3, <2>4 DEF Apart, w, s
    <3>2. \A x, y \in Emails : Busy(x)' /\ Busy(y)' /\ x # y => flight'[x].tok.login # flight'[y].tok.login
      BY <1>0, <2>2, <2>3, <2>4 DEF Apart, s
    <3>3. \A u \in valid' : u.login <= logins
      BY <1>0, <2>1, <2>2, <2>3 DEF Apart
    <3>4. QED
      BY <1>0, <1>a, <1>c, <2>2, <3>1, <3>2, <3>3 DEF Apart
  <2>9. NotDenied'
    BY <1>0, <2>2 DEF NotDenied
  <2>10. QED
    BY <1>b, <2>2, <2>7, <2>8, <2>9 DEF Quiet, w
<1>3. CASE Denied(e)
  BY <1>0, <1>3 DEF Denied, Accepted, Busy
<1>4. CASE Lost(e)
  BY <1>4 DEF Lost
<1>5. CASE Apply(e)
  <2> DEFINE w == flight[e].obj
             t == flight[e].tok
  <2>1. /\ UNCHANGED <<stored, valid, pc, obj>> /\ flight[e].phase = "apply"
        /\ flight'[e].phase = "dto" /\ flight'[e].obj = w /\ flight'[e].res = flight[e].res
    BY <1>0, <1>5 DEF Apply, redisVars, serverVars, procVars, Flights
  <2>2. acc'[w].tok = t /\ \A o \in Obj : o # w => acc'[o] = acc[o]
    BY <1>0, <1>5 DEF Apply, Fields
  <2>3. Email(w) = e /\ Created(w) /\ Busy(e) /\ t \in valid
    BY <1>0, <2>1 DEF Existing, Busy, Accepted
  <2>4. \A x \in Emails : Busy(x)' => Busy(x) /\ x # e /\ flight'[x] = flight[x]
    BY <1>0, <2>1 DEF Busy
  <2> HIDE DEF w, t
  <2>5. Accepted'
    <3>1. \A o \in Obj : Created(o)' =>
             acc'[o].tok \in valid' \/ (flight'[Email(o)].phase = "apply" /\ flight'[Email(o)].obj = o)
      <4> SUFFICES ASSUME NEW o \in Obj, Created(o)
                   PROVE  acc'[o].tok \in valid \/ (flight'[Email(o)].phase = "apply" /\ flight'[Email(o)].obj = o)
        BY <1>c, <2>1
      <4>1. CASE o = w
        BY <2>2, <2>3, <4>1
      <4>2. CASE o # w
        <5>1. acc[o].tok \in valid \/ (flight[Email(o)].phase = "apply" /\ flight[Email(o)].obj = o)
          BY <1>0 DEF Accepted
        <5>2. Email(o) = e => flight[Email(o)].obj # o
          BY <4>2 DEF w
        <5>3. QED
          BY <1>0, <1>c, <2>2, <4>2, <5>1, <5>2
      <4>3. QED
        BY <4>1, <4>2
    <3>2. \A x \in Emails : Busy(x)' => flight'[x].tok \in valid'
      BY <1>0, <2>1, <2>4 DEF Accepted
    <3>3. QED
      BY <3>1, <3>2 DEF Accepted
  <2>6. Apart'
    <3>1. \A o \in Obj : Created(o) => acc'[o].tok.login <= logins
      BY <1>0, <2>2, <2>3 DEF Apart
    <3>2. \A o, x \in Obj : Created(o) /\ Created(x) /\ o # x => acc'[o].tok.login # acc'[x].tok.login
      BY <1>0, <2>2, <2>3 DEF Apart, w, t
    <3>3. \A x \in Emails : Busy(x)' => flight[x].obj # w
      BY <1>0, <2>3, <2>4 DEF Existing, Busy
    <3>4. \A x \in Emails, o \in Obj :
             Busy(x)' /\ Created(o) /\ o # flight'[x].obj => flight'[x].tok.login # acc'[o].tok.login
      BY <1>0, <2>2, <2>3, <2>4, <3>3 DEF Apart, t
    <3>5. \A x, y \in Emails : Busy(x)' /\ Busy(y)' /\ x # y => flight'[x].tok.login # flight'[y].tok.login
      BY <1>0, <2>4 DEF Apart
    <3>6. QED
      BY <1>0, <1>a, <1>c, <2>1, <3>1, <3>2, <3>4, <3>5 DEF Apart
  <2>7. NotDenied'
    BY <1>0, <2>1 DEF NotDenied
  <2>8. QED
    BY <1>b, <2>1, <2>5, <2>6, <2>7 DEF Quiet, w
<1>6. CASE FlightDTO(e)
  <2>1. /\ UNCHANGED <<acc, stored, valid, pc, obj>> /\ flight[e].phase = "dto"
        /\ flight'[e].phase = "hset" /\ flight'[e].obj = flight[e].obj /\ flight'[e].res = flight[e].res
    BY <1>0, <1>6 DEF FlightDTO, poolVars, redisVars, serverVars, procVars, Flights
  <2>2. Accepted' /\ Apart' /\ NotDenied'
    <3>1. \A x \in Emails :
              /\ flight'[x].res # "invalid_grant"
              /\ \/ /\ flight'[x].phase = flight[x].phase /\ flight'[x].obj = flight[x].obj
                    /\ flight'[x].tok = flight[x].tok
                 \/ flight[x].phase # "apply" /\ flight'[x].phase \notin {"asking", "apply"}
      BY <1>0, <2>1 DEF NotDenied
    <3>2. QED
      BY <1>0, <1>a, <2>1, <3>1, TokensStay
  <2>3. QED
    BY <1>b, <2>1, <2>2 DEF Quiet
<1>7. CASE FlightHSet(e)
  <2>1. /\ UNCHANGED <<acc, valid, pc, obj>> /\ flight[e].phase = "hset"
        /\ flight'[e].phase = "done" /\ flight'[e].obj = flight[e].obj /\ flight'[e].res = "ok"
    BY <1>0, <1>7 DEF FlightHSet, poolVars, procVars, Flights
  <2>2. stored \subseteq stored'
    BY <1>7 DEF FlightHSet, HSet, redisVars
  <2>3. Accepted' /\ Apart' /\ NotDenied'
    <3>1. \A x \in Emails :
              /\ flight'[x].res # "invalid_grant"
              /\ \/ /\ flight'[x].phase = flight[x].phase /\ flight'[x].obj = flight[x].obj
                    /\ flight'[x].tok = flight[x].tok
                 \/ flight[x].phase # "apply" /\ flight'[x].phase \notin {"asking", "apply"}
      BY <1>0, <2>1 DEF NotDenied
    <3>2. QED
      BY <1>0, <1>a, <2>1, <3>1, TokensStay
  <2>4. Existing'
    BY <1>0, <1>a, <2>1, ExistingStay
  <2>5. Imported'
    BY <1>0, <1>a, <2>1, <2>2, ImportedStay
  <2>6. QED
    BY <2>3, <2>4, <2>5 DEF Quiet
<1>8. CASE FlightDone(e)
  <2>1. /\ UNCHANGED <<acc, stored, valid, obj>> /\ flight[e].phase = "done" /\ flight'[e] = NoFlight
        /\ pc' = [p \in Procs |-> IF pc[p] = "wait" /\ Email(obj[p]) = e THEN flight[e].res ELSE pc[p]]
    BY <1>0, <1>8 DEF FlightDone, poolVars, redisVars, serverVars
  <2>2. Accepted' /\ Apart' /\ NotDenied'
    <3>1. \A x \in Emails :
              /\ flight'[x].res # "invalid_grant"
              /\ \/ /\ flight'[x].phase = flight[x].phase /\ flight'[x].obj = flight[x].obj
                    /\ flight'[x].tok = flight[x].tok
                 \/ flight[x].phase # "apply" /\ flight'[x].phase \notin {"asking", "apply"}
      BY <1>0, <2>1, Blanks DEF NotDenied
    <3>2. QED
      BY <1>0, <1>a, <2>1, <3>1, TokensStay
  <2>3. \A p \in Procs : pc'[p] = pc[p] \/ (pc[p] = "wait" /\ pc'[p] \in {"none", "ok", "invalid_grant", "err"})
    BY <1>0, <2>1 DEF Flights
  <2>4. Existing'
    <3>1. \A p \in Procs : pc'[p] = "sent" => pc[p] = "sent" /\ obj'[p] = obj[p]
      BY <2>1, <2>3
    <3>2. \A x \in Emails : flight'[x].phase # "none" => flight[x].phase # "none" /\ flight'[x].obj = flight[x].obj
      BY <1>0, <2>1, Blanks
    <3>3. QED
      BY <1>0, <1>a, <3>1, <3>2, ExistingStay
  <2>5. Imported'
    <3>1. \A a \in Admins : pc[a] \in {"dto", "hset"} => pc'[a] \in {"dto", "hset"} /\ obj'[a] = obj[a]
      BY <2>1, <2>3 DEF Procs
    <3>2. QED
      BY <1>0, <1>a, <2>1, <3>1, ImportedStay
  <2>6. QED
    BY <2>2, <2>4, <2>5 DEF Quiet
<1>9. QED
  BY <1>1, <1>2, <1>3, <1>4, <1>5, <1>6, <1>7, <1>8 DEF FlightStep

\* Steps outside a refresh that keep the flights, the slice and the server's
\* side as they are.
LEMMA StillQuiet ==
    ASSUME TypeOK, Quiet, UNCHANGED <<gen, accounts, logins, valid, flight>>,
           async' \subseteq async \cup Pool, stored \subseteq stored',
           \A o \in Obj : acc'[o].tok = acc[o].tok,
           \A p \in Procs : pc'[p] = "sent" =>
              (pc[p] = "sent" /\ obj'[p] = obj[p]) \/ obj'[p] \in Pool,
           \A a \in Admins : pc[a] \in {"dto", "hset"} =>
              \/ pc'[a] \in {"dto", "hset"} /\ obj'[a] = obj[a]
              \/ Email(obj[a]) \in stored'
    PROVE  Quiet'
<1>0. Existing /\ Accepted /\ Apart /\ Imported /\ NotDenied /\ Pool' = Pool
  BY DEF Quiet, Pool
<1>1. Accepted' /\ Apart' /\ NotDenied'
  <2>1. \A x \in Emails :
              /\ flight'[x].res # "invalid_grant"
              /\ \/ /\ flight'[x].phase = flight[x].phase /\ flight'[x].obj = flight[x].obj
                    /\ flight'[x].tok = flight[x].tok
                 \/ flight[x].phase # "apply" /\ flight'[x].phase \notin {"asking", "apply"}
    BY <1>0 DEF NotDenied
  <2>2. QED
    BY <1>0, <2>1, TokensStay
<1>2. Existing'
  BY <1>0, ExistingStay
<1>3. Imported'
  BY <1>0, ImportedStay
<1>4. QED
  BY <1>0, <1>1, <1>2, <1>3 DEF Quiet

\* A call of Refresh on an account that exists.
LEMMA JoinQuiet ==
    ASSUME TypeOK, Quiet, UNCHANGED <<acc, gen, accounts, logins, valid, stored>>,
           NEW o \in Obj, Created(o), Join(o), async' \subseteq async,
           \A p \in Procs : pc'[p] = "sent" => pc[p] = "sent" /\ obj'[p] = obj[p],
           \A a \in Admins : pc[a] \in {"dto", "hset"} => pc'[a] = pc[a] /\ obj'[a] = obj[a]
    PROVE  Quiet'
<1>0. Existing /\ Accepted /\ Apart /\ Imported /\ NotDenied /\ Pool' = Pool
  BY DEF Quiet, Pool
<1>1. \A e \in Emails : \/ flight'[e] = flight[e]
                        \/ /\ flight[e].phase = "none" /\ e = Email(o) /\ flight'[e].phase = "begin"
                           /\ flight'[e].obj = o /\ flight'[e].res = "none"
  BY BeginType, Blanks DEF TypeOK, Join
<1>2. Accepted' /\ Apart' /\ NotDenied'
  <2>1. \A x \in Emails :
              /\ flight'[x].res # "invalid_grant"
              /\ \/ /\ flight'[x].phase = flight[x].phase /\ flight'[x].obj = flight[x].obj
                    /\ flight'[x].tok = flight[x].tok
                 \/ flight[x].phase # "apply" /\ flight'[x].phase \notin {"asking", "apply"}
    BY <1>0, <1>1 DEF NotDenied
  <2>2. QED
    BY <1>0, <2>1, TokensStay
<1>3. Existing'
  BY <1>0, <1>1, ExistingStay
<1>4. Imported'
  BY <1>0, ImportedStay
<1>5. QED
  BY <1>0, <1>2, <1>3, <1>4 DEF Quiet

\* The saves outside a refresh ...
LEMMA SavesQuiet ==
    ASSUME TypeOK, Quiet, NEW p \in Procs, SaveDTO(p) \/ SaveHSet(p), ~struck'
    PROVE  Quiet'
<1>0. obj[p] \in Obj /\ pc = [x \in Procs |-> pc[x]] /\ obj \in [Procs -> Obj]
  BY DEF TypeOK
<1>1. UNCHANGED <<acc, gen, accounts, logins, valid, flight, async>>
  BY DEF SaveDTO, SaveHSet, poolVars, serverVars
<1>2. CASE SaveDTO(p)
  <2>1. UNCHANGED <<stored, obj>> /\ pc[p] = "dto" /\ pc'[p] = "hset" /\ \A x \in Procs \ {p} : pc'[x] = pc[x]
    BY <1>0, <1>2 DEF SaveDTO, Go, redisVars
  <2>2. QED
    BY <1>1, <2>1, StillQuiet DEF Procs
<1>3. CASE SaveHSet(p)
  <2>1. stored \subseteq stored' /\ Email(obj[p]) \in stored'
    BY <1>3 DEF SaveHSet, HSet
  <2>2. /\ pc[p] = "hset" /\ pc'[p] \in {"pick", "idle"}
        /\ \A x \in Procs \ {p} : pc'[x] = pc[x] /\ obj'[x] = obj[x]
    BY <1>0, <1>3 DEF SaveHSet, Go
  <2>3. QED
    BY <1>1, <2>1, <2>2, StillQuiet DEF Procs
<1>4. QED
  BY <1>2, <1>3

\* ... the other steps of requests ...
LEMMA RequestQuiet ==
    ASSUME TypeOK, Quiet, NEW q \in Requests, Start(q) \/ RequestStep(q)
    PROVE  Quiet'
<1>0. /\ q \in Procs /\ obj[q] \in Obj /\ acc[obj[q]] \in Fields /\ accounts \in Seq(Obj)
      /\ pc = [x \in Procs |-> pc[x]] /\ obj \in [Procs -> Obj] /\ acc \in [Obj -> Fields]
  BY DEF TypeOK, Procs
<1>1. UNCHANGED <<gen, accounts, stored, logins, valid>>
  BY DEF Start, RequestStep, Pick, End, TryNext, Unauthorized, Retry, PutOffFor, Forbidden, Set,
         poolVars, redisVars, serverVars
<1>2. CASE Start(q) \/ End(q) \/ TryNext(q) \/ Retry(q)
  <2>1. UNCHANGED <<acc, flight, async>>
    BY <1>2 DEF Start, End, TryNext, Retry, poolVars
  <2>2. /\ pc[q] \notin {"dto", "hset"} /\ pc'[q] # "sent"
        /\ \A x \in Procs \ {q} : pc'[x] = pc[x] /\ obj'[x] = obj[x]
    BY <1>0, <1>2 DEF Start, End, TryNext, Retry, Go
  <2>3. QED
    BY <1>1, <2>1, <2>2, StillQuiet DEF Procs
<1>3. CASE Pick(q)
  <2>1. UNCHANGED <<acc, flight>>
    BY <1>3 DEF Pick
  <2>2. PICK i \in DOMAIN accounts : /\ async' \in {async, async \cup {accounts[i]}}
                                     /\ obj' = [obj EXCEPT ![q] = accounts[i]]
    BY <1>3 DEF Pick
  <2>3. accounts[i] \in Pool
    BY DEF Pool, ToSet
  <2>4. /\ pc[q] = "pick" /\ obj'[q] \in Pool
        /\ \A x \in Procs \ {q} : pc'[x] = pc[x] /\ obj'[x] = obj[x]
    BY <1>0, <1>3, <2>2, <2>3 DEF Pick, Go
  <2>5. async' \subseteq async \cup Pool
    BY <2>2, <2>3
  <2>6. QED
    BY <1>1, <2>1, <2>4, <2>5, StillQuiet DEF Procs
<1>4. CASE Unauthorized(q)
  <2>1. UNCHANGED <<acc, async, obj>> /\ Join(obj[q]) /\ pc[q] = "sent"
    BY <1>4 DEF Unauthorized, poolVars
  <2>2. pc'[q] = "wait" /\ \A x \in Procs \ {q} : pc'[x] = pc[x]
    BY <1>0, <1>4 DEF Unauthorized, Go
  <2>3. Created(obj[q])
    BY <1>0, <2>1 DEF Quiet, Existing
  <2>4. QED
    BY <1>0, <1>1, <2>1, <2>2, <2>3, JoinQuiet DEF Procs
<1>5. CASE PutOffFor(q) \/ Forbidden(q)
  <2>1. PICK f \in Fields : f.tok = acc[obj[q]].tok /\ Set(q, f)
    BY <1>0, <1>5, FieldsKept DEF PutOffFor, Forbidden
  <2>2. UNCHANGED <<flight, async, obj>> /\ acc' = [acc EXCEPT ![obj[q]] = f]
    BY <2>1 DEF Set
  <2>3. \A o \in Obj : acc'[o].tok = acc[o].tok
    BY <1>0, <2>1, <2>2
  <2>4. /\ pc[q] \notin {"dto", "hset"} /\ pc'[q] = "dto" /\ \A x \in Procs \ {q} : pc'[x] = pc[x]
    BY <1>0, <1>5, <2>1 DEF PutOffFor, Forbidden, Set, Go
  <2>5. QED
    BY <1>1, <2>2, <2>3, <2>4, StillQuiet DEF Procs
<1>6. QED
  BY <1>2, <1>3, <1>4, <1>5 DEF RequestStep

\* ... and those of the workers.
LEMMA WorkerQuiet ==
    ASSUME TypeOK, Quiet, NEW w \in Workers, NEW o \in Obj,
           WorkerStep(w) \/ PreWarm(w, o) \/ Reenable(w, o)
    PROVE  Quiet'
<1>0. /\ w \in Procs /\ obj[w] \in Obj /\ acc[obj[w]] \in Fields /\ acc[o] \in Fields
      /\ pc = [x \in Procs |-> pc[x]] /\ obj \in [Procs -> Obj] /\ acc \in [Obj -> Fields]
  BY DEF TypeOK, Procs
<1>1. UNCHANGED <<gen, accounts, stored, logins, valid, async>>
  BY DEF WorkerStep, PreWarmed, Revoked, PreWarm, Reenable, Set, poolVars, redisVars, serverVars
<1>2. CASE PreWarmed(w)
  <2>1. UNCHANGED <<acc, flight>>
    BY <1>2 DEF PreWarmed, poolVars
  <2>2. /\ pc[w] \notin {"dto", "hset"} /\ pc'[w] = "idle"
        /\ \A x \in Procs \ {w} : pc'[x] = pc[x] /\ obj'[x] = obj[x]
    BY <1>0, <1>2 DEF PreWarmed, Go
  <2>3. QED
    BY <1>1, <2>1, <2>2, StillQuiet DEF Procs
<1>3. CASE Revoked(w)
  <2>1. PICK f \in Fields : f.tok = acc[obj[w]].tok /\ Set(w, f)
    BY <1>0, <1>3, FieldsKept DEF Revoked
  <2>2. UNCHANGED <<flight, obj>> /\ acc' = [acc EXCEPT ![obj[w]] = f]
    BY <2>1 DEF Set
  <2>3. \A x \in Obj : acc'[x].tok = acc[x].tok
    BY <1>0, <2>1, <2>2
  <2>4. /\ pc[w] \notin {"dto", "hset"} /\ pc'[w] = "dto" /\ \A x \in Procs \ {w} : pc'[x] = pc[x]
    BY <1>0, <1>3, <2>1 DEF Revoked, Set, Go
  <2>5. QED
    BY <1>1, <2>2, <2>3, <2>4, StillQuiet DEF Procs
<1>4. CASE PreWarm(w, o)
  <2>1. UNCHANGED acc /\ Join(o) /\ pc[w] = "idle" /\ o \in Pool
    BY <1>4 DEF PreWarm, poolVars
  <2>2. pc'[w] = "wait" /\ \A x \in Procs \ {w} : pc'[x] = pc[x] /\ obj'[x] = obj[x]
    BY <1>0, <1>4 DEF PreWarm, Go
  <2>3. Created(o)
    BY <2>1 DEF Quiet, Existing
  <2>4. QED
    BY <1>0, <1>1, <2>1, <2>2, <2>3, JoinQuiet DEF Procs
<1>5. CASE Reenable(w, o)
  <2>1. UNCHANGED flight /\ acc' = [acc EXCEPT ![o].disabled = FALSE]
    BY <1>5 DEF Reenable
  <2>2. \A x \in Obj : acc'[x].tok = acc[x].tok
    BY <1>0, <2>1 DEF Fields
  <2>3. /\ pc[w] = "idle" /\ pc'[w] = "dto"
        /\ \A x \in Procs \ {w} : pc'[x] = pc[x] /\ obj'[x] = obj[x]
    BY <1>0, <1>5 DEF Reenable, Go
  <2>4. QED
    BY <1>1, <2>1, <2>2, <2>3, StillQuiet DEF Procs
<1>6. QED
  BY <1>2, <1>3, <1>4, <1>5 DEF WorkerStep

\* An import brings a login that nothing has yet.
LEMMA UpsertQuiet ==
    ASSUME TypeOK, Quiet, NEW a \in Admins, NEW e \in Emails, Upsert(a, e)
    PROVE  Quiet'
<1> DEFINE t == Login(logins + 1)
<1>0. /\ Existing /\ Accepted /\ Apart /\ Imported /\ NotDenied
      /\ a \in Procs /\ pc = [x \in Procs |-> pc[x]] /\ obj \in [Procs -> Obj]
      /\ acc \in [Obj -> Fields] /\ accounts \in Seq(Obj) /\ logins \in Nat
      /\ gen \in [Emails -> 0..MaxGen] /\ MaxGen \in Nat
  BY BoundsAssumption DEF Quiet, TypeOK, Procs
<1>1. /\ pc[a] = "idle" /\ logins' = logins + 1 /\ valid' = valid \cup {t}
      /\ UNCHANGED <<stored, flight, async>>
  BY DEF Upsert, redisVars
<1>2. t.login = logins + 1 /\ WithLogin(t).tok = t
  <2>1. logins + 1 \in 0..MaxLogins
    BY <1>0, BoundsAssumption DEF Upsert, TypeOK
  <2>2. QED
    BY <2>1, LoginType
<1>3. PICK o \in Obj :
             /\ Email(o) = e /\ acc' = [acc EXCEPT ![o] = WithLogin(t)]
             /\ obj' = [obj EXCEPT ![a] = o] /\ pc' = [pc EXCEPT ![a] = "dto"]
             /\ \/ o \in Pool /\ gen' = gen /\ accounts' = accounts
                \/ /\ gen' \in [Emails -> 0..MaxGen] /\ gen'[e] = o[2] /\ gen[e] = o[2] - 1
                   /\ \A x \in Emails \ {e} : gen'[x] = gen[x]
                   /\ accounts' = Append(accounts, o)
  BY UpsertFacts
<1> HIDE DEF t
<1>4. acc'[o].tok = t /\ \A x \in Obj : x # o => acc'[x] = acc[x]
  BY <1>0, <1>2, <1>3
<1>5. /\ pc'[a] = "dto" /\ obj'[a] = o
      /\ \A x \in Procs \ {a} : pc'[x] = pc[x] /\ obj'[x] = obj[x]
  BY <1>0, <1>3
<1>6. /\ Created(o)'
      /\ \A x \in Obj : x # o => (Created(x)' <=> Created(x))
      /\ \A x \in Obj : Created(x) => Created(x)'
      /\ Pool' \subseteq Pool \cup {o}
  <2>1. CASE o \in Pool /\ gen' = gen /\ accounts' = accounts
    BY <1>0, <2>1 DEF Existing, Created, Pool
  <2>2. CASE /\ gen' \in [Emails -> 0..MaxGen] /\ gen'[e] = o[2] /\ gen[e] = o[2] - 1
             /\ \A x \in Emails \ {e} : gen'[x] = gen[x]
             /\ accounts' = Append(accounts, o)
    <3>1. \A x \in Obj : x[1] \in Emails /\ x[2] \in Nat /\ x = <<x[1], x[2]>>
      BY <1>0 DEF Obj
    <3>2. Created(o)'
      BY <1>3, <2>2, <3>1 DEF Created
    <3>3. \A x \in Obj : x # o => (Created(x)' <=> Created(x))
      <4> SUFFICES ASSUME NEW x \in Obj, x # o
                   PROVE  Created(x)' <=> Created(x)
        OBVIOUS
      <4>1. CASE x[1] = e
        <5>1. x[2] # o[2]
          BY <1>3, <3>1, <4>1 DEF Email
        <5>2. QED
          BY <2>2, <3>1, <4>1, <5>1 DEF Created, Email
      <4>2. CASE x[1] # e
        BY <2>2, <3>1, <4>2 DEF Created, Email
      <4>3. QED
        BY <4>1, <4>2
    <3>4. Pool' \subseteq Pool \cup {o}
      BY <1>0, <2>2 DEF Pool, ToSet
    <3>5. QED
      BY <3>2, <3>3, <3>4
  <2>3. QED
    BY <1>3, <2>1, <2>2
<1>7. \A x \in Emails : Busy(x)' <=> Busy(x)
  BY <1>1 DEF Busy
<1>8. Existing'
  <2>1. Pool \subseteq Obj /\ async \subseteq Obj /\ \A x \in Emails : flight[x].obj \in Obj
    BY DEF TypeOK, Pool, ToSet, Flights
  <2>2. \A x \in Pool' : Created(x)'
    BY <1>0, <1>6, <2>1 DEF Existing
  <2>3. \A x \in async' : Created(x)'
    BY <1>0, <1>1, <1>6, <2>1 DEF Existing
  <2>a. \A x \in Obj : Created(x) => x[2] <= gen'[Email(x)]
    BY <1>6 DEF Created
  <2>4. \A p \in Procs : pc'[p] = "sent" => obj'[p][2] <= gen'[Email(obj'[p])]
    <3> SUFFICES ASSUME NEW p \in Procs, pc'[p] = "sent"
                 PROVE  obj'[p][2] <= gen'[Email(obj'[p])]
      OBVIOUS
    <3>1. pc[p] = "sent" /\ obj'[p] = obj[p]
      BY <1>5
    <3>2. Created(obj[p]) /\ obj[p] \in Obj
      BY <1>0, <3>1 DEF Existing
    <3>3. QED
      BY <2>a, <3>1, <3>2
  <2>5. \A x \in Emails : flight'[x].phase # "none" =>
          Email(flight'[x].obj) = x /\ flight'[x].obj[2] <= gen'[Email(flight'[x].obj)]
    <3> SUFFICES ASSUME NEW x \in Emails, flight[x].phase # "none"
                 PROVE  Email(flight[x].obj) = x /\ flight[x].obj[2] <= gen'[Email(flight[x].obj)]
      BY <1>1
    <3>1. Email(flight[x].obj) = x /\ Created(flight[x].obj) /\ flight[x].obj \in Obj
      BY <1>0, <2>1 DEF Existing
    <3>2. QED
      BY <2>a, <3>1
  <2>6. QED
    BY <2>2, <2>3, <2>4, <2>5 DEF Existing, Created, Email
<1>9. Accepted'
  <2>1. \A x \in Obj : Created(x)' =>
          acc'[x].tok \in valid' \/ (flight'[Email(x)].phase = "apply" /\ flight'[Email(x)].obj = x)
    BY <1>0, <1>1, <1>4, <1>6 DEF Accepted
  <2>2. \A x \in Emails : Busy(x)' => flight'[x].tok \in valid'
    BY <1>0, <1>1, <1>7 DEF Accepted
  <2>3. QED
    BY <2>1, <2>2 DEF Accepted
<1>10. Apart'
  <2>0. /\ \A x \in Obj : acc[x].tok.login \in Nat
        /\ \A x \in Emails : flight[x].tok.login \in Nat
        /\ \A u \in valid : u.login \in Nat
    <3>1. \A u \in Tok : u.login \in Nat
      BY BoundsAssumption DEF Tok
    <3>2. \A x \in Obj : acc[x].tok \in Tok
      BY <1>0 DEF Fields
    <3>3. \A x \in Emails : flight[x].tok \in Tok
      BY DEF TypeOK, Flights
    <3>4. valid \subseteq Tok
      BY DEF TypeOK
    <3>5. QED
      BY <3>1, <3>2, <3>3, <3>4
  <2>1. \A x \in Obj : Created(x) => acc[x].tok.login < t.login
    BY <1>0, <1>2, <2>0 DEF Apart
  <2>2. \A x \in Emails : Busy(x) => flight[x].tok.login < t.login
    BY <1>0, <1>2, <2>0 DEF Accepted, Apart
  <2>3. \A x \in Obj : Created(x)' => acc'[x].tok.login <= logins'
    BY <1>0, <1>1, <1>2, <1>4, <1>6, <2>0, <2>1
  <2>4. \A u \in valid' : u.login <= logins'
    BY <1>0, <1>1, <1>2, <2>0 DEF Apart
  <2>5. \A x, y \in Obj : Created(x)' /\ Created(y)' /\ x # y => acc'[x].tok.login # acc'[y].tok.login
    <3> SUFFICES ASSUME NEW x \in Obj, NEW y \in Obj, Created(x)', Created(y)', x # y
                 PROVE  acc'[x].tok.login # acc'[y].tok.login
      OBVIOUS
    <3>1. CASE x = o
      BY <1>2, <1>0, <1>4, <1>6, <2>0, <2>1, <3>1
    <3>2. CASE y = o
      BY <1>2, <1>0, <1>4, <1>6, <2>0, <2>1, <3>2
    <3>3. CASE x # o /\ y # o
      BY <1>0, <1>4, <1>6, <3>3 DEF Apart
    <3>4. QED
      BY <3>1, <3>2, <3>3
  <2>6. \A x \in Emails, y \in Obj :
          Busy(x)' /\ Created(y)' /\ y # flight'[x].obj => flight'[x].tok.login # acc'[y].tok.login
    <3> SUFFICES ASSUME NEW x \in Emails, NEW y \in Obj, Busy(x), Created(y)', y # flight[x].obj
                 PROVE  flight[x].tok.login # acc'[y].tok.login
      BY <1>1, <1>7
    <3>1. CASE y = o
      BY <1>2, <1>0, <1>4, <2>0, <2>2, <3>1
    <3>2. CASE y # o
      BY <1>0, <1>4, <1>6, <3>2 DEF Apart
    <3>3. QED
      BY <3>1, <3>2
  <2>7. \A x, y \in Emails : Busy(x)' /\ Busy(y)' /\ x # y => flight'[x].tok.login # flight'[y].tok.login
    BY <1>0, <1>1, <1>7 DEF Apart
  <2>8. QED
    BY <2>3, <2>4, <2>5, <2>6, <2>7 DEF Apart
<1>11. Imported'
  <2> SUFFICES ASSUME NEW x \in Pool'
               PROVE  Email(x) \in stored' \/
                        \E b \in Admins : pc'[b] \in {"dto", "hset"} /\ Email(obj'[b]) = Email(x)
    BY DEF Imported
  <2>1. CASE x = o
    BY <1>5, <2>1
  <2>2. CASE x \in Pool
    <3>1. Email(x) \in stored \/ \E b \in Admins : pc[b] \in {"dto", "hset"} /\ Email(obj[b]) = Email(x)
      BY <1>0, <2>2 DEF Imported
    <3>2. \A b \in Admins : pc[b] \in {"dto", "hset"} => pc'[b] = pc[b] /\ obj'[b] = obj[b]
      BY <1>1, <1>5 DEF Procs
    <3>3. QED
      BY <1>1, <3>1, <3>2
  <2>3. QED
    BY <1>6, <2>1, <2>2
<1>12. NotDenied'
  BY <1>0, <1>1 DEF NotDenied
<1>13. QED
  BY <1>8, <1>9, <1>10, <1>11, <1>12 DEF Quiet

\* A removal takes the account and its hash at once.
LEMMA DropQuiet ==
    ASSUME TypeOK, Quiet, NEW gone, Drop(gone), ~struck'
    PROVE  Quiet'
<1>0. Existing /\ Accepted /\ Apart /\ Imported /\ NotDenied
  BY DEF Quiet
<1>1. UNCHANGED <<acc, gen, logins, valid, flight, async, pc, obj>>
  BY DEF Drop, procVars
<1>2. \A o \in Pool' : o \in Pool /\ Email(o) \notin gone
  BY KeptFacts DEF Drop
<1>3. stored \subseteq stored' \cup gone
  BY DEF Drop
<1>4. Accepted' /\ Apart' /\ NotDenied'
  <2>1. \A x \in Emails :
              /\ flight'[x].res # "invalid_grant"
              /\ \/ /\ flight'[x].phase = flight[x].phase /\ flight'[x].obj = flight[x].obj
                    /\ flight'[x].tok = flight[x].tok
                 \/ flight[x].phase # "apply" /\ flight'[x].phase \notin {"asking", "apply"}
    BY <1>0, <1>1 DEF NotDenied
  <2>2. QED
    BY <1>0, <1>1, <2>1, TokensStay
<1>5. Pool' \subseteq Pool
  BY <1>2
<1>6. Existing'
  BY <1>0, <1>1, <1>5, ExistingStay
<1>7. Imported'
  BY <1>0, <1>1, <1>2, <1>3, <1>5, ImportedStay
<1>8. QED
  BY <1>4, <1>6, <1>7 DEF Quiet

\* The administrators' operations.
LEMMA AdminQuiet ==
    ASSUME TypeOK, Quiet, NEW a \in Admins, NEW e \in Emails, ~struck',
           HandleRefresh(a) \/ Cleanup(a) \/ Upsert(a, e) \/ DeleteAccount(a, e)
    PROVE  Quiet'
<1>1. CASE HandleRefresh(a)
  <2>1. /\ UNCHANGED <<acc, gen, accounts, logins, valid, flight, stored, pc, obj>>
        /\ async' = async \cup Pool
    BY <1>1 DEF HandleRefresh, poolVars, redisVars, serverVars, procVars
  <2>2. QED
    BY <2>1, StillQuiet
<1>2. CASE Cleanup(a)
  BY <1>2, DropQuiet DEF Cleanup
<1>3. CASE DeleteAccount(a, e)
  BY <1>3, DropQuiet DEF DeleteAccount
<1>4. CASE Upsert(a, e)
  BY <1>4, UpsertQuiet
<1>5. QED
  BY <1>1, <1>2, <1>3, <1>4

\* Time passes for the records of the refreshes, too: only their snapshots age.
LEMMA TickFlights ==
    ASSUME TypeOK, Tick
    PROVE  \A e \in Emails :
             /\ flight'[e].phase = flight[e].phase /\ flight'[e].obj = flight[e].obj
             /\ flight'[e].tok = flight[e].tok /\ flight'[e].res = flight[e].res
<1> SUFFICES ASSUME NEW e \in Emails
             PROVE  /\ flight'[e].phase = flight[e].phase /\ flight'[e].obj = flight[e].obj
                    /\ flight'[e].tok = flight[e].tok /\ flight'[e].res = flight[e].res
  OBVIOUS
<1>1. flight[e] \in Flights
  BY DEF TypeOK
<1>2. flight'[e] = [flight[e] EXCEPT !.snap = Later(flight[e].snap)]
  BY DEF Tick
<1>3. QED
  BY <1>1, <1>2 DEF Flights

\* The passing of time, and the refreshes that nobody waits for.
LEMMA WorldQuiet ==
    ASSUME TypeOK, Quiet, ~struck', Tick \/ Revoke \/ Restart \/ \E o \in Obj : AsyncRefresh(o)
    PROVE  Quiet'
<1>1. CASE Tick
  <2>0. Existing /\ Accepted /\ Apart /\ Imported /\ NotDenied
    BY DEF Quiet
  <2>1. UNCHANGED <<gen, accounts, logins, valid, stored, async, pc, obj>> /\ Pool' = Pool
    BY <1>1 DEF Tick, serverVars, Pool
  <2>2. \A o \in Obj : acc'[o].tok = acc[o].tok
    BY <1>1, FieldsKept DEF Tick, TypeOK
  <2>3. Accepted' /\ Apart' /\ NotDenied'
    <3>1. \A x \in Emails :
              /\ flight'[x].res # "invalid_grant"
              /\ \/ /\ flight'[x].phase = flight[x].phase /\ flight'[x].obj = flight[x].obj
                    /\ flight'[x].tok = flight[x].tok
                 \/ flight[x].phase # "apply" /\ flight'[x].phase \notin {"asking", "apply"}
      BY <1>1, <2>0, TickFlights DEF NotDenied
    <3>2. QED
      BY <2>0, <2>1, <2>2, <3>1, TokensStay
  <2>4. Existing'
    BY <1>1, <2>0, <2>1, TickFlights, ExistingStay
  <2>5. Imported'
    BY <2>0, <2>1, ImportedStay
  <2>6. QED
    BY <2>3, <2>4, <2>5 DEF Quiet
<1>2. CASE Revoke \/ Restart
  BY <1>2 DEF Revoke, Restart
<1>3. ASSUME NEW o \in Obj, AsyncRefresh(o)
      PROVE  Quiet'
  <2>1. /\ UNCHANGED <<acc, gen, accounts, logins, valid, stored, pc, obj>>
        /\ o \in async /\ async' \subseteq async /\ Join(o)
    BY <1>3 DEF AsyncRefresh, poolVars, redisVars, serverVars, procVars
  <2>2. Created(o)
    BY <2>1 DEF Quiet, Existing
  <2>3. QED
    BY <2>1, <2>2, JoinQuiet
<1>4. QED
  BY <1>1, <1>2, <1>3

\* A fault that has struck is not forgotten.
LEMMA StruckStays ==
    ASSUME TypeOK, [Next]_vars, struck
    PROVE  struck'
<1>1. CASE UNCHANGED vars
  BY <1>1 DEF vars, serverVars
<1>2. ASSUME NEW e \in Emails, FlightStep(e)
      PROVE  struck'
  BY <1>2 DEF FlightStep, ReadToken, Granted, Denied, Lost, Apply, FlightDTO, FlightHSet, HSet,
              FlightDone, serverVars
<1>3. ASSUME NEW o \in Obj, AsyncRefresh(o)
      PROVE  struck'
  BY <1>3 DEF AsyncRefresh, serverVars
<1>4. ASSUME NEW p \in Procs, SaveDTO(p) \/ SaveHSet(p)
      PROVE  struck'
  BY <1>4 DEF SaveDTO, SaveHSet, HSet, serverVars
<1>5. ASSUME NEW q \in Requests, Start(q) \/ RequestStep(q)
      PROVE  struck'
  BY <1>5 DEF Start, RequestStep, Pick, End, TryNext, Unauthorized, Retry, PutOffFor, Forbidden, Set,
              serverVars
<1>6. ASSUME NEW w \in Workers, NEW o \in Obj, WorkerStep(w) \/ PreWarm(w, o) \/ Reenable(w, o)
      PROVE  struck'
  BY <1>6 DEF WorkerStep, PreWarmed, Revoked, PreWarm, Reenable, Set, serverVars
<1>6a. ASSUME NEW w \in Workers, WorkerStep(w)
       PROVE  struck'
  BY <1>6, <1>6a, NoObjType
<1>7. ASSUME NEW a \in Admins, NEW e \in Emails, Upsert(a, e) \/ DeleteAccount(a, e)
      PROVE  struck'
  BY <1>7 DEF Upsert, DeleteAccount, Drop
<1>8. ASSUME NEW a \in Admins, HandleRefresh(a) \/ Cleanup(a)
      PROVE  struck'
  BY <1>8 DEF HandleRefresh, Cleanup, Drop, serverVars
<1>9. CASE Tick \/ Revoke \/ Restart
  BY <1>9 DEF Tick, Revoke, Restart, serverVars
<1>10. QED
  BY <1>1, <1>2, <1>3, <1>4, <1>5, <1>6, <1>6a, <1>7, <1>8, <1>9 DEF Next

\* Every refresh that ends gets its result in the step that ends it.
LEMMA AnsweredStays ==
    ASSUME TypeOK, Answered, [Next]_vars
    PROVE  Answered'
<1>0. flight \in [Emails -> Flights]
  BY DEF TypeOK
<1>1. ASSUME UNCHANGED flight
      PROVE  Answered'
  BY <1>1 DEF Answered
<1>2. ASSUME NEW o \in Obj, Join(o)
      PROVE  Answered'
  BY <1>2, JoinFacts, BeginType DEF Answered
<1>3. ASSUME NEW e \in Emails, FlightStep(e)
      PROVE  Answered'
  <2>1. \A x \in Emails \ {e} : flight'[x] = flight[x]
    BY <1>3, FlightType
  <2>2. flight'[e].phase = "done" => flight'[e].res # "none"
    <3>1. CASE ReadToken(e) \/ Granted(e) \/ Apply(e) \/ FlightDTO(e)
      BY <1>0, <3>1 DEF ReadToken, Granted, Apply, FlightDTO, Flights
    <3>2. CASE Denied(e) \/ Lost(e) \/ FlightHSet(e)
      BY <1>0, <3>2 DEF Denied, Lost, FlightHSet, Flights
    <3>3. CASE FlightDone(e)
      BY <1>0, <3>3, Blanks DEF FlightDone
    <3>4. QED
      BY <1>3, <3>1, <3>2, <3>3 DEF FlightStep
  <2>3. QED
    BY <2>1, <2>2 DEF Answered
<1>4. CASE UNCHANGED vars
  BY <1>1, <1>4 DEF vars
<1>5. ASSUME NEW o \in Obj, AsyncRefresh(o)
      PROVE  Answered'
  BY <1>2, <1>5 DEF AsyncRefresh
<1>6. ASSUME NEW p \in Procs, SaveDTO(p) \/ SaveHSet(p)
      PROVE  Answered'
  BY <1>1, <1>6 DEF SaveDTO, SaveHSet
<1>7. ASSUME NEW q \in Requests, Start(q) \/ RequestStep(q)
      PROVE  Answered'
  <2>1. CASE Unauthorized(q)
    <3>1. obj[q] \in Obj
      BY DEF TypeOK, Procs
    <3>2. QED
      BY <1>2, <2>1, <3>1 DEF Unauthorized
  <2>2. CASE ~Unauthorized(q)
    BY <1>1, <1>7, <2>2 DEF Start, RequestStep, Pick, End, TryNext, Retry, PutOffFor, Forbidden, Set
  <2>3. QED
    BY <2>1, <2>2
<1>8. ASSUME NEW w \in Workers, WorkerStep(w)
      PROVE  Answered'
  BY <1>1, <1>8 DEF WorkerStep, PreWarmed, Revoked, Set
<1>9. ASSUME NEW w \in Workers, NEW o \in Obj, PreWarm(w, o) \/ Reenable(w, o)
      PROVE  Answered'
  BY <1>1, <1>2, <1>9 DEF PreWarm, Reenable
<1>10. ASSUME NEW a \in Admins, HandleRefresh(a) \/ Cleanup(a)
       PROVE  Answered'
  BY <1>1, <1>10 DEF HandleRefresh, Cleanup, Drop
<1>11. ASSUME NEW a \in Admins, NEW e \in Emails, Upsert(a, e) \/ DeleteAccount(a, e)
       PROVE  Answered'
  BY <1>1, <1>11 DEF Upsert, DeleteAccount, Drop
<1>12. CASE Tick
  BY <1>12, TickFlights DEF Answered
<1>13. CASE Revoke
  BY <1>1, <1>13 DEF Revoke
<1>14. CASE Restart
  BY <1>14, Blanks DEF Restart, Answered
<1>15. QED
  BY <1>3, <1>4, <1>5, <1>6, <1>7, <1>8, <1>9, <1>10, <1>11, <1>12, <1>13, <1>14 DEF Next

-----------------------------------------------------------------------------
\* The pool starts with the accounts Redis has, each with a login of its own.
LEMMA GrokInit == Init => GrokInv
<1> SUFFICES ASSUME Init
             PROVE  GrokInv
  OBVIOUS
<1>1. PICK es \in UNION {SetToSeqs(s) : s \in SUBSET Emails} :
          /\ accounts = [i \in DOMAIN es |-> <<es[i], 1>>]
          /\ stored = ToSet(es)
          /\ logins = Len(es)
          /\ valid = {Login(i) : i \in DOMAIN es}
          /\ row = [e \in Emails |->
                       IF e \in ToSet(es)
                       THEN WithLogin(Login(CHOOSE i \in DOMAIN es : es[i] = e))
                       ELSE Blank]
  BY DEF Init
<1>2. /\ Len(es) \in Nat /\ DOMAIN es = 1..Len(es) /\ accounts \in Seq(Obj)
      /\ stored \subseteq Emails
      /\ \A o \in Pool : Email(o) \in stored /\ o[2] = 1
  <2>1. PICK S \in SUBSET Emails : es \in SetToSeqs(S)
    BY <1>1
  <2>2. /\ es \in Seq(S) /\ Len(es) \in Nat /\ DOMAIN es = 1..Len(es) /\ accounts \in Seq(Obj)
        /\ \A o \in Pool : Email(o) \in stored /\ o[2] = 1
    BY <1>1, <2>1, LoadedAre, ZenonT(40) DEF Pool
  <2>3. stored \subseteq Emails
    BY <1>1, <2>2 DEF ToSet
  <2>4. QED
    BY <2>2, <2>3
<1>3. \A i \in DOMAIN es : /\ i \in 0..MaxLogins /\ i \in 1..logins
                           /\ Login(i) \in Tok /\ Login(i).login = i /\ Login(i) \in valid
                           /\ WithLogin(Login(i)) \in Fields /\ WithLogin(Login(i)).tok = Login(i)
  <2>1. \A i \in DOMAIN es : i \in 0..MaxLogins /\ i \in 1..logins
    BY <1>1, <1>2, BoundsAssumption DEF Init
  <2>2. QED
    BY <1>1, <2>1, LoginType
<1> DEFINE place(e) == CHOOSE i \in DOMAIN es : es[i] = e
<1>4. \A e \in stored : place(e) \in DOMAIN es /\ es[place(e)] = e
  BY <1>1 DEF ToSet
<1>5. \A e \in Emails : row[e] = IF e \in stored THEN WithLogin(Login(place(e))) ELSE Blank
  BY <1>1
<1> HIDE DEF place
<1>6. row \in [Emails -> Fields]
  <2>1. \A e \in Emails : row[e] \in Fields
    BY <1>3, <1>4, <1>5, Blanks
  <2>2. row = [e \in Emails |-> row[e]]
    BY <1>1
  <2>3. QED
    BY <2>1, <2>2
<1>7. TypeOK
  <2>1. acc \in [Obj -> Fields]
    BY <1>6, Blanks DEF Init
  <2>2. gen \in [Emails -> 0..MaxGen]
    BY BoundsAssumption DEF Init
  <2>3. logins \in 0..MaxLogins /\ next \in Nat
    BY <1>1, <1>2, BoundsAssumption DEF Init
  <2>9. struck \in BOOLEAN /\ async \subseteq Obj
    BY DEF Init
  <2>4. valid \subseteq Tok
    BY <1>1, <1>3
  <2>5. flight \in [Emails -> Flights]
    BY Blanks DEF Init
  <2>6. pc \in [Procs -> {"idle", "pick", "sent", "retry", "wait", "ok",
                         "invalid_grant", "err", "dto", "hset"}]
    BY DEF Init
  <2>7. obj \in [Procs -> Obj] /\ left \in [Procs -> Nat] /\ snap \in [Procs -> Fields]
    BY Blanks, NoObjType DEF Init
  <2>8. QED
    BY <1>2, <1>6, <2>1, <2>2, <2>3, <2>4, <2>5, <2>6, <2>7, <2>9 DEF TypeOK
<1>8. \A e \in Emails : flight[e].phase = "none" /\ flight[e].res = "none"
  BY Blanks DEF Init
<1>9. Answered
  BY <1>8 DEF Answered
<1>10. \A o \in Obj : Created(o) <=> o[2] = 1 /\ Email(o) \in stored
  <2> SUFFICES ASSUME NEW o \in Obj
               PROVE  Created(o) <=> o[2] = 1 /\ Email(o) \in stored
    OBVIOUS
  <2>1. Email(o) \in Emails /\ o[2] \in Nat /\ o[2] >= 1
    BY BoundsAssumption DEF Obj, Email
  <2>2. gen[Email(o)] = IF Email(o) \in stored THEN 1 ELSE 0
    BY <2>1 DEF Init
  <2>3. QED
    BY <2>1, <2>2 DEF Created
<1>11. \A o \in Obj : Created(o) =>
          /\ Email(o) \in stored /\ o[2] = 1
          /\ acc[o].tok = Login(place(Email(o))) /\ place(Email(o)) \in DOMAIN es
  <2> SUFFICES ASSUME NEW o \in Obj, Created(o)
               PROVE  /\ Email(o) \in stored /\ o[2] = 1
                      /\ acc[o].tok = Login(place(Email(o))) /\ place(Email(o)) \in DOMAIN es
    OBVIOUS
  <2>1. Email(o) \in stored /\ o[2] = 1
    BY <1>10
  <2>2. acc[o] = row[Email(o)] /\ Email(o) \in Emails
    BY <2>1, Blanks DEF Init
  <2>3. QED
    BY <1>3, <1>4, <1>5, <2>1, <2>2
<1>12. Existing
  <2>1. \A o \in Pool : Created(o)
    BY <1>2, <1>10 DEF Pool, ToSet
  <2>2. QED
    BY <1>8, <2>1 DEF Init, Existing
<1>13. Accepted
  BY <1>3, <1>8, <1>11 DEF Accepted, Busy
<1>14. Apart
  <2>1. \A o \in Obj : Created(o) => acc[o].tok.login \in 1..logins
    BY <1>3, <1>11
  <2>2. logins \in Nat
    BY <1>1, <1>2
  <2>3. \A o \in Obj : Created(o) => acc[o].tok.login <= logins
    BY <2>1, <2>2
  <2>4. \A t \in valid : t.login <= logins
    BY <1>1, <1>3, <2>2
  <2>5. ASSUME NEW o \in Obj, NEW x \in Obj, Created(o), Created(x), o # x
        PROVE  acc[o].tok.login # acc[x].tok.login
    <3>1. Email(o) # Email(x)
      BY <1>11, <2>5 DEF Obj, Email
    <3>2. place(Email(o)) # place(Email(x))
      BY <1>4, <1>11, <2>5, <3>1
    <3>3. QED
      BY <1>3, <1>11, <2>5, <3>2
  <2>6. QED
    BY <1>8, <2>3, <2>4, <2>5 DEF Apart, Busy
<1>15. Imported
  BY <1>2 DEF Imported
<1>16. NotDenied
  BY <1>8 DEF NotDenied
<1>17. QED
  BY <1>7, <1>9, <1>12, <1>13, <1>14, <1>15, <1>16 DEF GrokInv, Quiet

\* Every step keeps the invariant.
LEMMA GrokStep == GrokInv /\ [Next]_vars => GrokInv'
<1> SUFFICES ASSUME GrokInv, [Next]_vars
             PROVE  GrokInv'
  OBVIOUS
<1>0. TypeOK /\ Answered /\ (~struck => Quiet)
  BY DEF GrokInv
<1>1. Answered'
  BY <1>0, AnsweredStays
<1>2. ~struck' => ~struck
  BY <1>0, StruckStays
<1>3. CASE UNCHANGED vars
  <2>1. TypeOK'
    BY <1>0, <1>3 DEF TypeOK, vars, poolVars, redisVars, serverVars, procVars
  <2>2. ~struck' => Quiet'
    <3> SUFFICES ASSUME ~struck'
                 PROVE  Quiet'
      OBVIOUS
    <3>1. UNCHANGED <<acc, gen, accounts, logins, valid, flight, async, stored, pc, obj>>
      BY <1>3 DEF vars, poolVars, redisVars, serverVars, procVars
    <3>2. QED
      BY <1>0, <1>2, <3>1, StillQuiet
  <2>3. QED
    BY <1>1, <2>1, <2>2 DEF GrokInv
<1>4. ASSUME NEW e \in Emails, FlightStep(e)
      PROVE  GrokInv'
  BY <1>0, <1>1, <1>2, <1>4, FlightStepType, FlightQuiet DEF GrokInv
<1>5. CASE Tick \/ Revoke \/ Restart \/ \E o \in Obj : AsyncRefresh(o)
  BY <1>0, <1>1, <1>2, <1>5, WorldType, WorldQuiet DEF GrokInv
<1>6. ASSUME NEW p \in Procs, SaveDTO(p) \/ SaveHSet(p)
      PROVE  GrokInv'
  BY <1>0, <1>1, <1>2, <1>6, SavesType, SavesQuiet DEF GrokInv
<1>7. ASSUME NEW q \in Requests, Start(q) \/ RequestStep(q)
      PROVE  GrokInv'
  BY <1>0, <1>1, <1>2, <1>7, RequestType, RequestQuiet DEF GrokInv
<1>8. ASSUME NEW w \in Workers, NEW o \in Obj, WorkerStep(w) \/ PreWarm(w, o) \/ Reenable(w, o)
      PROVE  GrokInv'
  BY <1>0, <1>1, <1>2, <1>8, WorkerType, WorkerQuiet DEF GrokInv
<1>9. ASSUME NEW w \in Workers, WorkerStep(w)
      PROVE  GrokInv'
  BY <1>8, <1>9, NoObjType
<1>10. ASSUME NEW a \in Admins, NEW e \in Emails,
              HandleRefresh(a) \/ Cleanup(a) \/ Upsert(a, e) \/ DeleteAccount(a, e)
       PROVE  GrokInv'
  BY <1>0, <1>1, <1>2, <1>10, AdminType, AdminQuiet DEF GrokInv
<1>11. ASSUME NEW a \in Admins, HandleRefresh(a) \/ Cleanup(a)
       PROVE  GrokInv'
  BY <1>10, <1>11, EmailsAssumption
<1>12. QED
  BY <1>3, <1>4, <1>5, <1>6, <1>7, <1>8, <1>9, <1>10, <1>11 DEF Next

-----------------------------------------------------------------------------
\* The inductive invariant holds in every reachable state.
THEOREM Invariance == Spec => []GrokInv
BY GrokInit, GrokStep, PTL DEF Spec

\* NeverReplaysToken of the whole pool: while nothing of Faults has struck, no
\* refresh is denied, however many requests, workers and administrators call
\* Refresh on the accounts they hold, imports and deletions in between.
THEOREM TokensNeverReplayed == Spec => []NeverReplaysToken
<1>1. GrokInv => NeverReplaysToken
  BY DEF GrokInv, Quiet, NotDenied, NeverReplaysToken
<1>2. QED
  BY <1>1, Invariance, PTL

\* ImportsPersisted of the whole pool: between the administrators' operations
\* each pooled account has its row in Redis, unless a fault has struck.
THEOREM ImportsArePersisted == Spec => []ImportsPersisted
<1>1. GrokInv => ImportsPersisted
  BY DEF GrokInv, Quiet, Imported, ImportsPersisted
<1>2. QED
  BY <1>1, Invariance, PTL
=============================================================================
