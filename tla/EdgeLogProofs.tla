---------------------------- MODULE EdgeLogProofs ----------------------------
(***************************************************************************)
(* Proofs about the two ends of a request: the edge it comes in by (Edge,  *)
(* with its limiters and sessions), for every number of requests and all   *)
(* limits, and the log its record goes to (LogPipeline), for every channel *)
(* capacity, batch size and number of calls.  The two share no state.      *)
(***************************************************************************)
EXTENDS Edge, LogPipeline, FiniteSetTheorems, TLAPS

-----------------------------------------------------------------------------
(***************************************************************************)
(* Edge: sessions and rights                                               *)
(***************************************************************************)

Places == {"idle", "loginRate", "gate", "loginValid", "loginRole", "lookup", "valid",
           "limits", "rate", "role", "answered"}

\* The requests.
Request == [pc : Places, tok : Nat, time : Nat, limits : Nat \X Nat,
            dead : BOOLEAN, valid : BOOLEAN, admin : BOOLEAN]

\* The state of the requests and of the sessions.
EdgeTypeOK ==
    /\ now \in Nat
    /\ key \in Key
    /\ req \in [Requests -> Request]
    /\ createdAt \in [Tokens -> Nat \cup {Never}]
    /\ sessions \subseteq Issued
    /\ ended \subseteq Issued

\* What a request has been found to have at each place of its way.
Right(r) ==
    /\ ~At(r, "idle") => (Valid(key) => req[r].valid) /\ (IsAdmin(key) => req[r].admin)
    /\ req[r].pc \in {"loginRole", "limits", "rate", "role", "answered"} => req[r].valid
    /\ At(r, "answered") => req[r].admin
    /\ req[r].pc \notin {"idle", "lookup"} => ~req[r].dead
    /\ At(r, "lookup") => req[r].tok \in Issued /\ (req[r].dead => Dead(req[r].tok))

\* A revoked token is not in the map, and nobody has passed a check without
\* what it checks.
RightInv ==
    /\ EdgeTypeOK
    /\ sessions \cap ended = {}
    /\ \A r \in Requests : Right(r)

-----------------------------------------------------------------------------
\* The first state satisfies RightInv.
LEMMA RightInit == EdgeInit => RightInv
<1> SUFFICES ASSUME EdgeInit PROVE RightInv
  OBVIOUS
<1>1. Idle \in Request /\ Idle.pc = "idle"
  BY DEF Idle, Request, Places
<1>2. EdgeTypeOK
  BY <1>1 DEF EdgeInit, EdgeTypeOK, SessionInit, Issued, Never
<1>3. \A r \in Requests : req[r].pc = "idle"
  BY <1>1 DEF EdgeInit
<1>4. sessions \cap ended = {}
  BY DEF EdgeInit, SessionInit
<1>5. QED
  BY <1>2, <1>3, <1>4 DEF RightInv, Right, At

\* A step changes the requests one at a time; only a change of the key touches
\* all of them, and only their history.
LEMMA OneRequest ==
    ASSUME EdgeTypeOK, NEW r \in Requests, NEW q \in Request, 
           req' = [req EXCEPT ![r] = q]
    PROVE  /\ req' \in [Requests -> Request] 
           /\ req'[r] = q
           /\ \A o \in Requests : o # r => req'[o] = req[o]
BY DEF EdgeTypeOK

\* A request that goes on to another place keeps everything else.
LEMMA GotoKeeps ==
    ASSUME EdgeTypeOK, NEW r \in Requests, NEW pc \in Places, Goto(r, pc)
    PROVE  /\ req' \in [Requests -> Request] 
           /\ req'[r] = [req[r] EXCEPT !.pc = pc]
           /\ req'[r].pc = pc /\ req'[r].tok = req[r].tok /\ req'[r].time = req[r].time
           /\ req'[r].limits = req[r].limits /\ req'[r].dead = req[r].dead
           /\ req'[r].valid = req[r].valid /\ req'[r].admin = req[r].admin
           /\ \A o \in Requests : o # r => req'[o] = req[o]
<1>1. req[r] \in Request
  BY DEF EdgeTypeOK
<1> DEFINE q == [req[r] EXCEPT !.pc = pc]
<1>2. /\ q \in Request /\ q.pc = pc /\ q.tok = req[r].tok /\ q.time = req[r].time
      /\ q.limits = req[r].limits /\ q.dead = req[r].dead
      /\ q.valid = req[r].valid /\ q.admin = req[r].admin
  BY <1>1 DEF Request
<1>3. req' = [req EXCEPT ![r] = q]
  BY DEF Goto
<1> HIDE DEF q
<1>4. req'[r] = q /\ req' \in [Requests -> Request]
      /\ \A o \in Requests : o # r => req'[o] = req[o]
  BY <1>2, <1>3, OneRequest
<1>5. QED
  BY <1>2, <1>4 DEF q

\* A request that is answered is idle.
LEMMA EndIdles ==
    ASSUME EdgeTypeOK, NEW r \in Requests, End(r)
    PROVE  /\ req' \in [Requests -> Request] 
           /\ req'[r] = Idle /\ req'[r].pc = "idle"
           /\ \A o \in Requests : o # r => req'[o] = req[o]
<1>1. Idle \in Request /\ Idle.pc = "idle"
  BY DEF Idle, Request, Places
<1>2. QED
  BY <1>1, OneRequest DEF End

\* While the key and the sessions are as they were, a request that stays as it
\* was keeps its rights.
LEMMA OthersKeep ==
    ASSUME NEW o \in Requests, Right(o), req'[o] = req[o],
           UNCHANGED <<now, key, createdAt, ended>>
    PROVE  Right(o)'
BY DEF Right, At, Valid, IsAdmin, Dead, TooOld, Issued, Tokens

\* A step of one request that leaves the clock, the key and the sessions alone
\* has only the rights of that request to show.
LEMMA StepOf ==
    ASSUME RightInv, NEW r \in Requests, UNCHANGED <<now, key, sessionVars>>,
           req' \in [Requests -> Request],
           \A o \in Requests : o # r => req'[o] = req[o],
           Right(r)'
    PROVE  RightInv'
<1>1. EdgeTypeOK'
  BY DEF RightInv, EdgeTypeOK, sessionVars, Issued, Tokens
<1>2. (sessions \cap ended = {})'
  BY DEF RightInv, sessionVars
<1>3. ASSUME NEW o \in Requests PROVE Right(o)'
  <2>1. CASE o = r
    BY <2>1
  <2>2. CASE o # r
    <3>1. req'[o] = req[o] /\ Right(o) /\ UNCHANGED <<now, key, createdAt, ended>>
      BY <2>2 DEF RightInv, sessionVars
    <3>2. QED
      BY <3>1, OthersKeep
  <2>3. QED
    BY <2>1, <2>2
<1>4. QED
  BY <1>1, <1>2, <1>3 DEF RightInv

\* A request that becomes idle has no rights to show.
LEMMA EndKeeps ==
    ASSUME RightInv, NEW r \in Requests, UNCHANGED <<now, key, sessionVars>>, End(r)
    PROVE  RightInv'
<1>1. EdgeTypeOK
  BY DEF RightInv
<1>2. /\ req' \in [Requests -> Request] /\ req'[r].pc = "idle"
      /\ \A o \in Requests : o # r => req'[o] = req[o]
  BY <1>1, EndIdles
<1>3. Right(r)'
  BY <1>2 DEF Right, At
<1>4. QED
  BY <1>2, <1>3, StepOf

\* A request begins with the rights that the key has then.
LEMMA BeginKeeps ==
    ASSUME RightInv, NEW r \in Requests, NEW pc \in Places, NEW tok \in Nat, NEW dead \in BOOLEAN,
           Begin(r, pc, tok, dead),
           \/ pc = "loginRate" /\ dead = FALSE
           \/ pc = "lookup" /\ tok \in Issued /\ dead = Dead(tok)
    PROVE  RightInv'
<1> DEFINE q == [Idle EXCEPT !.pc = pc, !.tok = tok, !.dead = dead,
                             !.valid = Valid(key), !.admin = IsAdmin(key)]
<1>1. Valid(key) \in BOOLEAN /\ IsAdmin(key) \in BOOLEAN
  BY DEF Valid, IsAdmin, RightInv, EdgeTypeOK, Key
<1>2. /\ q \in Request /\ q.pc = pc /\ q.tok = tok /\ q.dead = dead
      /\ q.valid = Valid(key) /\ q.admin = IsAdmin(key)
  BY <1>1 DEF Request, Idle
<1>3. req' = [req EXCEPT ![r] = q] /\ UNCHANGED <<now, key, sessionVars>>
  BY DEF Begin
<1> HIDE DEF q
<1>4. /\ req' \in [Requests -> Request] /\ req'[r] = q
      /\ \A o \in Requests : o # r => req'[o] = req[o]
  BY <1>2, <1>3, OneRequest DEF RightInv
<1>5. (Valid(key)' <=> Valid(key)) /\ (IsAdmin(key)' <=> IsAdmin(key))
  BY <1>3 DEF Valid, IsAdmin
<1>6. tok \in Issued => tok \in Issued' /\ (Dead(tok)' <=> Dead(tok))
  BY <1>3 DEF sessionVars, Issued, Tokens, Dead, TooOld
<1>7. Right(r)'
  <2>1. CASE pc = "loginRate" /\ dead = FALSE
    BY <1>2, <1>4, <1>5, <2>1 DEF Right, At
  <2>2. CASE pc = "lookup" /\ tok \in Issued /\ dead = Dead(tok)
    BY <1>2, <1>4, <1>5, <1>6, <2>2 DEF Right, At, Dead, Issued
  <2>3. QED
    BY <2>1, <2>2
<1>8. QED
  BY <1>3, <1>4, <1>7, StepOf

\* A request moves on to a place that asks for no more than it has shown.
LEMMA MoveKeeps ==
    ASSUME RightInv, NEW r \in Requests, UNCHANGED <<now, key, sessionVars>>,
           req' \in [Requests -> Request],
           \A o \in Requests : o # r => req'[o] = req[o],
           req'[r].dead = req[r].dead, req'[r].valid = req[r].valid,
           req'[r].admin = req[r].admin,
           req'[r].pc \notin {"idle", "lookup"}, ~At(r, "idle"), ~req[r].dead,
           req'[r].pc \in {"loginRole", "limits", "rate", "role", "answered"} => req[r].valid,
           req'[r].pc = "answered" => req[r].admin
    PROVE  RightInv'
<1>1. Right(r)
  BY DEF RightInv
<1>2. (Valid(key)' <=> Valid(key)) /\ (IsAdmin(key)' <=> IsAdmin(key))
  BY DEF Valid, IsAdmin
<1>3. Right(r)'
  BY <1>1, <1>2 DEF Right, At
<1>4. QED
  BY <1>3, StepOf

\* The same for a step that changes nothing but the place of the request.
LEMMA GotoKeepsRight ==
    ASSUME RightInv, NEW r \in Requests, NEW pc \in Places, Goto(r, pc),
           UNCHANGED <<now, key, sessionVars>>,
           pc \notin {"idle", "lookup"}, ~At(r, "idle"), ~req[r].dead,
           pc \in {"loginRole", "limits", "rate", "role", "answered"} => req[r].valid,
           pc = "answered" => req[r].admin
    PROVE  RightInv'
<1>1. EdgeTypeOK
  BY DEF RightInv
<1>2. /\ req' \in [Requests -> Request]
      /\ req'[r].pc = pc /\ req'[r].dead = req[r].dead
      /\ req'[r].valid = req[r].valid /\ req'[r].admin = req[r].admin
      /\ \A o \in Requests : o # r => req'[o] = req[o]
  BY <1>1, GotoKeeps
<1>3. QED
  BY <1>2, MoveKeeps

\* Rights outlast the time, new sessions and revocations: a dead token stays
\* dead.
LEMMA DeadStaysDead ==
    ASSUME EdgeTypeOK, NEW o \in Requests, Right(o), req'[o] = req[o], key' = key,
           now' \in Nat, now <= now', ended \subseteq ended', Issued \subseteq Issued',
           \A t \in Issued : createdAt'[t] = createdAt[t]
    PROVE  Right(o)'
<1>1. (Valid(key)' <=> Valid(key)) /\ (IsAdmin(key)' <=> IsAdmin(key))
  BY DEF Valid, IsAdmin
<1>2. ASSUME NEW t \in Issued, Dead(t) PROVE t \in ended' \/ TooOld(t)'
  <2>1. createdAt[t] \in Nat /\ createdAt'[t] = createdAt[t]
    BY DEF EdgeTypeOK, Issued, Never
  <2>2. QED
    BY <1>2, <2>1, SessionAssumption DEF Dead, TooOld, EdgeTypeOK
<1>3. At(o, "lookup") => req[o].tok \in Issued' /\ (req[o].dead => Dead(req[o].tok)')
  BY <1>2 DEF Right, Dead
<1>4. QED
  BY <1>1, <1>3 DEF Right, At

\* The same, for all requests, of a step that leaves the requests alone.
LEMMA SessionsMove ==
    ASSUME RightInv, UNCHANGED <<key, req>>,
           now' \in Nat, now <= now', ended \subseteq ended', Issued \subseteq Issued',
           \A t \in Issued : createdAt'[t] = createdAt[t],
           createdAt' \in [Tokens -> Nat \cup {Never}],
           sessions' \subseteq Issued', ended' \subseteq Issued', sessions' \cap ended' = {}
    PROVE  RightInv'
<1>1. EdgeTypeOK'
  BY DEF RightInv, EdgeTypeOK, Tokens
<1>2. ASSUME NEW o \in Requests PROVE Right(o)'
  BY DeadStaysDead DEF RightInv
<1>3. QED
  BY <1>1, <1>2 DEF RightInv

\* A request that only passes a check, and one that ends, beside the sessions.
LEMMA PassSteps ==
    ASSUME RightInv, NEW r \in Requests,
           Login(r) \/ Dashboard(r) \/ LoginRate(r) \/ Gate(r) \/ LoginValid(r)
             \/ AuthMiddleware(r) \/ LookupKey(r) \/ RateLimit(r) \/ AdminMiddleware(r)
    PROVE  RightInv'
<1>r. /\ EdgeTypeOK /\ Right(r) /\ req[r] \in Request
      /\ now \in Nat /\ now' = now
  BY DEF RightInv, EdgeTypeOK, Login, Dashboard, Begin, LoginRate, Gate, LoginValid,
         AuthMiddleware, LookupKey, RateLimit, AdminMiddleware
<1>1. CASE Login(r)
  BY <1>1, BeginKeeps DEF Login, Places
<1>2. CASE Dashboard(r)
  <2>1. PICK t \in Issued : Begin(r, "lookup", t, Dead(t))
    BY <1>2 DEF Dashboard
  <2>2. t \in Nat /\ Dead(t) \in BOOLEAN /\ "lookup" \in Places
    BY SessionAssumption DEF Issued, Tokens, Dead, TooOld, Places
  <2>3. QED
    BY <2>1, <2>2, BeginKeeps
<1>3. CASE LoginRate(r)
  <2>1. UNCHANGED <<now, key, sessionVars>> /\ At(r, "loginRate")
    BY <1>3 DEF LoginRate
  <2>2. CASE End(r)
    BY <2>1, <2>2, EndKeeps
  <2>3. CASE req' = [req EXCEPT ![r].pc = "gate", ![r].time = now]
    <3> DEFINE q == [req[r] EXCEPT !.pc = "gate", !.time = now]
    <3>1. /\ q \in Request /\ q.pc = "gate" /\ q.dead = req[r].dead
          /\ q.valid = req[r].valid /\ q.admin = req[r].admin
      BY <1>r DEF Request, Places
    <3>2. req' = [req EXCEPT ![r] = q]
      BY <2>3
    <3> HIDE DEF q
    <3>3. /\ req' \in [Requests -> Request] /\ req'[r] = q
          /\ \A o \in Requests : o # r => req'[o] = req[o]
      BY <1>r, <3>1, <3>2, OneRequest
    <3>4. ~req[r].dead
      BY <1>r, <2>1 DEF Right, At
    <3>5. QED
      BY <2>1, <3>1, <3>3, <3>4, MoveKeeps DEF At
  <2>4. QED
    BY <1>3, <2>2, <2>3 DEF LoginRate
<1>4. CASE Gate(r)
  <2>1. UNCHANGED <<now, key, sessionVars>> /\ At(r, "gate")
    BY <1>4 DEF Gate
  <2>2. CASE End(r)
    BY <2>1, <2>2, EndKeeps
  <2>3. CASE req' = [req EXCEPT ![r].pc = "loginValid", ![r].time = 0]
    <3> DEFINE q == [req[r] EXCEPT !.pc = "loginValid", !.time = 0]
    <3>1. /\ q \in Request /\ q.pc = "loginValid" /\ q.dead = req[r].dead
          /\ q.valid = req[r].valid /\ q.admin = req[r].admin
      BY <1>r DEF Request, Places
    <3>2. req' = [req EXCEPT ![r] = q]
      BY <2>3
    <3> HIDE DEF q
    <3>3. /\ req' \in [Requests -> Request] /\ req'[r] = q
          /\ \A o \in Requests : o # r => req'[o] = req[o]
      BY <1>r, <3>1, <3>2, OneRequest
    <3>4. ~req[r].dead
      BY <1>r, <2>1 DEF Right, At
    <3>5. QED
      BY <2>1, <3>1, <3>3, <3>4, MoveKeeps DEF At
  <2>4. QED
    BY <1>4, <2>2, <2>3 DEF Gate
<1>5. CASE LoginValid(r)
  <2>1. UNCHANGED <<now, key, sessionVars>> /\ At(r, "loginValid")
    BY <1>5 DEF LoginValid
  <2>2. CASE End(r)
    BY <2>1, <2>2, EndKeeps
  <2>3. CASE Valid(key) /\ Goto(r, "loginRole")
    <3>1. ~At(r, "idle") /\ ~req[r].dead /\ req[r].valid
      BY <1>r, <2>1, <2>3 DEF Right, At
    <3>2. QED
      BY <2>1, <2>3, <3>1, GotoKeepsRight DEF Places
  <2>4. QED
    BY <1>5, <2>2, <2>3 DEF LoginValid
<1>6. CASE AuthMiddleware(r)
  <2>1. UNCHANGED <<now, key, sessionVars>> /\ At(r, "valid")
    BY <1>6 DEF AuthMiddleware
  <2>2. CASE End(r)
    BY <2>1, <2>2, EndKeeps
  <2>3. CASE Valid(key) /\ Goto(r, "limits")
    <3>1. ~At(r, "idle") /\ ~req[r].dead /\ req[r].valid
      BY <1>r, <2>1, <2>3 DEF Right, At
    <3>2. QED
      BY <2>1, <2>3, <3>1, GotoKeepsRight DEF Places
  <2>4. QED
    BY <1>6, <2>2, <2>3 DEF AuthMiddleware
<1>7. CASE LookupKey(r)
  <2>1. UNCHANGED <<now, key, sessionVars>> /\ At(r, "limits")
    BY <1>7 DEF LookupKey
  <2> DEFINE l == LimitsOf(key)
             p == IF l[1] = 0 THEN "role" ELSE "rate"
             m == IF l[1] = 0 THEN req[r].limits ELSE l
             q == [req[r] EXCEPT !.pc = p, !.limits = m]
  <2>2. l \in Nat \X Nat
    BY <1>r, RateAssumption, LimitsAssumption DEF LimitsOf, EdgeTypeOK, Key
  <2>3. m \in Nat \X Nat /\ p \in {"role", "rate"}
    BY <1>r, <2>2 DEF Request
  <2>4. req' = [req EXCEPT ![r] = q]
    BY <1>7 DEF LookupKey
  <2> HIDE DEF l, m, p
  <2>5. /\ q \in Request /\ q.pc \in {"role", "rate"} /\ q.dead = req[r].dead
        /\ q.valid = req[r].valid /\ q.admin = req[r].admin
    BY <1>r, <2>3 DEF Request, Places
  <2> HIDE DEF q
  <2>6. /\ req' \in [Requests -> Request] /\ req'[r] = q
        /\ \A o \in Requests : o # r => req'[o] = req[o]
    BY <1>r, <2>4, <2>5, OneRequest
  <2>7. ~req[r].dead /\ req[r].valid
    BY <1>r, <2>1 DEF Right, At
  <2>8. QED
    BY <2>1, <2>5, <2>6, <2>7, MoveKeeps DEF At
<1>8. CASE RateLimit(r)
  <2>1. UNCHANGED <<now, key, sessionVars>> /\ At(r, "rate")
    BY <1>8 DEF RateLimit
  <2>2. CASE End(r)
    BY <2>1, <2>2, EndKeeps
  <2>3. CASE req' = [req EXCEPT ![r].pc = "role", ![r].limits = <<0, 0>>]
    <3> DEFINE q == [req[r] EXCEPT !.pc = "role", !.limits = <<0, 0>>]
    <3>1. /\ q \in Request /\ q.pc = "role" /\ q.dead = req[r].dead
          /\ q.valid = req[r].valid /\ q.admin = req[r].admin
      BY <1>r DEF Request, Places
    <3>2. req' = [req EXCEPT ![r] = q]
      BY <2>3
    <3> HIDE DEF q
    <3>3. /\ req' \in [Requests -> Request] /\ req'[r] = q
          /\ \A o \in Requests : o # r => req'[o] = req[o]
      BY <1>r, <3>1, <3>2, OneRequest
    <3>4. ~req[r].dead /\ req[r].valid
      BY <1>r, <2>1 DEF Right, At
    <3>5. QED
      BY <2>1, <3>1, <3>3, <3>4, MoveKeeps DEF At
  <2>4. QED
    BY <1>8, <2>2, <2>3 DEF RateLimit
<1>9. CASE AdminMiddleware(r)
  <2>1. UNCHANGED <<now, key, sessionVars>> /\ At(r, "role")
    BY <1>9 DEF AdminMiddleware
  <2>2. CASE End(r)
    BY <2>1, <2>2, EndKeeps
  <2>3. CASE IsAdmin(key) /\ Goto(r, "answered")
    <3>1. ~At(r, "idle") /\ ~req[r].dead /\ req[r].valid /\ req[r].admin
      BY <1>r, <2>1, <2>3 DEF Right, At
    <3>2. QED
      BY <2>1, <2>3, <3>1, GotoKeepsRight DEF Places
  <2>4. QED
    BY <1>9, <2>2, <2>3 DEF AdminMiddleware
<1>10. QED
  BY <1>1, <1>2, <1>3, <1>4, <1>5, <1>6, <1>7, <1>8, <1>9

\* A request and the sessions move in one step: the others keep their rights.
LEMMA StepBeside ==
    ASSUME RightInv, NEW r \in Requests, UNCHANGED <<now, key>>,
           req' \in [Requests -> Request],
           \A o \in Requests : o # r => req'[o] = req[o],
           Right(r)', ended' = ended, Issued \subseteq Issued',
           \A t \in Issued : createdAt'[t] = createdAt[t],
           createdAt' \in [Tokens -> Nat \cup {Never}],
           sessions' \subseteq Issued', sessions' \cap ended' = {}
    PROVE  RightInv'
<1>1. EdgeTypeOK'
  BY DEF RightInv, EdgeTypeOK, Tokens
<1>2. ASSUME NEW o \in Requests, o # r PROVE Right(o)'
  <2>1. /\ EdgeTypeOK /\ Right(o) /\ req'[o] = req[o] /\ key' = key
        /\ now' \in Nat /\ now <= now' /\ ended \subseteq ended'
    BY <1>2 DEF RightInv, EdgeTypeOK
  <2>2. QED
    BY <2>1, DeadStaysDead
<1>3. QED
  BY <1>1, <1>2 DEF RightInv

\* Create issues a token that nobody has seen, and Lookup finds no token that
\* was dead when the request came.
LEMMA SessionSteps ==
    ASSUME RightInv, NEW r \in Requests, HandleLogin(r) \/ LookupToken(r)
    PROVE  RightInv'
<1>r. EdgeTypeOK /\ Right(r) /\ req[r] \in Request /\ UNCHANGED <<now, key>>
  BY DEF RightInv, EdgeTypeOK, HandleLogin, LookupToken
<1>k. (Valid(key)' <=> Valid(key)) /\ (IsAdmin(key)' <=> IsAdmin(key))
  BY <1>r DEF Valid, IsAdmin
<1>1. CASE HandleLogin(r)
  <2>1. CASE End(r) /\ UNCHANGED sessionVars
    BY <1>r, <2>1, EndKeeps
  <2>2. CASE IsAdmin(key) /\ Create /\ Goto(r, "answered")
    <3>1. PICK t \in Tokens \ Issued : /\ createdAt' = [createdAt EXCEPT ![t] = now]
                                       /\ sessions' = sessions \cup {t}
                                       /\ UNCHANGED ended
      BY <2>2 DEF Create
    <3>2. /\ createdAt' \in [Tokens -> Nat \cup {Never}] /\ createdAt'[t] = now
          /\ \A o \in Tokens : o # t => createdAt'[o] = createdAt[o]
      BY <1>r, <3>1 DEF EdgeTypeOK
    <3>3. now # Never
      BY <1>r DEF EdgeTypeOK, Never
    <3>4. /\ Issued \subseteq Issued' /\ t \in Issued'
          /\ \A o \in Issued : createdAt'[o] = createdAt[o]
      BY <3>1, <3>2, <3>3 DEF Issued, Tokens
    <3>5. sessions' \subseteq Issued' /\ sessions' \cap ended' = {}
      BY <1>r, <3>1, <3>4 DEF RightInv, EdgeTypeOK
    <3>6. /\ req' \in [Requests -> Request]
          /\ req'[r].pc = "answered" /\ req'[r].dead = req[r].dead
          /\ req'[r].valid = req[r].valid /\ req'[r].admin = req[r].admin
          /\ \A o \in Requests : o # r => req'[o] = req[o]
      BY <1>r, <2>2, GotoKeeps DEF Places
    <3>7. At(r, "loginRole")
      BY <1>1 DEF HandleLogin
    <3>8. Right(r)'
      BY <1>r, <1>k, <2>2, <3>6, <3>7 DEF Right, At
    <3>9. QED
      BY <1>r, <3>1, <3>2, <3>4, <3>5, <3>6, <3>8, StepBeside
  <2>3. QED
    BY <1>1, <2>1, <2>2 DEF HandleLogin
<1>2. CASE LookupToken(r)
  <2>1. PICK ok \in BOOLEAN : /\ Lookup(req[r].tok, ok)
                              /\ IF ok THEN Goto(r, "valid") ELSE End(r)
    BY <1>2 DEF LookupToken
  <2>2. /\ createdAt' = createdAt /\ ended' = ended /\ sessions' \subseteq sessions
        /\ At(r, "lookup")
    BY <1>2, <2>1 DEF LookupToken, Lookup
  <2>3. /\ Issued' = Issued /\ createdAt' \in [Tokens -> Nat \cup {Never}]
        /\ sessions' \subseteq Issued' /\ sessions' \cap ended' = {}
    BY <1>r, <2>2 DEF RightInv, EdgeTypeOK, Issued, Tokens
  <2>4. /\ req' \in [Requests -> Request]
        /\ \A o \in Requests : o # r => req'[o] = req[o]
        /\ Right(r)'
    <3>1. CASE ok
      <4>1. req[r].tok \in sessions /\ ~TooOld(req[r].tok)
        BY <2>1, <3>1 DEF Lookup
      <4>2. ~Dead(req[r].tok)
        BY <4>1 DEF Dead, RightInv
      <4>3. ~req[r].dead
        BY <1>r, <2>2, <4>2 DEF Right
      <4>4. /\ req' \in [Requests -> Request]
            /\ req'[r].pc = "valid" /\ req'[r].dead = req[r].dead
            /\ req'[r].valid = req[r].valid /\ req'[r].admin = req[r].admin
            /\ \A o \in Requests : o # r => req'[o] = req[o]
        BY <1>r, <2>1, <3>1, GotoKeeps DEF Places
      <4>5. QED
        BY <1>r, <1>k, <2>2, <4>3, <4>4 DEF Right, At
    <3>2. CASE ~ok
      <4>1. /\ req' \in [Requests -> Request] /\ req'[r].pc = "idle"
            /\ \A o \in Requests : o # r => req'[o] = req[o]
        BY <1>r, <2>1, <3>2, EndIdles
      <4>2. QED
        BY <4>1 DEF Right, At
    <3>3. QED
      BY <3>1, <3>2
  <2>5. QED
    BY <1>r, <2>2, <2>3, <2>4, StepBeside
<1>3. QED
  BY <1>1, <1>2

\* A change of the key leaves its record in every request that is under way.
LEMMA ChangeSteps ==
    ASSUME RightInv, ChangeKey
    PROVE  RightInv'
<1>1. /\ key' \in Changed(key) /\ UNCHANGED <<now, sessionVars>>
      /\ req' = [r \in Requests |->
                 IF At(r, "idle") THEN Idle
                 ELSE [req[r] EXCEPT !.valid = @ \/ Valid(key'), !.admin = @ \/ IsAdmin(key')]]
  BY DEF ChangeKey
<1>2. key \in Key /\ req \in [Requests -> Request]
  BY DEF RightInv, EdgeTypeOK
<1>3. key' \in Key
  BY <1>1, <1>2 DEF Changed, Key
<1>4. Valid(key') \in BOOLEAN /\ IsAdmin(key') \in BOOLEAN
  BY <1>3 DEF Valid, IsAdmin, Key
<1>5. Idle \in Request /\ Idle.pc = "idle"
  BY DEF Idle, Request, Places
<1>6. ASSUME NEW o \in Requests PROVE req'[o] \in Request /\ Right(o)'
  <2>1. CASE At(o, "idle")
    <3>1. req'[o] = Idle
      BY <1>1, <2>1
    <3>2. QED
      BY <1>5, <3>1 DEF Right, At
  <2>2. CASE ~At(o, "idle")
    <3> DEFINE v == req[o].valid \/ Valid(key')
               a == req[o].admin \/ IsAdmin(key')
               q == [req[o] EXCEPT !.valid = v, !.admin = a]
    <3>1. req'[o] = q
      BY <1>1, <2>2
    <3>2. v \in BOOLEAN /\ a \in BOOLEAN
      BY DEF v, a
    <3>3. (req[o].valid => v) /\ (Valid(key') => v) /\ (req[o].admin => a) /\ (IsAdmin(key') => a)
      BY DEF v, a
    <3> HIDE DEF v, a
    <3>4. /\ q \in Request /\ q.pc = req[o].pc /\ q.tok = req[o].tok /\ q.dead = req[o].dead
          /\ q.valid = v /\ q.admin = a
      BY <1>2, <3>2 DEF Request
    <3> HIDE DEF q
    <3>5. Right(o)
      BY DEF RightInv
    <3>6. (Valid(key)' => v) /\ (IsAdmin(key)' => a)
      BY <3>3 DEF Valid, IsAdmin
    <3>7. Issued' = Issued /\ \A t : Dead(t) => Dead(t)'
      BY <1>1 DEF sessionVars, Issued, Tokens, Dead, TooOld
    <3>8. Right(o)'
      <4>1. At(o, "lookup")' => req'[o].tok \in Issued' /\ (req'[o].dead => Dead(req[o].tok)')
        BY <3>1, <3>4, <3>5, <3>7 DEF Right, At
      <4>2. QED
        BY <3>1, <3>3, <3>4, <3>5, <3>6, <4>1 DEF Right, At
    <3>9. QED
      BY <3>1, <3>4, <3>8
  <2>3. QED
    BY <2>1, <2>2
<1>7. EdgeTypeOK'
  <2>1. req' \in [Requests -> Request]
    BY <1>1, <1>6
  <2>2. QED
    BY <1>1, <1>3, <2>1 DEF RightInv, EdgeTypeOK, sessionVars, Issued, Tokens
<1>8. QED
  BY <1>1, <1>6, <1>7 DEF RightInv, sessionVars

\* Every step keeps RightInv.
LEMMA RightStep == RightInv /\ [EdgeNext]_edgeVars => RightInv'
<1> SUFFICES ASSUME RightInv, [EdgeNext]_edgeVars PROVE RightInv'
  OBVIOUS
<1>r. /\ now \in Nat /\ sessions \subseteq Issued /\ ended \subseteq Issued
      /\ createdAt \in [Tokens -> Nat \cup {Never}] /\ sessions \cap ended = {}
  BY DEF RightInv, EdgeTypeOK
<1>1. CASE HandleLogout
  <2>1. PICK t \in Issued \ ended : Revoke(t) \/ UNCHANGED sessionVars
    BY <1>1 DEF HandleLogout
  <2>2. /\ createdAt' = createdAt /\ ended \subseteq ended' /\ ended' \subseteq Issued
        /\ sessions' \subseteq Issued /\ sessions' \cap ended' = {}
    BY <1>r, <2>1 DEF Revoke, sessionVars
  <2>3. UNCHANGED <<now, key, req>> /\ Issued' = Issued
    BY <1>1, <2>2 DEF HandleLogout, Issued, Tokens
  <2>4. QED
    BY <1>r, <2>2, <2>3, SessionsMove
<1>2. CASE TimePasses
  <2>1. UNCHANGED <<key, req, sessions, createdAt, ended>> /\ now' = now + 1
    BY <1>2 DEF TimePasses, sessionVars
  <2>2. Issued' = Issued
    BY <2>1 DEF Issued, Tokens
  <2>3. QED
    BY <1>r, <2>1, <2>2, SessionsMove
<1>3. CASE Cleanups
  <2>1. /\ UNCHANGED <<now, key, req, createdAt, ended>> /\ sessions' \subseteq sessions
    BY <1>3 DEF Cleanups, sessionVars, SessionCleanup
  <2>2. Issued' = Issued
    BY <2>1 DEF Issued, Tokens
  <2>3. QED
    BY <1>r, <2>1, <2>2, SessionsMove
<1>4. CASE UNCHANGED edgeVars
  <2>1. UNCHANGED <<now, key, req, createdAt, ended, sessions>>
    BY <1>4 DEF edgeVars, sessionVars
  <2>2. Issued' = Issued
    BY <2>1 DEF Issued, Tokens
  <2>3. QED
    BY <1>r, <2>1, <2>2, SessionsMove
<1>5. CASE ChangeKey
  BY <1>5, ChangeSteps
<1>6. QED
  BY <1>1, <1>2, <1>3, <1>4, <1>5, PassSteps, SessionSteps DEF EdgeNext

\* In every reachable state each request has passed only checks it had the
\* right to pass.
THEOREM RightInvariance == EdgeSpec => []RightInv
<1>1. QED
  BY RightInit, RightStep, PTL DEF EdgeSpec

\* AuthMiddleware, AdminMiddleware and HandleLogin answer only by right: the
\* token was alive when the request came, and since then the key was enabled
\* and an administrator's, whoever changes the key, logs out or lets time pass
\* between the checks.
THEOREM AnsweredOnlyByRight == EdgeSpec => []AnsweredByRight
<1>1. RightInv => AnsweredByRight
  BY DEF RightInv, Right, AnsweredByRight, At
<1>2. QED
  BY RightInvariance, <1>1, PTL
-----------------------------------------------------------------------------
(***************************************************************************)
(* The login limiter                                                       *)
(***************************************************************************)

\* A window holds finitely many attempts, each once and with a time that was
\* read at most MaxDelay before the attempt was let through.
Recorded(w, times) ==
    /\ w \subseteq Nat \X DOMAIN times
    /\ IsFiniteSet(w)
    /\ \A t \in w : t[1] <= times[t[2]] /\ times[t[2]] <= t[1] + MaxDelay
    /\ \A t, u \in w : t[2] = u[2] => t = u

\* It holds every attempt that was let through a delay or more after a cutoff.
Holds(w, times, cutoff) ==
    \A n \in DOMAIN times : times[n] > cutoff + MaxDelay => \E t \in w : t[2] = n

\* The login limiter, and the attempts that wait for its mutex.
LoginInv ==
    /\ now \in Nat
    /\ attempts \in Seq(Nat)
    /\ \A n \in DOMAIN attempts : attempts[n] <= now
    /\ Recorded(entry.minuteWindow, attempts)
    /\ Recorded(entry.hourWindow, attempts)
    /\ Holds(entry.minuteWindow, attempts, now - Minute)
    /\ Holds(entry.hourWindow, attempts, now - Hour)
    /\ Cardinality(entry.minuteWindow) <= MinuteLimit
    /\ Cardinality(entry.hourWindow) <= HourLimit
    /\ \A r \in Requests :
          At(r, "gate") => req[r].time <= now /\ now <= req[r].time + MaxDelay

\* What is counted is counted by the numbers of the attempts.
LEMMA NumbersFinite ==
    ASSUME NEW times \in Seq(Nat), NEW S \in SUBSET DOMAIN times
    PROVE  IsFiniteSet(S) /\ Cardinality(S) \in Nat
<1>1. DOMAIN times = 1..Len(times) /\ Len(times) \in Nat
  OBVIOUS
<1>2. IsFiniteSet(1..Len(times))
  BY <1>1, FS_Interval
<1>3. IsFiniteSet(S)
  BY <1>1, <1>2, FS_Subset
<1>4. QED
  BY <1>3, FS_CardinalityType

\* A window that holds the attempts of a stretch is not shorter than it.
LEMMA WindowCounts ==
    ASSUME NEW times \in Seq(Nat), NEW w, Recorded(w, times), NEW cutoff \in Int,
           Holds(w, times, cutoff), NEW to \in Nat
    PROVE  Within(times, cutoff + MaxDelay + 1, to) <= Cardinality(w)
<1> DEFINE S == {i \in DOMAIN times : times[i] \in cutoff + MaxDelay + 1 .. to}
           f == [n \in S |-> CHOOSE t \in w : t[2] = n]
<1>1. \A n \in S : \E t \in w : t[2] = n
  BY LoginAssumption DEF Holds
<1>2. \A n \in S : f[n] \in w /\ f[n][2] = n
  BY <1>1
<1>3. f \in Injection(S, w)
  <2>1. f \in [S -> w]
    BY <1>2
  <2>2. \A m, n \in S : f[m] = f[n] => m = n
    BY <1>2
  <2> HIDE DEF f, S
  <2>3. QED
    BY <2>1, <2>2 DEF Injection, IsInjective
<1>4. Cardinality(S) <= Cardinality(w)
  BY <1>3, FS_Injection DEF Recorded
<1>5. QED
  BY <1>4 DEF Within

\* A window whose attempts all lie in a stretch is not longer than it.
LEMMA StretchCounts ==
    ASSUME NEW times \in Seq(Nat), NEW w, Recorded(w, times), NEW from, NEW to,
           \A t \in w : times[t[2]] \in from..to
    PROVE  Cardinality(w) <= Within(times, from, to)
<1> DEFINE S == {i \in DOMAIN times : times[i] \in from..to}
           f == [t \in w |-> t[2]]
<1>1. \A t \in w : f[t] \in S
  BY DEF Recorded
<1>2. f \in Injection(w, S)
  BY <1>1 DEF Injection, IsInjective, Recorded
<1>3. IsFiniteSet(S)
  BY NumbersFinite
<1>4. Cardinality(w) <= Cardinality(S)
  BY <1>2, <1>3, FS_Injection
<1>5. QED
  BY <1>4 DEF Within

\* A trim takes nothing that was let through a delay after the cutoff.
LEMMA TrimHolds ==
    ASSUME NEW times \in Seq(Nat), NEW w, Recorded(w, times), NEW cutoff \in Int,
           Holds(w, times, cutoff), NEW c \in Int, c <= cutoff
    PROVE  /\ Recorded(trimBefore(w, c), times)
           /\ Holds(trimBefore(w, c), times, cutoff)
           /\ Cardinality(trimBefore(w, c)) <= Cardinality(w)
<1> DEFINE v == trimBefore(w, c)
<1>1. v \subseteq w
  BY DEF trimBefore
<1>2. IsFiniteSet(v) /\ Cardinality(v) <= Cardinality(w)
  BY <1>1, FS_Subset DEF Recorded
<1>3. Recorded(v, times)
  BY <1>1, <1>2 DEF Recorded
<1>4. ASSUME NEW n \in DOMAIN times, times[n] > cutoff + MaxDelay
      PROVE  \E t \in v : t[2] = n
  <2>1. PICK t \in w : t[2] = n
    BY <1>4 DEF Holds
  <2>2. times[n] \in Nat /\ t[1] \in Nat /\ times[n] <= t[1] + MaxDelay
    BY <2>1 DEF Recorded
  <2>3. t[1] > c
    BY <1>4, <2>2, LoginAssumption
  <2>4. QED
    BY <2>1, <2>3 DEF trimBefore
<1>5. QED
  BY <1>2, <1>3, <1>4 DEF Holds

\* The attempt that is let through joins the window.
LEMMA JoinHolds ==
    ASSUME NEW times \in Seq(Nat), NEW w, Recorded(w, times), NEW cutoff \in Int,
           Holds(w, times, cutoff), NEW time \in Nat, NEW at \in Nat,
           time <= at, at <= time + MaxDelay
    PROVE  LET u == w \cup {<<time, Len(times) + 1>>}
           IN  /\ Recorded(u, Append(times, at))
               /\ Holds(u, Append(times, at), cutoff)
               /\ Cardinality(u) = Cardinality(w) + 1
<1> DEFINE n == Len(times) + 1
           x == <<time, n>>
           u == w \cup {x}
           later == Append(times, at)
<1>1. /\ later \in Seq(Nat) /\ DOMAIN later = DOMAIN times \cup {n} /\ n \notin DOMAIN times
      /\ later[n] = at /\ \A i \in DOMAIN times : later[i] = times[i]
  OBVIOUS
<1>2. \A t \in w : t \in Nat \X DOMAIN times
  BY DEF Recorded
<1> HIDE DEF n, later
<1>3. x[1] = time /\ x[2] = n /\ x \in Nat \X DOMAIN later /\ x \notin w
  BY <1>1, <1>2
<1> HIDE DEF x
<1>4. IsFiniteSet(u) /\ Cardinality(u) = Cardinality(w) + 1
  BY <1>3, FS_AddElement DEF Recorded
<1>5. Recorded(u, later)
  <2>1. u \subseteq Nat \X DOMAIN later
    BY <1>1, <1>2, <1>3
  <2>2. \A t \in u : t[1] <= later[t[2]] /\ later[t[2]] <= t[1] + MaxDelay
    BY <1>1, <1>2, <1>3 DEF Recorded
  <2>3. \A s, t \in u : s[2] = t[2] => s = t
    BY <1>1, <1>2, <1>3 DEF Recorded
  <2>4. QED
    BY <1>4, <2>1, <2>2, <2>3 DEF Recorded
<1>6. Holds(u, later, cutoff)
  BY <1>1, <1>3 DEF Holds
<1>7. QED
  BY <1>4, <1>5, <1>6 DEF n, x, later

\* The first state satisfies LoginInv.
LEMMA LoginInitInv == EdgeInit => LoginInv
<1> SUFFICES ASSUME EdgeInit PROVE LoginInv
  OBVIOUS
<1>1. now = 0 /\ attempts = <<>> /\ entry.minuteWindow = {} /\ entry.hourWindow = {}
  BY DEF EdgeInit, LoginInit, NoEntry
<1>2. \A r \in Requests : ~At(r, "gate")
  BY DEF EdgeInit, Idle, At
<1>3. IsFiniteSet({}) /\ Cardinality({}) = 0
  BY FS_EmptySet
<1>4. Recorded({}, <<>>) /\ Holds({}, <<>>, now - Minute) /\ Holds({}, <<>>, now - Hour)
  BY <1>3 DEF Recorded, Holds
<1>5. QED
  BY <1>1, <1>2, <1>3, <1>4, LoginAssumption DEF LoginInv

\* A step that leaves the limiter and the clock alone has only the attempts at
\* the mutex to show.
LEMMA LoginBeside ==
    ASSUME LoginInv, UNCHANGED <<now, loginVars>>,
           \A r \in Requests : At(r, "gate")' =>
               req'[r].time <= now' /\ now' <= req'[r].time + MaxDelay
    PROVE  LoginInv'
BY DEF LoginInv, loginVars

\* A section of the limiter, of an attempt or of cleanup, trims both windows by
\* a time that is not later than now.
LEMMA TrimmedHolds ==
    ASSUME LoginInv, NEW time \in Nat, time <= now
    PROVE  LET e == Trimmed(entry, time)
           IN  /\ Recorded(e.minuteWindow, attempts) /\ Recorded(e.hourWindow, attempts)
               /\ Holds(e.minuteWindow, attempts, now - Minute)
               /\ Holds(e.hourWindow, attempts, now - Hour)
               /\ Cardinality(e.minuteWindow) <= MinuteLimit
               /\ Cardinality(e.hourWindow) <= HourLimit
<1> DEFINE e == Trimmed(entry, time)
<1>1. /\ e.minuteWindow = trimBefore(entry.minuteWindow, time - Minute)
      /\ e.hourWindow = trimBefore(entry.hourWindow, time - Hour)
  BY DEF Trimmed
<1>2. /\ now - Minute \in Int /\ time - Minute \in Int /\ time - Minute <= now - Minute
      /\ now - Hour \in Int /\ time - Hour \in Int /\ time - Hour <= now - Hour
  BY LoginAssumption DEF LoginInv
<1>3. /\ Recorded(e.minuteWindow, attempts)
      /\ Holds(e.minuteWindow, attempts, now - Minute)
      /\ Cardinality(e.minuteWindow) <= Cardinality(entry.minuteWindow)
  BY <1>1, <1>2, TrimHolds DEF LoginInv
<1>4. /\ Recorded(e.hourWindow, attempts)
      /\ Holds(e.hourWindow, attempts, now - Hour)
      /\ Cardinality(e.hourWindow) <= Cardinality(entry.hourWindow)
  BY <1>1, <1>2, TrimHolds DEF LoginInv
<1>5. /\ Cardinality(e.minuteWindow) \in Nat /\ Cardinality(e.hourWindow) \in Nat
      /\ Cardinality(entry.minuteWindow) \in Nat /\ Cardinality(entry.hourWindow) \in Nat
  BY <1>3, <1>4, FS_CardinalityType DEF LoginInv, Recorded
<1> HIDE DEF e
<1>6. QED
  BY <1>3, <1>4, <1>5, LoginAssumption DEF LoginInv, e

\* The section of the middleware keeps the windows within their limits.
LEMMA GateSteps ==
    ASSUME LoginInv, EdgeTypeOK, NEW r \in Requests, Gate(r)
    PROVE  LoginInv'
<1> DEFINE time == req[r].time
           e == Trimmed(entry, time)
           t == <<time, Len(attempts) + 1>>
<1>1. PICK ok \in BOOLEAN :
         /\ LoginGate(time, ok)
         /\ IF ok THEN req' = [req EXCEPT ![r].pc = "loginValid", ![r].time = 0] ELSE End(r)
  BY DEF Gate
<1>2. /\ time \in Nat /\ time <= now /\ now <= time + MaxDelay /\ now' = now
      /\ attempts \in Seq(Nat) /\ now \in Nat
      /\ \A n \in DOMAIN attempts : attempts[n] <= now
  BY DEF Gate, LoginInv, EdgeTypeOK, Request
<1>3. /\ Recorded(e.minuteWindow, attempts) /\ Recorded(e.hourWindow, attempts)
      /\ Holds(e.minuteWindow, attempts, now - Minute)
      /\ Holds(e.hourWindow, attempts, now - Hour)
      /\ Cardinality(e.minuteWindow) <= MinuteLimit
      /\ Cardinality(e.hourWindow) <= HourLimit
  BY <1>2, TrimmedHolds
<1>4. \A o \in Requests : At(o, "gate")' => At(o, "gate") /\ req'[o].time = req[o].time
  <2>1. CASE ok
    BY <1>1, <2>1 DEF At, EdgeTypeOK, Request
  <2>2. CASE ~ok
    BY <1>1, <2>2 DEF At, End, Idle, EdgeTypeOK
  <2>3. QED
    BY <2>1, <2>2
<1>5. \A o \in Requests :
         At(o, "gate")' => req'[o].time <= now' /\ now' <= req'[o].time + MaxDelay
  BY <1>2, <1>4 DEF LoginInv
<1>6. CASE ~ok
  <2>1. entry' = e /\ attempts' = attempts
    BY <1>1, <1>6 DEF LoginGate
  <2> HIDE DEF e, t, time
  <2>2. QED
    BY <1>2, <1>3, <1>5, <2>1 DEF LoginInv
<1>7. CASE ok
  <2>1. /\ entry'.minuteWindow = e.minuteWindow \cup {t}
        /\ entry'.hourWindow = e.hourWindow \cup {t}
        /\ attempts' = Append(attempts, now)
        /\ ~Full(e)
    BY <1>1, <1>7 DEF LoginGate
  <2>2. now - Minute \in Int /\ now - Hour \in Int
    BY <1>2, LoginAssumption
  <2>3. /\ Recorded(e.minuteWindow \cup {t}, Append(attempts, now))
        /\ Holds(e.minuteWindow \cup {t}, Append(attempts, now), now - Minute)
        /\ Cardinality(e.minuteWindow \cup {t}) = Cardinality(e.minuteWindow) + 1
    BY <1>2, <1>3, <2>2, JoinHolds
  <2>4. /\ Recorded(e.hourWindow \cup {t}, Append(attempts, now))
        /\ Holds(e.hourWindow \cup {t}, Append(attempts, now), now - Hour)
        /\ Cardinality(e.hourWindow \cup {t}) = Cardinality(e.hourWindow) + 1
    BY <1>2, <1>3, <2>2, JoinHolds
  <2>5. Cardinality(e.minuteWindow) \in Nat /\ Cardinality(e.hourWindow) \in Nat
    BY <1>3, FS_CardinalityType DEF Recorded
  <2> HIDE DEF e, t, time
  <2>6. /\ Cardinality(e.minuteWindow) + 1 <= MinuteLimit
        /\ Cardinality(e.hourWindow) + 1 <= HourLimit
    BY <1>3, <2>1, <2>5, LoginAssumption DEF Full
  <2>7. /\ Append(attempts, now) \in Seq(Nat)
        /\ \A n \in DOMAIN Append(attempts, now) : Append(attempts, now)[n] <= now
    BY <1>2
  <2>8. QED
    BY <1>2, <1>5, <2>1, <2>3, <2>4, <2>6, <2>7 DEF LoginInv
<1>8. QED
  BY <1>6, <1>7

\* cleanup trims as an attempt does, and removes an entry only when neither
\* window has anything to hold.
LEMMA CleanupSteps ==
    ASSUME LoginInv, LoginCleanup, UNCHANGED <<now, req>>
    PROVE  LoginInv'
<1> DEFINE e == Trimmed(entry, now)
<1>1. now \in Nat /\ now <= now
  BY DEF LoginInv
<1>2. /\ Recorded(e.minuteWindow, attempts) /\ Recorded(e.hourWindow, attempts)
      /\ Holds(e.minuteWindow, attempts, now - Minute)
      /\ Holds(e.hourWindow, attempts, now - Hour)
      /\ Cardinality(e.minuteWindow) <= MinuteLimit
      /\ Cardinality(e.hourWindow) <= HourLimit
  BY <1>1, TrimmedHolds
<1>3. entry' = (IF e.hourWindow = {} THEN NoEntry ELSE e) /\ attempts' = attempts
  BY DEF LoginCleanup
<1>4. \A r \in Requests :
         At(r, "gate")' => req'[r].time <= now' /\ now' <= req'[r].time + MaxDelay
  BY DEF LoginInv, At
<1> HIDE DEF e
<1>5. CASE e.hourWindow # {}
  BY <1>2, <1>3, <1>4, <1>5 DEF LoginInv
<1>6. CASE e.hourWindow = {}
  <2>1. entry'.minuteWindow = {} /\ entry'.hourWindow = {}
    BY <1>3, <1>6 DEF NoEntry
  <2>2. \A n \in DOMAIN attempts : attempts[n] <= now - Hour + MaxDelay
    BY <1>2, <1>6, LoginAssumption DEF Holds, LoginInv
  <2>3. Holds({}, attempts, now - Minute) /\ Holds({}, attempts, now - Hour)
    BY <2>2, SMTT(30), LoginAssumption DEF Holds, LoginInv
  <2>4. Recorded({}, attempts) /\ Cardinality({}) = 0
    BY FS_EmptySet DEF Recorded
  <2>5. 0 <= MinuteLimit /\ 0 <= HourLimit
    BY LoginAssumption
  <2>6. /\ now' = now /\ now \in Nat /\ attempts \in Seq(Nat)
        /\ \A n \in DOMAIN attempts : attempts[n] <= now
    BY DEF LoginInv
  <2>7. QED
    BY <1>3, <1>4, <2>1, <2>3, <2>4, <2>5, <2>6 DEF LoginInv
<1>7. QED
  BY <1>5, <1>6

\* The clock waits for the attempts at the mutex.
LEMMA TimeSteps ==
    ASSUME LoginInv, EdgeTypeOK, TimePasses
    PROVE  LoginInv'
<1>1. /\ now' = now + 1 /\ UNCHANGED <<entry, attempts, req>> /\ now \in Nat
      /\ \A r \in Requests : At(r, "gate") => now - req[r].time < MaxDelay
  BY DEF TimePasses, loginVars, LoginInv
<1>2. \A r \in Requests :
         At(r, "gate")' => req'[r].time <= now' /\ now' <= req'[r].time + MaxDelay
  <2>1. \A r \in Requests : req[r].time \in Nat
    BY DEF EdgeTypeOK, Request
  <2>2. QED
    BY <1>1, <2>1, LoginAssumption DEF LoginInv, At
<1>3. /\ Holds(entry.minuteWindow, attempts, now - Minute)
      /\ Holds(entry.hourWindow, attempts, now - Hour)
      /\ \A n \in DOMAIN attempts : attempts[n] \in Nat /\ attempts[n] <= now
  BY DEF LoginInv
<1>4. /\ Holds(entry'.minuteWindow, attempts', now' - Minute)
      /\ Holds(entry'.hourWindow, attempts', now' - Hour)
  BY <1>1, <1>3, LoginAssumption DEF Holds
<1>5. /\ now' \in Nat /\ \A n \in DOMAIN attempts' : attempts'[n] <= now'
  BY <1>1, <1>3
<1>6. QED
  BY <1>1, <1>2, <1>4, <1>5 DEF LoginInv

\* Nobody comes to the mutex but with the time read in this tick.
LEMMA ArriveSteps ==
    ASSUME LoginInv, EdgeTypeOK, NEW r \in Requests,
           Login(r) \/ LoginRate(r) \/ LoginValid(r) \/ HandleLogin(r)
             \/ Dashboard(r) \/ LookupToken(r) \/ AuthMiddleware(r) \/ LookupKey(r)
             \/ RateLimit(r) \/ AdminMiddleware(r)
    PROVE  LoginInv'
<1>1. UNCHANGED <<now, loginVars>> /\ now \in Nat
  BY DEF Login, Dashboard, Begin, LoginRate, LoginValid, HandleLogin, LookupToken,
         AuthMiddleware, LookupKey, RateLimit, AdminMiddleware, LoginInv
<1>2. \A o \in Requests : o # r => req'[o] = req[o]
  BY DEF Login, Dashboard, Begin, LoginRate, LoginValid, HandleLogin, LookupToken,
         AuthMiddleware, LookupKey, RateLimit, AdminMiddleware, Goto, End, EdgeTypeOK
<1>3. req \in [Requests -> Request] /\ req[r] \in Request
  BY DEF EdgeTypeOK
<1>4. At(r, "gate")' => req'[r].time = now
  <2>1. CASE LoginRate(r)
    BY <1>3, <2>1 DEF LoginRate, At, End, Idle, Request
  <2>2. CASE Login(r) \/ Dashboard(r)
    BY <1>3, <2>2 DEF Login, Dashboard, Begin, At, Idle
  <2>3. CASE LoginValid(r) \/ HandleLogin(r)
    BY <1>3, <2>3 DEF LoginValid, HandleLogin, Goto, End, At, Idle, Request
  <2>4. CASE LookupToken(r) \/ AuthMiddleware(r) \/ AdminMiddleware(r)
    BY <1>3, <2>4 DEF LookupToken, AuthMiddleware, AdminMiddleware, Goto, End, At, Idle, Request
  <2>5. CASE LookupKey(r) \/ RateLimit(r)
    BY <1>3, <2>5 DEF LookupKey, RateLimit, Goto, End, At, Idle, Request
  <2>6. QED
    BY <2>1, <2>2, <2>3, <2>4, <2>5
<1>5. \A o \in Requests :
         At(o, "gate")' => req'[o].time <= now' /\ now' <= req'[o].time + MaxDelay
  <2>1. SUFFICES ASSUME NEW o \in Requests, At(o, "gate")'
                 PROVE  req'[o].time <= now' /\ now' <= req'[o].time + MaxDelay
    OBVIOUS
  <2>2. CASE o = r
    BY <1>1, <1>4, <2>1, <2>2, LoginAssumption
  <2>3. CASE o # r
    BY <1>1, <1>2, <2>1, <2>3 DEF LoginInv, At
  <2>4. QED
    BY <2>2, <2>3
<1>6. QED
  BY <1>1, <1>5, LoginBeside

\* Every step keeps LoginInv.
LEMMA LoginStep == LoginInv /\ EdgeTypeOK /\ [EdgeNext]_edgeVars => LoginInv'
<1> SUFFICES ASSUME LoginInv, EdgeTypeOK, [EdgeNext]_edgeVars PROVE LoginInv'
  OBVIOUS
<1>1. CASE ChangeKey
  <2>1. UNCHANGED <<now, loginVars>>
    BY <1>1 DEF ChangeKey
  <2>2. ASSUME NEW r \in Requests, At(r, "gate")'
        PROVE  req'[r].time <= now' /\ now' <= req'[r].time + MaxDelay
    <3>1. req[r] \in Request
      BY DEF EdgeTypeOK
    <3>2. req'[r] = IF At(r, "idle") THEN Idle
                    ELSE [req[r] EXCEPT !.valid = @ \/ Valid(key'), !.admin = @ \/ IsAdmin(key')]
      BY <1>1 DEF ChangeKey
    <3>3. req'[r].pc = req[r].pc /\ (~At(r, "idle") => req'[r].time = req[r].time)
      BY <3>1, <3>2 DEF Idle, Request, At
    <3>4. QED
      BY <2>1, <2>2, <3>3 DEF LoginInv, At
  <2>3. QED
    BY <2>1, <2>2, LoginBeside
<1>2. CASE HandleLogout \/ UNCHANGED edgeVars \/ (Cleanups /\ UNCHANGED loginVars)
  <2>1. UNCHANGED <<now, loginVars>> /\ req' = req
    BY <1>2 DEF HandleLogout, edgeVars, Cleanups
  <2>2. QED
    BY <2>1, LoginBeside DEF LoginInv, At
<1>3. CASE Cleanups /\ LoginCleanup
  BY <1>3, CleanupSteps DEF Cleanups
<1>4. QED
  BY <1>1, <1>2, <1>3, ArriveSteps, GateSteps, TimeSteps DEF EdgeNext, Cleanups

\* In every reachable state the windows hold what they are to bound.
THEOREM LoginInvariance == EdgeSpec => []LoginInv
<1>1. RightInv => EdgeTypeOK
  BY DEF RightInv
<1>2. QED
  BY <1>1, RightInvariance, LoginInitInv, LoginStep, PTL DEF EdgeSpec

\* The login limiter lets no more attempts through in a window than its limit,
\* a delay less, whatever order they come to the mutex in.
THEOREM LoginsStayBounded == EdgeSpec => []LoginsBounded
<1>1. LoginInv => LoginsBounded
  <2> SUFFICES ASSUME LoginInv PROVE LoginsBounded
    OBVIOUS
  <2>1. /\ now - Minute \in Int /\ now - Hour \in Int /\ now \in Nat /\ attempts \in Seq(Nat)
        /\ MaxDelay \in Nat
    BY LoginAssumption DEF LoginInv
  <2>2. /\ Within(attempts, now - Minute + MaxDelay + 1, now) <= Cardinality(entry.minuteWindow)
        /\ Within(attempts, now - Hour + MaxDelay + 1, now) <= Cardinality(entry.hourWindow)
    BY <2>1, WindowCounts DEF LoginInv
  <2>3. /\ Within(attempts, now - Minute + MaxDelay + 1, now) \in Nat
        /\ Within(attempts, now - Hour + MaxDelay + 1, now) \in Nat
    BY <2>1, NumbersFinite DEF Within
  <2>4. Cardinality(entry.minuteWindow) \in Nat /\ Cardinality(entry.hourWindow) \in Nat
    BY FS_CardinalityType DEF LoginInv, Recorded
  <2>5. QED
    BY <2>2, <2>3, <2>4, LoginAssumption DEF LoginInv, LoginsBounded
<1>2. QED
  BY LoginInvariance, <1>1, PTL

-----------------------------------------------------------------------------
(***************************************************************************)
(* The rate limiter                                                        *)
(***************************************************************************)

\* The admissions since a time.
Since(times, s) == Cardinality({i \in DOMAIN times : times[i] >= s})

\* Under a burst b and a rate m nobody could have spent more until last and
\* have more tokens left.
Covered(times, tokens, last, b, m) ==
    \A s \in 0..last : Since(times, s) * Window + tokens <= b * Window + m * (last - s)

\* Since some time all that a burst b and a rate m give was spent or is left.
Earned(times, tokens, last, b, m) ==
    \E s \in 0..last : Since(times, s) * Window + tokens >= b * Window + m * (last - s)

\* The buckets, the admissions, and the limits requests have looked up.
RateTypeOK ==
    /\ now \in Nat
    /\ admitted \in [Clients -> Seq(Nat)]
    /\ \A c \in Clients : \A i \in DOMAIN admitted[c] : admitted[c][i] <= now
    /\ clients \in [Clients -> {NoBucket} \cup [tokens : Nat, lastTime : Nat]]
    /\ \A c \in Clients : clients[c].lastTime <= now
    /\ \A r \in Requests : At(r, "rate") => req[r].limits \in LimitsEver["key"]

\* When the bucket of a client was last used: of one that cleanup removed it is
\* longer ago than IdleAge, and a client that never had one was never admitted.
LastUse(c, last) ==
    /\ \A i \in DOMAIN admitted[c] : admitted[c][i] <= last
    /\ IF clients[c] # NoBucket THEN last = clients[c].lastTime
       ELSE last = -1 \/ now - last > IdleAge

\* No client has more than its largest burst and rate so far give it.
UpperInv ==
    \A c \in Clients : \E last \in -1..now, b \in Bursts[c], m \in Rates[c] :
        LastUse(c, last) /\ Covered(admitted[c], clients[c].tokens, last, b, m)

\* Every bucket got what its least burst and rate so far give it.
LowerInv ==
    \A c \in Clients : clients[c] # NoBucket =>
        \E b \in Bursts[c], m \in Rates[c] :
            Earned(admitted[c], clients[c].tokens, clients[c].lastTime, b, m)

\* Arithmetic on products.
LEMMA TimesMonotone ==
    ASSUME NEW a \in Nat, NEW b \in Nat, NEW k \in Nat, a <= b
    PROVE  a * k <= b * k /\ k * a <= k * b
<1>1. b - a \in Nat /\ b = a + (b - a)
  OBVIOUS
<1>2. (a + (b - a)) * k = a * k + (b - a) * k /\ k * (a + (b - a)) = k * a + k * (b - a)
  BY <1>1
<1>3. (b - a) * k \in Nat /\ k * (b - a) \in Nat /\ a * k \in Nat /\ k * a \in Nat
  BY <1>1
<1>4. QED
  BY <1>1, <1>2, <1>3

\* A rate over two stretches of time, one after the other.
LEMMA TimesSum ==
    ASSUME NEW m \in Nat, NEW r \in Int, NEW s \in Int, NEW t \in Int
    PROVE  m * (t - r) = m * (s - r) + m * (t - s)
OBVIOUS

\* Counting admissions: none after the last one, one more with a new one, and
\* the same as Within when none is in the future.
LEMMA SinceFacts ==
    ASSUME NEW times \in Seq(Nat), NEW s \in Nat
    PROVE  /\ Since(times, s) \in Nat
           /\ (\A i \in DOMAIN times : times[i] < s) => Since(times, s) = 0
           /\ \A t \in Nat : s <= t => Since(Append(times, t), s) = Since(times, s) + 1
           /\ \A t \in Nat : (\A i \in DOMAIN times : times[i] <= t) =>
                 Within(times, s, t) = Since(times, s)
<1> DEFINE S == {i \in DOMAIN times : times[i] >= s}
<1>1. IsFiniteSet(S) /\ Cardinality(S) \in Nat
  BY NumbersFinite
<1>2. ASSUME \A i \in DOMAIN times : times[i] < s PROVE Since(times, s) = 0
  <2>1. S = {}
    BY <1>2
  <2>2. QED
    BY <2>1, FS_EmptySet DEF Since
<1>3. ASSUME NEW t \in Nat, s <= t PROVE Since(Append(times, t), s) = Since(times, s) + 1
  <2> DEFINE n == Len(times) + 1
             later == Append(times, t)
  <2>1. /\ DOMAIN later = DOMAIN times \cup {n} /\ n \notin DOMAIN times
        /\ later[n] = t /\ \A i \in DOMAIN times : later[i] = times[i]
    OBVIOUS
  <2> HIDE DEF n, later
  <2>2. {i \in DOMAIN later : later[i] >= s} = S \cup {n}
    BY <1>3, <2>1
  <2>3. n \notin S
    BY <2>1
  <2>4. Cardinality(S \cup {n}) = Cardinality(S) + 1
    BY <1>1, <2>3, FS_AddElement
  <2>5. QED
    BY <2>2, <2>4 DEF Since, later
<1>4. ASSUME NEW t \in Nat, \A i \in DOMAIN times : times[i] <= t
      PROVE  Within(times, s, t) = Since(times, s)
  <2>1. {i \in DOMAIN times : times[i] \in s..t} = S
    BY <1>4
  <2>2. QED
    BY <2>1 DEF Within, Since
<1>5. QED
  BY <1>1, <1>2, <1>3, <1>4 DEF Since

\* The limits are pairs of naturals, the burst and the rate of each among the
\* bursts and rates of the client.
LEMMA LimitsFacts ==
    ASSUME NEW c \in Clients
    PROVE  /\ Bursts[c] \subseteq Nat /\ Rates[c] \subseteq Nat
           /\ Burst \in Bursts[c] /\ RPM \in Rates[c]
           /\ \A l \in LimitsEver[c] :
                 l \in Nat \X Nat /\ l[1] \in Rates[c] /\ l[2] \in Bursts[c]
<1>1. LimitsEver[c] \subseteq Nat \X Nat /\ <<RPM, Burst>> \in LimitsEver[c]
  BY RateAssumption, LimitsAssumption DEF LimitsEver, LimitsOf, Key
<1>2. Bursts[c] = {l[2] : l \in LimitsEver[c]} /\ Rates[c] = {l[1] : l \in LimitsEver[c]}
  BY DEF Bursts, Rates
<1>3. QED
  BY <1>1, <1>2

\* A refill keeps within the larger of two bursts and of two rates.
LEMMA RefillCovered ==
    ASSUME NEW times \in Seq(Nat), NEW n \in Nat, NEW last \in -1..n,
           \A i \in DOMAIN times : times[i] <= last,
           NEW tokens \in Nat, NEW b \in Nat, NEW m \in Nat,
           Covered(times, tokens, last, b, m),
           NEW t \in Nat, NEW rpm \in Nat, NEW burst \in Nat,
           t <= burst * Window,
           last # -1 => t <= tokens + (n - last) * rpm,
           NEW B \in Nat, b <= B, burst <= B,
           NEW M \in Nat, m <= M, rpm <= M
    PROVE  Covered(times, t, n, B, M)
<1>1. SUFFICES ASSUME NEW s \in 0..n
               PROVE  Since(times, s) * Window + t <= B * Window + M * (n - s)
  BY DEF Covered
<1>w. Window \in Nat
  BY RateAssumption
<1>2. burst * Window <= B * Window /\ b * Window <= B * Window
  BY <1>w, TimesMonotone
<1>n. s \in Nat
  BY <1>1
<1>3. Since(times, s) \in Nat
  BY <1>n, SinceFacts
<1>4. CASE s > last
  <2>0. \A i \in DOMAIN times : times[i] < s
    <3>1. \A i \in DOMAIN times : times[i] \in Nat
      OBVIOUS
    <3>2. QED
      BY <1>n, <1>4, <3>1
  <2>1. Since(times, s) = 0
    BY <1>n, <2>0, SinceFacts
  <2>2. M * (n - s) \in Nat
    BY <1>1
  <2>3. QED
    BY <1>2, <1>w, <2>1, <2>2
<1>5. CASE s <= last
  <2>1. Since(times, s) * Window + tokens <= b * Window + m * (last - s)
    BY <1>1, <1>5 DEF Covered
  <2>2. last - s \in Nat /\ n - last \in Nat /\ last # -1
    BY <1>1, <1>5
  <2>3. m * (last - s) <= M * (last - s)
    BY <2>2, TimesMonotone
  <2>4. (n - last) * rpm <= (n - last) * M
    BY <2>2, TimesMonotone
  <2>5. M * (n - s) = M * (last - s) + M * (n - last)
    BY <1>1, TimesSum
  <2>6. (n - last) * M = M * (n - last)
    BY <2>2
  <2> DEFINE x == Since(times, s) * Window
             y == b * Window
             z == B * Window
             p == m * (last - s)
             q == M * (last - s)
             u == (n - last) * rpm
             v == M * (n - last)
  <2>7. x \in Nat /\ y \in Nat /\ z \in Nat /\ p \in Nat /\ q \in Nat /\ u \in Nat /\ v \in Nat
    BY <1>3, <1>w, <2>2
  <2>8. x + tokens <= y + p /\ p <= q /\ u <= v /\ y <= z /\ t <= tokens + u
        /\ M * (n - s) = q + v
    BY <1>2, <2>1, <2>2, <2>3, <2>4, <2>5, <2>6
  <2> HIDE DEF x, y, z, p, q, u, v
  <2>9. x + t <= z + (q + v)
    BY <2>7, <2>8
  <2>10. QED
    BY <2>8, <2>9 DEF x, z
<1>6. QED
  BY <1>1, <1>4, <1>5

\* An admission is paid for with its tokens.
LEMMA ChargeCovered ==
    ASSUME NEW times \in Seq(Nat), NEW n \in Nat, NEW t \in Nat, Window <= t,
           NEW b \in Nat, NEW m \in Nat, Covered(times, t, n, b, m)
    PROVE  Covered(Append(times, n), t - Window, n, b, m)
<1>1. SUFFICES ASSUME NEW s \in 0..n
               PROVE  Since(Append(times, n), s) * Window + (t - Window)
                        <= b * Window + m * (n - s)
  BY DEF Covered
<1>2. s \in Nat /\ s <= n /\ Window \in Nat
  BY RateAssumption
<1>3. Since(times, s) \in Nat /\ Since(Append(times, n), s) = Since(times, s) + 1
  BY <1>2, SinceFacts
<1>4. Since(times, s) * Window + t <= b * Window + m * (n - s)
  BY DEF Covered
<1>5. (Since(times, s) + 1) * Window = Since(times, s) * Window + Window
  BY <1>2, <1>3
<1> DEFINE x == Since(times, s) * Window
           y == b * Window + m * (n - s)
<1>6. x \in Nat /\ y \in Int
  BY <1>2, <1>3
<1> HIDE DEF x, y
<1>7. x + t <= y => (x + Window) + (t - Window) <= y
  BY <1>2, <1>6
<1>8. QED
  BY <1>3, <1>4, <1>5, <1>7 DEF x, y

\* A refill gives at least what the smaller of two rates gives.
LEMMA RefillEarned ==
    ASSUME NEW times \in Seq(Nat), NEW n \in Nat, NEW last \in 0..n,
           NEW tokens \in Nat, NEW b \in Nat, NEW m \in Nat,
           Earned(times, tokens, last, b, m), NEW rpm \in Nat,
           NEW M \in Nat, M <= m, M <= rpm
    PROVE  Earned(times, tokens + (n - last) * rpm, n, b, M)
<1>1. PICK s \in 0..last : Since(times, s) * Window + tokens >= b * Window + m * (last - s)
  BY DEF Earned
<1>2. s \in 0..n /\ s \in Nat /\ last - s \in Nat /\ n - last \in Nat /\ Window \in Nat
  BY RateAssumption
<1>3. Since(times, s) \in Nat
  BY <1>2, SinceFacts
<1>4. M * (last - s) <= m * (last - s) /\ (n - last) * M <= (n - last) * rpm
  BY <1>2, TimesMonotone
<1>5. M * (n - s) = M * (last - s) + M * (n - last) /\ M * (n - last) = (n - last) * M
  BY <1>2, TimesSum
<1> DEFINE x == Since(times, s) * Window
           y == b * Window
           p == m * (last - s)
           q == M * (last - s)
           u == (n - last) * rpm
           v == M * (n - last)
<1>6. x \in Nat /\ y \in Nat /\ p \in Nat /\ q \in Nat /\ u \in Nat /\ v \in Nat
  BY <1>2, <1>3
<1>7. x + tokens >= y + p /\ q <= p /\ v <= u /\ M * (n - s) = q + v
  BY <1>1, <1>4, <1>5
<1> HIDE DEF x, y, p, q, u, v
<1>8. x + (tokens + u) >= y + (q + v)
  BY <1>6, <1>7
<1>9. Since(times, s) * Window + (tokens + (n - last) * rpm) >= b * Window + M * (n - s)
  BY <1>7, <1>8 DEF x, y, u
<1>10. QED
  BY <1>2, <1>9 DEF Earned

\* A full bucket has its burst from now on.
LEMMA FullEarned ==
    ASSUME NEW times \in Seq(Nat), NEW n \in Nat, NEW b \in Nat, NEW m \in Nat
    PROVE  Earned(times, b * Window, n, b, m)
<1>0. n - n = 0 /\ m * 0 = 0
  OBVIOUS
<1>1. Since(times, n) \in Nat /\ Window \in Nat /\ m * (n - n) = 0
  BY <1>0, SinceFacts, RateAssumption
<1>2. Since(times, n) * Window \in Nat /\ b * Window \in Nat
  BY <1>1
<1>3. Since(times, n) * Window + b * Window >= b * Window + m * (n - n)
  BY <1>1, <1>2
<1>4. n \in 0..n
  OBVIOUS
<1>5. QED
  BY <1>3, <1>4 DEF Earned

\* An admission spends what it takes.
LEMMA ChargeEarned ==
    ASSUME NEW times \in Seq(Nat), NEW n \in Nat, NEW t \in Nat, Window <= t,
           NEW b \in Nat, NEW m \in Nat, Earned(times, t, n, b, m)
    PROVE  Earned(Append(times, n), t - Window, n, b, m)
<1>1. PICK s \in 0..n : Since(times, s) * Window + t >= b * Window + m * (n - s)
  BY DEF Earned
<1>2. s \in Nat /\ s <= n /\ Window \in Nat
  BY RateAssumption
<1>3. Since(times, s) \in Nat /\ Since(Append(times, n), s) = Since(times, s) + 1
  BY <1>2, SinceFacts
<1>5. (Since(times, s) + 1) * Window = Since(times, s) * Window + Window
  BY <1>2, <1>3
<1> DEFINE x == Since(times, s) * Window
           y == b * Window + m * (n - s)
<1>6. x \in Nat /\ y \in Int
  BY <1>2, <1>3
<1> HIDE DEF x, y
<1>7. x + t >= y => (x + Window) + (t - Window) >= y
  BY <1>2, <1>6
<1>8. Since(Append(times, n), s) * Window + (t - Window) >= b * Window + m * (n - s)
  BY <1>1, <1>3, <1>5, <1>7 DEF x, y
<1>9. QED
  BY <1>8 DEF Earned

\* What Refilled finds in a bucket: not more than the burst, not more than the
\* time since gives, and one of the two.
LEMMA RefilledFacts ==
    ASSUME now \in Nat, NEW b \in {NoBucket} \cup [tokens : Nat, lastTime : Nat],
           b.lastTime <= now, NEW rpm \in Nat, NEW burst \in Nat
    PROVE  LET t == Refilled(b, rpm, burst)
           IN  /\ t \in Nat /\ t <= burst * Window
               /\ b = NoBucket => t = burst * Window
               /\ b # NoBucket =>
                     /\ b.tokens \in Nat /\ b.lastTime \in 0..now
                     /\ t <= b.tokens + (now - b.lastTime) * rpm
                     /\ t = burst * Window \/ t = b.tokens + (now - b.lastTime) * rpm
<1>1. Window \in Nat /\ burst * Window \in Nat
  BY RateAssumption
<1>2. CASE b = NoBucket
  BY <1>1, <1>2 DEF Refilled
<1>3. CASE b # NoBucket
  <2>1. b.tokens \in Nat /\ b.lastTime \in 0..now
    BY <1>3
  <2>2. now - b.lastTime \in Nat
    BY <2>1
  <2> DEFINE x == b.tokens + (now - b.lastTime) * rpm
             y == burst * Window
  <2>3. x \in Nat
    BY <2>1, <2>2
  <2>4. Refilled(b, rpm, burst) = IF x < y THEN x ELSE y
    BY <1>3 DEF Refilled, AtMost
  <2> HIDE DEF x, y
  <2>5. (IF x < y THEN x ELSE y) \in Nat /\ (IF x < y THEN x ELSE y) <= y
        /\ (IF x < y THEN x ELSE y) <= x
    BY <1>1, <2>3 DEF y
  <2>6. QED
    BY <1>3, <2>1, <2>4, <2>5 DEF x, y
<1>4. QED
  BY <1>2, <1>3

\* AllowWithLimit changes one client, as it is admitted or refused.
LEMMA AllowFacts ==
    ASSUME RateTypeOK, NEW c \in Clients, NEW rpm \in Nat, NEW burst \in Nat, NEW ok \in BOOLEAN,
           AllowWithLimit(c, rpm, burst, ok)
    PROVE  LET t == Refilled(clients[c], rpm, burst)
           IN  /\ t \in Nat /\ (ok => Window <= t) /\ (~ok => t < Window)
               /\ clients' \in [Clients -> {NoBucket} \cup [tokens : Nat, lastTime : Nat]]
               /\ clients'[c].tokens = (IF ok THEN t - Window ELSE t)
               /\ clients'[c].lastTime = now /\ clients'[c] # NoBucket
               /\ admitted' \in [Clients -> Seq(Nat)]
               /\ admitted'[c] = (IF ok THEN Append(admitted[c], now) ELSE admitted[c])
               /\ \A o \in Clients : o # c => clients'[o] = clients[o] /\ admitted'[o] = admitted[o]
<1> DEFINE t == Refilled(clients[c], rpm, burst)
<1>1. /\ now \in Nat /\ clients[c] \in {NoBucket} \cup [tokens : Nat, lastTime : Nat]
      /\ clients[c].lastTime <= now /\ admitted[c] \in Seq(Nat)
  BY DEF RateTypeOK
<1>2. t \in Nat /\ Window \in Nat
  BY <1>1, RefilledFacts, RateAssumption
<1>3. /\ ok = (t >= Window)
      /\ clients' = [clients EXCEPT ![c] = [tokens |-> IF ok THEN t - Window ELSE t,
                                            lastTime |-> now]]
      /\ admitted' = IF ok THEN [admitted EXCEPT ![c] = Append(admitted[c], now)] ELSE admitted
  BY DEF AllowWithLimit
<1> HIDE DEF t
<1>a. ok <=> t >= Window
  BY <1>3, Zenon
<1>4. (ok => Window <= t) /\ (~ok => t < Window)
  BY <1>2, <1>a
<1> DEFINE n == IF ok THEN t - Window ELSE t
           b == [tokens |-> n, lastTime |-> now]
<1>5. n \in Nat
  BY <1>2, <1>4
<1> HIDE DEF n
<1>6. b \in [tokens : Nat, lastTime : Nat] /\ b # NoBucket /\ b.tokens = n /\ b.lastTime = now
  BY <1>1, <1>5 DEF NoBucket
<1>7. clients' = [clients EXCEPT ![c] = b]
  BY <1>3 DEF n
<1> HIDE DEF b
<1>8. /\ clients' \in [Clients -> {NoBucket} \cup [tokens : Nat, lastTime : Nat]]
      /\ clients'[c] = b /\ \A o \in Clients : o # c => clients'[o] = clients[o]
  BY <1>6, <1>7 DEF RateTypeOK
<1>9. /\ admitted' \in [Clients -> Seq(Nat)]
      /\ admitted'[c] = (IF ok THEN Append(admitted[c], now) ELSE admitted[c])
      /\ \A o \in Clients : o # c => admitted'[o] = admitted[o]
  BY <1>1, <1>3 DEF RateTypeOK
<1>10. QED
  BY <1>2, <1>4, <1>6, <1>8, <1>9 DEF t, n

\* The section of the limiter keeps the types.
LEMMA AllowTypes ==
    ASSUME RateTypeOK, NEW c \in Clients, NEW rpm \in Nat, NEW burst \in Nat, NEW ok \in BOOLEAN,
           AllowWithLimit(c, rpm, burst, ok), now' = now,
           \A r \in Requests : At(r, "rate")' => req'[r].limits \in LimitsEver["key"]
    PROVE  RateTypeOK'
<1>1. /\ clients' \in [Clients -> {NoBucket} \cup [tokens : Nat, lastTime : Nat]]
      /\ clients'[c].lastTime = now
      /\ admitted' \in [Clients -> Seq(Nat)]
      /\ admitted'[c] = (IF ok THEN Append(admitted[c], now) ELSE admitted[c])
      /\ \A o \in Clients : o # c => clients'[o] = clients[o] /\ admitted'[o] = admitted[o]
  BY AllowFacts
<1>2. now \in Nat /\ admitted[c] \in Seq(Nat) /\ \A i \in DOMAIN admitted[c] : admitted[c][i] <= now
  BY DEF RateTypeOK
<1>3. \A i \in DOMAIN admitted'[c] : admitted'[c][i] <= now
  BY <1>1, <1>2, SMTT(30)
<1>4. ASSUME NEW o \in Clients
      PROVE  /\ \A i \in DOMAIN admitted'[o] : admitted'[o][i] <= now
             /\ clients'[o].lastTime <= now
  <2>1. CASE o = c
    <3>1. clients'[o].lastTime = now /\ now <= now
      BY <1>1, <1>2, <2>1
    <3>2. QED
      BY <1>3, <2>1, <3>1
  <2>2. CASE o # c
    BY <1>1, <2>2 DEF RateTypeOK
  <2>3. QED
    BY <2>1, <2>2
<1>5. QED
  BY <1>1, <1>2, <1>4 DEF RateTypeOK

\* It keeps what a client has within its largest burst and rate; a new bucket,
\* after cleanup, gives no more than the old one would have had.
LEMMA AllowUpper ==
    ASSUME RefillAssumption, RateTypeOK, UpperInv, NEW c \in Clients, NEW l \in LimitsEver[c],
           NEW ok \in BOOLEAN, AllowWithLimit(c, l[1], l[2], ok), now' = now
    PROVE  UpperInv'
<1> DEFINE t == Refilled(clients[c], l[1], l[2])
<1>1. /\ now \in Nat /\ clients[c] \in {NoBucket} \cup [tokens : Nat, lastTime : Nat]
      /\ clients[c].lastTime <= now /\ admitted[c] \in Seq(Nat)
  BY DEF RateTypeOK
<1>2. l \in Nat \X Nat /\ l[1] \in Nat /\ l[2] \in Nat /\ l[1] \in Rates[c] /\ l[2] \in Bursts[c]
      /\ Bursts[c] \subseteq Nat /\ Rates[c] \subseteq Nat
  BY LimitsFacts
<1>3. /\ t \in Nat /\ (ok => Window <= t)
      /\ clients'[c].tokens = (IF ok THEN t - Window ELSE t)
      /\ clients'[c].lastTime = now /\ clients'[c] # NoBucket
      /\ admitted'[c] = (IF ok THEN Append(admitted[c], now) ELSE admitted[c])
      /\ \A o \in Clients : o # c => clients'[o] = clients[o] /\ admitted'[o] = admitted[o]
  BY <1>2, AllowFacts
<1>4. /\ t <= l[2] * Window
      /\ clients[c] = NoBucket => t = l[2] * Window
      /\ clients[c] # NoBucket => t <= clients[c].tokens + (now - clients[c].lastTime) * l[1]
  BY <1>1, <1>2, RefilledFacts
<1>5. clients[c].tokens \in Nat
  BY <1>1 DEF NoBucket
<1> HIDE DEF t
<1>6. PICK last \in -1..now, b \in Bursts[c], m \in Rates[c] :
         LastUse(c, last) /\ Covered(admitted[c], clients[c].tokens, last, b, m)
  BY DEF UpperInv
<1>7. last # -1 => t <= clients[c].tokens + (now - last) * l[1]
  <2>1. CASE clients[c] # NoBucket
    BY <1>4, <1>6, <2>1 DEF LastUse
  <2>2. CASE clients[c] = NoBucket /\ last # -1
    <3>1. now - last > IdleAge /\ clients[c].tokens = 0
      BY <1>6, <2>2 DEF LastUse, NoBucket
    <3>2. l[2] * Window <= l[1] * IdleAge
      BY DEF RefillAssumption
    <3>3. now - last \in Nat /\ IdleAge \in Nat /\ IdleAge <= now - last
      BY <1>1, <1>6, <3>1, RateAssumption
    <3>4. l[1] * IdleAge <= l[1] * (now - last) /\ l[1] * (now - last) = (now - last) * l[1]
      BY <1>2, <3>3, TimesMonotone
    <3>5. t = l[2] * Window
      BY <1>4, <2>2
    <3> DEFINE x == l[1] * IdleAge
               y == (now - last) * l[1]
    <3>6. x \in Nat /\ y \in Nat /\ t <= x /\ x <= y
      BY <1>2, <3>2, <3>3, <3>4, <3>5
    <3> HIDE DEF x, y
    <3>7. t <= 0 + y
      BY <1>3, <3>6
    <3>8. QED
      BY <3>1, <3>7 DEF y
  <2>3. QED
    BY <2>1, <2>2
<1> DEFINE B == IF b <= l[2] THEN l[2] ELSE b
           M == IF m <= l[1] THEN l[1] ELSE m
<1>8. /\ B \in Bursts[c] /\ M \in Rates[c] /\ B \in Nat /\ M \in Nat
      /\ b \in Nat /\ m \in Nat
      /\ b <= B /\ l[2] <= B /\ m <= M /\ l[1] <= M
  BY <1>2, <1>6
<1> HIDE DEF B, M
<1>9. Covered(admitted[c], t, now, B, M)
  <2>1. \A i \in DOMAIN admitted[c] : admitted[c][i] <= last
    BY <1>6 DEF LastUse
  <2>2. /\ admitted[c] \in Seq(Nat) /\ now \in Nat /\ last \in -1..now
        /\ clients[c].tokens \in Nat /\ t \in Nat /\ l[1] \in Nat /\ l[2] \in Nat
        /\ t <= l[2] * Window
        /\ Covered(admitted[c], clients[c].tokens, last, b, m)
    BY <1>1, <1>2, <1>3, <1>4, <1>5, <1>6
  <2>3. QED
    BY <1>7, <1>8, <2>1, <2>2, RefillCovered
<1>10. Covered(admitted'[c], clients'[c].tokens, now, B, M)
  <2>1. CASE ok
    BY <1>1, <1>3, <1>8, <1>9, <2>1, ChargeCovered
  <2>2. CASE ~ok
    BY <1>3, <1>9, <2>2
  <2>3. QED
    BY <2>1, <2>2
<1>11. LastUse(c, now)'
  <2>1. \A i \in DOMAIN admitted'[c] : admitted'[c][i] <= now
    <3>1. \A i \in DOMAIN admitted[c] : admitted[c][i] <= now
      BY DEF RateTypeOK
    <3>2. QED
      BY <1>1, <1>3, <3>1
  <2>2. QED
    BY <1>3, <2>1 DEF LastUse
<1>12. ASSUME NEW o \in Clients
       PROVE  \E k \in -1..now', d \in Bursts[o], n \in Rates[o] :
                 LastUse(o, k)' /\ Covered(admitted'[o], clients'[o].tokens, k, d, n)
  <2>1. CASE o = c
    <3>1. now \in -1..now'
      BY <1>1
    <3>2. LastUse(o, now)' /\ Covered(admitted'[o], clients'[o].tokens, now, B, M)
      BY <1>10, <1>11, <2>1
    <3>3. QED
      BY <1>8, <2>1, <3>1, <3>2 DEF LastUse
  <2>2. CASE o # c
    <3>1. PICK k \in -1..now, d \in Bursts[o], n \in Rates[o] :
             LastUse(o, k) /\ Covered(admitted[o], clients[o].tokens, k, d, n)
      BY DEF UpperInv
    <3>2. LastUse(o, k)' /\ Covered(admitted'[o], clients'[o].tokens, k, d, n)
      BY <1>3, <2>2, <3>1 DEF LastUse
    <3>3. QED
      BY <3>1, <3>2
  <2>3. QED
    BY <2>1, <2>2
<1>13. QED
  BY <1>12 DEF UpperInv

\* It gives a client what its least burst and rate give.
LEMMA AllowLower ==
    ASSUME RateTypeOK, LowerInv, NEW c \in Clients, NEW l \in LimitsEver[c],
           NEW ok \in BOOLEAN, AllowWithLimit(c, l[1], l[2], ok), now' = now
    PROVE  /\ LowerInv'
           /\ \E b \in Bursts[c], m \in Rates[c] :
                 Earned(admitted[c], Refilled(clients[c], l[1], l[2]), now, b, m)
<1> DEFINE t == Refilled(clients[c], l[1], l[2])
<1>1. /\ now \in Nat /\ clients[c] \in {NoBucket} \cup [tokens : Nat, lastTime : Nat]
      /\ clients[c].lastTime <= now /\ admitted[c] \in Seq(Nat)
  BY DEF RateTypeOK
<1>2. /\ l[1] \in Nat /\ l[2] \in Nat /\ l[1] \in Rates[c] /\ l[2] \in Bursts[c]
      /\ Bursts[c] \subseteq Nat /\ Rates[c] \subseteq Nat
  BY LimitsFacts
<1>3. /\ t \in Nat /\ (ok => Window <= t)
      /\ clients'[c].tokens = (IF ok THEN t - Window ELSE t)
      /\ clients'[c].lastTime = now
      /\ admitted'[c] = (IF ok THEN Append(admitted[c], now) ELSE admitted[c])
      /\ \A o \in Clients : o # c => clients'[o] = clients[o] /\ admitted'[o] = admitted[o]
  BY <1>2, AllowFacts
<1>4. /\ clients[c] = NoBucket => t = l[2] * Window
      /\ clients[c] # NoBucket =>
            /\ clients[c].tokens \in Nat /\ clients[c].lastTime \in 0..now
            /\ t = l[2] * Window \/ t = clients[c].tokens + (now - clients[c].lastTime) * l[1]
  BY <1>1, <1>2, RefilledFacts
<1> HIDE DEF t
<1>5. PICK b \in Bursts[c], m \in Rates[c] : Earned(admitted[c], t, now, b, m)
  <2>1. CASE t = l[2] * Window
    <3>1. Earned(admitted[c], l[2] * Window, now, l[2], l[1])
      BY <1>1, <1>2, FullEarned
    <3>2. QED
      BY <1>2, <2>1, <3>1
  <2>2. CASE clients[c] # NoBucket /\ t = clients[c].tokens + (now - clients[c].lastTime) * l[1]
    <3>1. PICK b \in Bursts[c], m \in Rates[c] :
             Earned(admitted[c], clients[c].tokens, clients[c].lastTime, b, m)
      BY <2>2 DEF LowerInv
    <3> DEFINE M == IF m <= l[1] THEN m ELSE l[1]
    <3>2. M \in Rates[c] /\ M \in Nat /\ b \in Nat /\ m \in Nat /\ M <= m /\ M <= l[1]
      BY <1>2
    <3> HIDE DEF M
    <3>3. clients[c].tokens \in Nat /\ clients[c].lastTime \in 0..now
      BY <1>4, <2>2
    <3>4. Earned(admitted[c], clients[c].tokens + (now - clients[c].lastTime) * l[1], now, b, M)
      BY <1>1, <1>2, <3>1, <3>2, <3>3, RefillEarned
    <3>5. QED
      BY <2>2, <3>2, <3>4
  <2>3. QED
    BY <1>4, <2>1, <2>2
<1>6. Earned(admitted'[c], clients'[c].tokens, now, b, m)
  <2>1. CASE ok
    <3>1. b \in Nat /\ m \in Nat
      BY <1>2
    <3>2. QED
      BY <1>1, <1>3, <1>5, <2>1, <3>1, ChargeEarned
  <2>2. CASE ~ok
    BY <1>3, <1>5, <2>2
  <2>3. QED
    BY <2>1, <2>2
<1>7. ASSUME NEW o \in Clients, clients'[o] # NoBucket
      PROVE  \E d \in Bursts[o], n \in Rates[o] :
                Earned(admitted'[o], clients'[o].tokens, clients'[o].lastTime, d, n)
  <2>1. CASE o = c
    BY <1>3, <1>6, <2>1
  <2>2. CASE o # c
    BY <1>3, <1>7, <2>2 DEF LowerInv
  <2>3. QED
    BY <2>1, <2>2
<1>8. QED
  BY <1>5, <1>7 DEF LowerInv, t

\* The limits that a request carries to the rate limiter are the key's.
LEMMA LimitsCarried ==
    ASSUME RateTypeOK, EdgeTypeOK, [EdgeNext]_edgeVars, NEW r \in Requests, At(r, "rate")'
    PROVE  req'[r].limits \in LimitsEver["key"]
<1>1. req \in [Requests -> Request] /\ req[r] \in Request /\ key \in Key /\ "key" \in Clients
  BY LimitsAssumption DEF EdgeTypeOK
<1>2. CASE req'[r] = req[r]
  BY <1>2 DEF RateTypeOK, At
<1>3. CASE LookupKey(r)
  <2> DEFINE l == LimitsOf(key)
  <2>1. /\ req'[r].pc = (IF l[1] = 0 THEN "role" ELSE "rate")
        /\ req'[r].limits = (IF l[1] = 0 THEN req[r].limits ELSE l)
    BY <1>1, <1>3 DEF LookupKey, Request
  <2>2. l[1] # 0 /\ req'[r].limits = l
    BY <2>1 DEF At
  <2>3. CASE key.state = "deleted"
    BY <1>1, <2>2, <2>3 DEF LimitsOf, LimitsEver
  <2>4. CASE key.state # "deleted"
    <3>1. l[1] = key.limits[1] /\ key.limits[1] \in Nat
      BY <1>1, <2>4, LimitsAssumption DEF LimitsOf, Key
    <3>2. key \in {k \in Key : k.limits[1] > 0}
      BY <1>1, <2>2, <3>1
    <3>3. l \in {LimitsOf(k) : k \in {k \in Key : k.limits[1] > 0}}
      BY <3>2
    <3>4. QED
      BY <1>1, <2>2, <3>3 DEF LimitsEver
  <2>5. QED
    BY <2>3, <2>4
<1>4. CASE ChangeKey
  <2>1. req'[r] = IF At(r, "idle") THEN Idle
                  ELSE [req[r] EXCEPT !.valid = @ \/ Valid(key'), !.admin = @ \/ IsAdmin(key')]
    BY <1>4 DEF ChangeKey
  <2>2. req'[r].pc = req[r].pc /\ (~At(r, "idle") => req'[r].limits = req[r].limits)
    BY <1>1, <2>1 DEF Idle, Request, At
  <2>3. QED
    BY <2>2 DEF RateTypeOK, At
<1>5. CASE Login(r) \/ Dashboard(r)
  BY <1>1, <1>5 DEF Login, Dashboard, Begin, At, Idle
<1>6. CASE LoginRate(r) \/ Gate(r) \/ RateLimit(r)
  BY <1>1, <1>6 DEF LoginRate, Gate, RateLimit, At, End, Idle, Request
<1>7. CASE LoginValid(r) \/ HandleLogin(r) \/ LookupToken(r)
  BY <1>1, <1>7 DEF LoginValid, HandleLogin, LookupToken, Goto, At, End, Idle, Request
<1>8. CASE AuthMiddleware(r) \/ AdminMiddleware(r)
  BY <1>1, <1>8 DEF AuthMiddleware, AdminMiddleware, Goto, At, End, Idle, Request
<1>9. ASSUME NEW o \in Requests, o # r,
             \/ Login(o) \/ LoginRate(o) \/ Gate(o) \/ LoginValid(o) \/ HandleLogin(o)
             \/ Dashboard(o) \/ LookupToken(o) \/ AuthMiddleware(o) \/ LookupKey(o)
             \/ RateLimit(o) \/ AdminMiddleware(o)
      PROVE  req'[r] = req[r]
  BY <1>1, <1>9 DEF Login, Dashboard, Begin, LoginRate, Gate, LoginValid, HandleLogin,
         LookupToken, AuthMiddleware, LookupKey, RateLimit, AdminMiddleware, Goto, End
<1>10. CASE HandleLogout \/ TimePasses \/ Cleanups \/ UNCHANGED edgeVars
  <2>1. req' = req
    BY <1>10 DEF HandleLogout, TimePasses, Cleanups, edgeVars
  <2>2. QED
    BY <1>2, <2>1
<1>11. QED
  BY <1>2, <1>3, <1>4, <1>5, <1>6, <1>7, <1>8, <1>9, <1>10 DEF EdgeNext

\* AllowWithLimit, with limits that were in force at one time or another.
Asks(c, l, ok) == l \in LimitsEver[c] /\ AllowWithLimit(c, l[1], l[2], ok) /\ now' = now

\* Only AllowWithLimit and cleanup touch the buckets and the admissions.
LEMMA RateCases ==
    ASSUME RateTypeOK, EdgeTypeOK, [EdgeNext]_edgeVars
    PROVE  \/ \E c \in Clients, ok \in BOOLEAN : \E l \in LimitsEver[c] : Asks(c, l, ok)
           \/ RateCleanup /\ now' = now
           \/ UNCHANGED rateVars /\ now' \in {now, now + 1}
<1> DEFINE g == <<RPM, Burst>>
<1>1. "address" \in Clients /\ "key" \in Clients /\ g \in LimitsEver["address"]
      /\ g[1] = RPM /\ g[2] = Burst
  BY LimitsAssumption DEF LimitsEver
<1>2. CASE HandleLogout \/ \E r \in Requests : LoginRate(r)
  <2>1. PICK ok \in BOOLEAN : AllowWithLimit("address", RPM, Burst, ok)
    BY <1>2 DEF HandleLogout, LoginRate
  <2>2. now' = now
    BY <1>2 DEF HandleLogout, LoginRate
  <2> HIDE DEF g
  <2>3. Asks("address", g, ok)
    BY <1>1, <2>1, <2>2 DEF Asks
  <2>4. QED
    BY <1>1, <2>3
<1>3. ASSUME NEW r \in Requests, RateLimit(r)
      PROVE  \E c \in Clients, ok \in BOOLEAN : \E l \in LimitsEver[c] : Asks(c, l, ok)
  <2>1. PICK ok \in BOOLEAN : AllowWithLimit("key", req[r].limits[1], req[r].limits[2], ok)
    BY <1>3 DEF RateLimit
  <2>2. req[r].limits \in LimitsEver["key"] /\ now' = now
    BY <1>3 DEF RateLimit, RateTypeOK
  <2>3. Asks("key", req[r].limits, ok)
    BY <2>1, <2>2 DEF Asks
  <2>4. QED
    BY <1>1, <2>2, <2>3
<1>4. CASE \E r \in Requests :
              \/ Login(r) \/ Gate(r) \/ LoginValid(r) \/ HandleLogin(r)
              \/ Dashboard(r) \/ LookupToken(r) \/ AuthMiddleware(r) \/ LookupKey(r)
              \/ AdminMiddleware(r)
  BY <1>4 DEF Login, Dashboard, Begin, Gate, LoginValid, HandleLogin, LookupToken,
     AuthMiddleware, LookupKey, AdminMiddleware
<1>5. CASE ChangeKey \/ TimePasses \/ Cleanups \/ UNCHANGED edgeVars
  BY <1>5 DEF ChangeKey, TimePasses, Cleanups, edgeVars
<1>6. QED
  BY <1>2, <1>3, <1>4, <1>5 DEF EdgeNext

\* The limiter's types and its lower bound hold in the first state.
LEMMA RateInitInv == EdgeInit => RateTypeOK /\ UpperInv /\ LowerInv
<1> SUFFICES ASSUME EdgeInit PROVE RateTypeOK /\ UpperInv /\ LowerInv
  OBVIOUS
<1>1. /\ now = 0 /\ clients = [c \in Clients |-> NoBucket]
      /\ admitted = [c \in Clients |-> <<>>]
      /\ \A r \in Requests : req[r].pc = "idle"
  BY DEF EdgeInit, RateInit, Idle
<1>2. NoBucket.lastTime = -1 /\ NoBucket.tokens = 0
  BY DEF NoBucket
<1>3. RateTypeOK
  BY <1>1, <1>2 DEF RateTypeOK, At
<1>4. UpperInv
  <2>1. ASSUME NEW c \in Clients
        PROVE  \E last \in -1..now, b \in Bursts[c], m \in Rates[c] :
                  LastUse(c, last) /\ Covered(admitted[c], clients[c].tokens, last, b, m)
    <3>1. LastUse(c, -1)
      BY <1>1 DEF LastUse
    <3>2. Covered(admitted[c], clients[c].tokens, -1, Burst, RPM)
      BY DEF Covered
    <3>3. -1 \in -1..now /\ Burst \in Bursts[c] /\ RPM \in Rates[c]
      BY <1>1, LimitsFacts
    <3>4. QED
      BY <3>1, <3>2, <3>3
  <2>2. QED
    BY <2>1 DEF UpperInv
<1>5. LowerInv
  BY <1>1 DEF LowerInv
<1>6. QED
  BY <1>3, <1>4, <1>5

\* Every step keeps the types.
LEMMA RateTypeStep ==
    ASSUME RateTypeOK, EdgeTypeOK, [EdgeNext]_edgeVars
    PROVE  RateTypeOK'
<1>1. \A r \in Requests : At(r, "rate")' => req'[r].limits \in LimitsEver["key"]
  BY LimitsCarried
<1>2. CASE \E c \in Clients, ok \in BOOLEAN : \E l \in LimitsEver[c] : Asks(c, l, ok)
  <2>1. PICK c \in Clients, ok \in BOOLEAN : \E l \in LimitsEver[c] : Asks(c, l, ok)
    BY <1>2
  <2>2. PICK l \in LimitsEver[c] : Asks(c, l, ok)
    BY <2>1
  <2>3. l[1] \in Nat /\ l[2] \in Nat
    BY LimitsFacts
  <2>4. QED
    BY <1>1, <2>2, <2>3, AllowTypes DEF Asks
<1>3. CASE RateCleanup /\ now' = now
  <2>1. clients' \in [Clients -> {NoBucket} \cup [tokens : Nat, lastTime : Nat]]
        /\ admitted' = admitted
    BY <1>3 DEF RateCleanup, RateTypeOK
  <2>2. \A c \in Clients : clients'[c] = NoBucket \/ clients'[c] = clients[c]
    BY <1>3 DEF RateCleanup, RateTypeOK
  <2>3. \A c \in Clients : clients'[c].lastTime <= now
    BY <2>2, SMTT(30) DEF RateTypeOK, NoBucket
  <2>4. QED
    BY <1>1, <1>3, <2>1, <2>3 DEF RateTypeOK
<1>4. CASE UNCHANGED rateVars /\ now' \in {now, now + 1}
  <2>1. clients' = clients /\ admitted' = admitted /\ now \in Nat /\ now' \in Nat /\ now <= now'
    BY <1>4 DEF rateVars, RateTypeOK
  <2>2. \A c \in Clients : \A i \in DOMAIN admitted[c] : admitted[c][i] <= now'
    <3>1. \A c \in Clients : \A i \in DOMAIN admitted[c] : admitted[c][i] \in Nat /\ admitted[c][i] <= now
      BY DEF RateTypeOK
    <3>2. QED
      BY <2>1, <3>1
  <2>3. \A c \in Clients : clients[c].lastTime <= now'
    <3>1. \A c \in Clients : clients[c].lastTime \in Int /\ clients[c].lastTime <= now
      BY DEF RateTypeOK, NoBucket
    <3>2. QED
      BY <2>1, <3>1
  <2>4. QED
    BY <1>1, <2>1, <2>2, <2>3 DEF RateTypeOK
<1>5. QED
  BY <1>2, <1>3, <1>4, RateCases

\* Every step keeps the upper bound.
LEMMA UpperStep ==
    ASSUME RefillAssumption, RateTypeOK, UpperInv, EdgeTypeOK, [EdgeNext]_edgeVars
    PROVE  UpperInv'
<1>2. CASE \E c \in Clients, ok \in BOOLEAN : \E l \in LimitsEver[c] : Asks(c, l, ok)
  <2>1. PICK c \in Clients, ok \in BOOLEAN : \E l \in LimitsEver[c] : Asks(c, l, ok)
    BY <1>2
  <2>2. PICK l \in LimitsEver[c] : Asks(c, l, ok)
    BY <2>1
  <2>3. QED
    BY <2>2, AllowUpper DEF Asks
<1>3. CASE (RateCleanup /\ now' = now) \/ (UNCHANGED rateVars /\ now' \in {now, now + 1})
  <2>1. ASSUME NEW c \in Clients
        PROVE  \E last \in -1..now', b \in Bursts[c], m \in Rates[c] :
                  LastUse(c, last)' /\ Covered(admitted'[c], clients'[c].tokens, last, b, m)
    <3>1. PICK last \in -1..now, b \in Bursts[c], m \in Rates[c] :
             LastUse(c, last) /\ Covered(admitted[c], clients[c].tokens, last, b, m)
      BY DEF UpperInv
    <3>2. now \in Nat /\ now' \in Nat /\ now <= now' /\ admitted' = admitted /\ last \in -1..now'
      BY <1>3 DEF RateCleanup, rateVars, RateTypeOK
    <3>3. CASE clients'[c] = clients[c]
      <4>1. LastUse(c, last)'
        BY <3>1, <3>2, <3>3, RateAssumption DEF LastUse
      <4>2. QED
        BY <3>1, <3>2, <3>3, <4>1
    <3>4. CASE clients'[c] # clients[c]
      <4>1. /\ clients'[c] = NoBucket /\ clients[c] # NoBucket
            /\ now - clients[c].lastTime > IdleAge /\ now' = now
        BY <1>3, <3>4 DEF RateCleanup, rateVars
      <4>2. LastUse(c, last)'
        BY <3>1, <3>2, <4>1 DEF LastUse
      <4>3. clients[c].tokens \in Nat /\ clients'[c].tokens = 0
        BY <4>1 DEF RateTypeOK, NoBucket
      <4>4. ASSUME NEW s \in 0..last
            PROVE  Since(admitted[c], s) * Window + 0 <= b * Window + m * (last - s)
        <5>1. Since(admitted[c], s) * Window + clients[c].tokens <= b * Window + m * (last - s)
          BY <3>1 DEF Covered
        <5>2. s \in Nat /\ admitted[c] \in Seq(Nat) /\ b \in Nat /\ m \in Nat /\ Window \in Nat
          BY LimitsFacts, RateAssumption DEF RateTypeOK
        <5>3. Since(admitted[c], s) \in Nat
          BY <5>2, SinceFacts
        <5> DEFINE x == Since(admitted[c], s) * Window
                   y == b * Window + m * (last - s)
        <5>4. x \in Nat /\ y \in Int
          BY <5>2, <5>3
        <5> HIDE DEF x, y
        <5>5. x + clients[c].tokens <= y => x + 0 <= y
          BY <4>3, <5>4
        <5>6. QED
          BY <5>1, <5>5 DEF x, y
      <4>5. Covered(admitted'[c], clients'[c].tokens, last, b, m)
        BY <3>2, <4>3, <4>4 DEF Covered
      <4>6. QED
        BY <3>1, <3>2, <4>2, <4>5
    <3>5. QED
      BY <3>3, <3>4
  <2>2. QED
    BY <2>1 DEF UpperInv
<1>4. QED
  BY <1>2, <1>3, RateCases

\* Every step keeps the lower bound.
LEMMA LowerStep ==
    ASSUME RateTypeOK, LowerInv, EdgeTypeOK, [EdgeNext]_edgeVars
    PROVE  LowerInv'
<1>2. CASE \E c \in Clients, ok \in BOOLEAN : \E l \in LimitsEver[c] : Asks(c, l, ok)
  <2>1. PICK c \in Clients, ok \in BOOLEAN : \E l \in LimitsEver[c] : Asks(c, l, ok)
    BY <1>2
  <2>2. PICK l \in LimitsEver[c] : Asks(c, l, ok)
    BY <2>1
  <2>3. QED
    BY <2>2, AllowLower DEF Asks
<1>3. CASE RateCleanup \/ UNCHANGED rateVars
  <2>1. /\ admitted' = admitted
        /\ \A c \in Clients : clients'[c] = NoBucket \/ clients'[c] = clients[c]
    BY <1>3 DEF RateCleanup, rateVars
  <2>2. QED
    BY <2>1 DEF LowerInv
<1>4. QED
  BY <1>2, <1>3, RateCases

\* The types of the rate limiter and its lower bound, in every reachable state.
THEOREM LowerInvariance == EdgeSpec => [](RateTypeOK /\ LowerInv)
<1>1. RightInv => EdgeTypeOK
  BY DEF RightInv
<1>2. RateTypeOK /\ LowerInv /\ EdgeTypeOK /\ [EdgeNext]_edgeVars => (RateTypeOK /\ LowerInv)'
  BY RateTypeStep, LowerStep
<1>3. QED
  BY <1>1, <1>2, RightInvariance, RateInitInv, PTL DEF EdgeSpec

\* Its upper bound, where a bucket that cleanup removes would have been full.
THEOREM UpperInvariance ==
    ASSUME RefillAssumption
    PROVE  EdgeSpec => []UpperInv
<1>1. RightInv => EdgeTypeOK
  BY DEF RightInv
<1>2. RateTypeOK /\ LowerInv /\ UpperInv /\ EdgeTypeOK /\ [EdgeNext]_edgeVars => UpperInv'
  BY UpperStep
<1>3. QED
  BY <1>1, <1>2, LowerInvariance, RightInvariance, RateInitInv, PTL DEF EdgeSpec

\* The token buckets admit no more in any stretch of time than the largest
\* burst and rate allow, however the limits of the key are changed between two
\* requests or between looking them up and using them, and whatever cleanup
\* removes, as long as an idle bucket fills up before it is removed.
THEOREM AdmissionsBounded ==
    ASSUME RefillAssumption
    PROVE  EdgeSpec => []RateBounded
<1>1. RateTypeOK /\ UpperInv => RateBounded
  <2> SUFFICES ASSUME RateTypeOK, UpperInv, NEW c \in Clients, NEW s \in 0..now
               PROVE  \E b \in Bursts[c], m \in Rates[c] :
                         Within(admitted[c], s, now) * Window <= b * Window + m * (now - s)
    BY DEF RateBounded
  <2>1. PICK last \in -1..now, b \in Bursts[c], m \in Rates[c] :
           LastUse(c, last) /\ Covered(admitted[c], clients[c].tokens, last, b, m)
    BY DEF UpperInv
  <2>2. /\ s \in Nat /\ now \in Nat /\ admitted[c] \in Seq(Nat) /\ b \in Nat /\ m \in Nat
        /\ Window \in Nat /\ \A i \in DOMAIN admitted[c] : admitted[c][i] <= now
        /\ clients[c].tokens \in Nat
    BY LimitsFacts, RateAssumption DEF RateTypeOK, NoBucket
  <2>3. Within(admitted[c], s, now) = Since(admitted[c], s) /\ Since(admitted[c], s) \in Nat
    BY <2>2, SinceFacts
  <2>4. 0 <= b * Window /\ last - s \in Int /\ now - s \in Nat
    BY <2>2
  <2>5. CASE s > last
    <3>1. \A i \in DOMAIN admitted[c] : admitted[c][i] < s
      <4>1. \A i \in DOMAIN admitted[c] : admitted[c][i] \in Nat /\ admitted[c][i] <= last
        BY <2>1, <2>2 DEF LastUse
      <4>2. QED
        BY <2>2, <2>5, <4>1
    <3>2. Since(admitted[c], s) = 0
      BY <2>2, <3>1, SinceFacts
    <3>3. 0 * Window = 0 /\ b * Window \in Nat /\ m * (now - s) \in Nat
      BY <2>2, <2>4
    <3>4. Within(admitted[c], s, now) * Window <= b * Window + m * (now - s)
      BY <2>3, <3>2, <3>3
    <3>5. QED
      BY <3>4
  <2>6. CASE s <= last
    <3>1. Since(admitted[c], s) * Window + clients[c].tokens <= b * Window + m * (last - s)
      BY <2>1, <2>2, <2>6 DEF Covered
    <3>2. last - s \in Nat /\ last - s <= now - s
      BY <2>2, <2>6
    <3>3. m * (last - s) <= m * (now - s)
      BY <2>2, <2>4, <3>2, TimesMonotone
    <3> DEFINE x == Since(admitted[c], s) * Window
               y == b * Window
               p == m * (last - s)
               q == m * (now - s)
    <3>4. x \in Nat /\ y \in Nat /\ p \in Nat /\ q \in Nat
      BY <2>2, <2>3, <2>4, <3>2
    <3> HIDE DEF x, y, p, q
    <3>5. x + clients[c].tokens <= y + p /\ p <= q => x <= y + q
      BY <2>2, <3>4
    <3>6. Within(admitted[c], s, now) * Window <= b * Window + m * (now - s)
      BY <2>3, <3>1, <3>3, <3>5 DEF x, y, p, q
    <3>7. QED
      BY <3>6
  <2>7. QED
    BY <2>2, <2>5, <2>6
<1>2. QED
  BY <1>1, UpperInvariance, LowerInvariance, PTL

-----------------------------------------------------------------------------
(***************************************************************************)
(* Refusals                                                                *)
(***************************************************************************)

\* A request leaves the place of a limiter for nothing only by its own step.
LEMMA WhoEnds ==
    ASSUME EdgeTypeOK, [EdgeNext]_edgeVars, NEW r \in Requests, req'[r].pc = "idle",
           At(r, "loginRate") \/ At(r, "rate") \/ At(r, "gate")
    PROVE  \/ At(r, "loginRate") /\ LoginRate(r)
           \/ At(r, "rate") /\ RateLimit(r)
           \/ At(r, "gate") /\ Gate(r)
<1>1. req \in [Requests -> Request] /\ req[r] \in Request
  BY DEF EdgeTypeOK
<1>2. req'[r].pc # req[r].pc
  BY DEF At
<1>3. ~ChangeKey
  <2> SUFFICES ASSUME ChangeKey PROVE FALSE
    OBVIOUS
  <2>1. req'[r] = IF At(r, "idle") THEN Idle
                  ELSE [req[r] EXCEPT !.valid = @ \/ Valid(key'), !.admin = @ \/ IsAdmin(key')]
    BY DEF ChangeKey
  <2>2. req'[r].pc = req[r].pc
    BY <1>1, <2>1 DEF Idle, Request, At
  <2>3. QED
    BY <1>2, <2>2
<1>4. ~(HandleLogout \/ TimePasses \/ Cleanups \/ UNCHANGED edgeVars)
  <2>1. HandleLogout \/ TimePasses \/ Cleanups \/ UNCHANGED edgeVars => req' = req
    BY DEF HandleLogout, TimePasses, Cleanups, edgeVars
  <2>2. QED
    BY <1>2, <2>1
<1>5. ASSUME NEW o \in Requests,
             \/ Login(o) \/ LoginRate(o) \/ Gate(o) \/ LoginValid(o) \/ HandleLogin(o)
             \/ Dashboard(o) \/ LookupToken(o) \/ AuthMiddleware(o) \/ LookupKey(o)
             \/ RateLimit(o) \/ AdminMiddleware(o)
      PROVE  o = r
  <2>1. o # r => req'[r] = req[r]
    BY <1>1, <1>5 DEF Login, Dashboard, Begin, LoginRate, Gate, LoginValid, HandleLogin,
           LookupToken, AuthMiddleware, LookupKey, RateLimit, AdminMiddleware, Goto, End
  <2>2. QED
    BY <1>2, <2>1
<1>6. ~(Login(r) \/ LoginValid(r) \/ HandleLogin(r) \/ Dashboard(r) \/ LookupToken(r)
          \/ AuthMiddleware(r) \/ LookupKey(r) \/ AdminMiddleware(r))
  BY DEF Login, Dashboard, Begin, LoginValid, HandleLogin, LookupToken, AuthMiddleware,
         LookupKey, AdminMiddleware, At
<1>7. LoginRate(r) \/ Gate(r) \/ RateLimit(r)
  BY <1>3, <1>4, <1>5, <1>6 DEF EdgeNext
<1>8. QED
  BY <1>7 DEF LoginRate, Gate, RateLimit, At

\* A client that AllowWithLimit refuses has used up a burst and a rate.
LEMMA RefusedUsedUp ==
    ASSUME RateTypeOK, LowerInv, NEW c \in Clients, NEW l \in LimitsEver[c],
           AllowWithLimit(c, l[1], l[2], FALSE), now' = now
    PROVE  UsedUp(c)
<1> DEFINE t == Refilled(clients[c], l[1], l[2])
<1>1. PICK b \in Bursts[c], m \in Rates[c] : Earned(admitted[c], t, now, b, m)
  BY AllowLower
<1>2. l[1] \in Nat /\ l[2] \in Nat
  BY LimitsFacts
<1>3. t \in Nat /\ t < Window
  BY <1>2, AllowFacts
<1> HIDE DEF t
<1>4. PICK s \in 0..now : Since(admitted[c], s) * Window + t >= b * Window + m * (now - s)
  BY <1>1 DEF Earned
<1>5. /\ s \in Nat /\ now \in Nat /\ admitted[c] \in Seq(Nat) /\ b \in Nat /\ m \in Nat
      /\ Window \in Nat /\ \A i \in DOMAIN admitted[c] : admitted[c][i] <= now
  BY LimitsFacts, RateAssumption DEF RateTypeOK
<1>6. Within(admitted[c], s, now) = Since(admitted[c], s) /\ Since(admitted[c], s) \in Nat
  BY <1>5, SinceFacts
<1>7. (Since(admitted[c], s) + 1) * Window = Since(admitted[c], s) * Window + Window
  BY <1>5, <1>6
<1> DEFINE x == Since(admitted[c], s) * Window
           y == b * Window + m * (now - s)
<1>8. x \in Nat /\ y \in Int
  BY <1>5, <1>6
<1> HIDE DEF x, y
<1>9. x + t >= y => x + Window > y
  BY <1>3, <1>5, <1>8
<1>10. (Within(admitted[c], s, now) + 1) * Window > b * Window + m * (now - s)
  BY <1>4, <1>6, <1>7, <1>9 DEF x, y
<1>11. QED
  BY <1>10 DEF UsedUp

\* An attempt that the login limiter refuses has its cause in the logins of the
\* last minute or hour.
LEMMA RefusedLogin ==
    ASSUME LoginInv, NEW time \in Nat, time <= now, now <= time + MaxDelay,
           LoginGate(time, FALSE)
    PROVE  LoginRefusable
<1> DEFINE e == Trimmed(entry, time)
<1>1. Full(e)
  BY DEF LoginGate
<1>2. /\ now \in Nat /\ attempts \in Seq(Nat)
      /\ \A n \in DOMAIN attempts : attempts[n] \in Nat /\ attempts[n] <= now
      /\ Recorded(e.minuteWindow, attempts) /\ Recorded(e.hourWindow, attempts)
  BY TrimmedHolds DEF LoginInv
<1>3. /\ \A t \in e.minuteWindow : t[1] > time - Minute
      /\ \A t \in e.hourWindow : t[1] > time - Hour
  BY DEF Trimmed, trimBefore
<1> HIDE DEF e
<1>4. \A t \in e.minuteWindow : attempts[t[2]] \in now - Minute - MaxDelay .. now
  <2>1. SUFFICES ASSUME NEW t \in e.minuteWindow
                 PROVE  attempts[t[2]] \in now - Minute - MaxDelay .. now
    OBVIOUS
  <2>2. t[1] \in Nat /\ t[2] \in DOMAIN attempts /\ t[1] <= attempts[t[2]] /\ t[1] > time - Minute
    BY <1>2, <1>3 DEF Recorded
  <2>3. QED
    BY <1>2, <2>2, LoginAssumption
<1>5. \A t \in e.hourWindow : attempts[t[2]] \in now - Hour - MaxDelay .. now
  <2>1. SUFFICES ASSUME NEW t \in e.hourWindow
                 PROVE  attempts[t[2]] \in now - Hour - MaxDelay .. now
    OBVIOUS
  <2>2. t[1] \in Nat /\ t[2] \in DOMAIN attempts /\ t[1] <= attempts[t[2]] /\ t[1] > time - Hour
    BY <1>2, <1>3 DEF Recorded
  <2>3. QED
    BY <1>2, <2>2, SMTT(30), LoginAssumption
<1>6. /\ Cardinality(e.minuteWindow) <= Within(attempts, now - Minute - MaxDelay, now)
      /\ Cardinality(e.hourWindow) <= Within(attempts, now - Hour - MaxDelay, now)
  BY <1>2, <1>4, <1>5, StretchCounts
<1>7. /\ Within(attempts, now - Minute - MaxDelay, now) \in Nat
      /\ Within(attempts, now - Hour - MaxDelay, now) \in Nat
      /\ Cardinality(e.minuteWindow) \in Nat /\ Cardinality(e.hourWindow) \in Nat
  BY <1>2, NumbersFinite, FS_CardinalityType DEF Within, Recorded
<1>8. QED
  BY <1>1, <1>6, <1>7, LoginAssumption DEF Full, LoginRefusable

\* No needless 429: a limiter refuses a request, or a login, only when a limit
\* was used up, whatever limits are changed meanwhile, buckets and entries
\* removed and attempts delayed.
THEOREM RefusedOnlyForCause == EdgeSpec => RefusedForCause
<1> DEFINE Cause == \A r \in Requests : req'[r].pc = "idle" =>
                       /\ At(r, "loginRate") => UsedUp("address")
                       /\ At(r, "rate") => UsedUp("key")
                       /\ At(r, "gate") => LoginRefusable
<1>1. RightInv /\ LoginInv /\ RateTypeOK /\ LowerInv /\ [EdgeNext]_edgeVars => Cause
  <2> SUFFICES ASSUME RightInv, LoginInv, RateTypeOK, LowerInv, [EdgeNext]_edgeVars,
                      NEW r \in Requests, req'[r].pc = "idle"
               PROVE  /\ At(r, "loginRate") => UsedUp("address")
                      /\ At(r, "rate") => UsedUp("key")
                      /\ At(r, "gate") => LoginRefusable
    OBVIOUS
  <2>1. EdgeTypeOK /\ req[r] \in Request /\ "address" \in Clients /\ "key" \in Clients
    BY LimitsAssumption DEF RightInv, EdgeTypeOK
  <2>2. CASE At(r, "loginRate")
    <3>1. LoginRate(r)
      BY <2>1, <2>2, WhoEnds DEF At
    <3>2. PICK ok \in BOOLEAN :
             /\ AllowWithLimit("address", RPM, Burst, ok)
             /\ IF ok THEN req' = [req EXCEPT ![r].pc = "gate", ![r].time = now] ELSE End(r)
      BY <3>1 DEF LoginRate
    <3>3. ok = FALSE
      BY <2>1, <3>2 DEF EdgeTypeOK, Request
    <3> DEFINE g == <<RPM, Burst>>
    <3>4. g \in LimitsEver["address"] /\ g[1] = RPM /\ g[2] = Burst
      BY <2>1 DEF LimitsEver
    <3> HIDE DEF g
    <3>5. AllowWithLimit("address", g[1], g[2], FALSE) /\ now' = now
      BY <3>1, <3>2, <3>3, <3>4 DEF LoginRate
    <3>6. UsedUp("address")
      BY <2>1, <3>4, <3>5, RefusedUsedUp
    <3>7. QED
      BY <2>2, <3>6 DEF At
  <2>3. CASE At(r, "rate")
    <3>1. RateLimit(r)
      BY <2>1, <2>3, WhoEnds DEF At
    <3>2. PICK ok \in BOOLEAN :
             /\ AllowWithLimit("key", req[r].limits[1], req[r].limits[2], ok)
             /\ IF ok THEN req' = [req EXCEPT ![r].pc = "role", ![r].limits = <<0, 0>>]
                ELSE End(r)
      BY <3>1 DEF RateLimit
    <3>3. ok = FALSE
      BY <2>1, <3>2 DEF EdgeTypeOK, Request
    <3>4. req[r].limits \in LimitsEver["key"] /\ now' = now
      BY <2>3, <3>1 DEF RateTypeOK, RateLimit
    <3>5. UsedUp("key")
      BY <2>1, <3>2, <3>3, <3>4, RefusedUsedUp
    <3>6. QED
      BY <2>3, <3>5 DEF At
  <2>4. CASE At(r, "gate")
    <3>1. Gate(r)
      BY <2>1, <2>4, WhoEnds DEF At
    <3>2. PICK ok \in BOOLEAN :
             /\ LoginGate(req[r].time, ok)
             /\ IF ok THEN req' = [req EXCEPT ![r].pc = "loginValid", ![r].time = 0] ELSE End(r)
      BY <3>1 DEF Gate
    <3>3. ok = FALSE
      BY <2>1, <3>2 DEF EdgeTypeOK, Request
    <3>4. req[r].time \in Nat /\ req[r].time <= now /\ now <= req[r].time + MaxDelay
      BY <2>1, <2>4 DEF Request, LoginInv
    <3>5. LoginRefusable
      BY <3>2, <3>3, <3>4, RefusedLogin
    <3>6. QED
      BY <2>4, <3>5 DEF At
  <2>5. QED
    BY <2>2, <2>3, <2>4
<1>2. RightInv /\ LoginInv /\ RateTypeOK /\ LowerInv /\ [EdgeNext]_edgeVars => [Cause]_edgeVars
  BY <1>1
<1>3. QED
  BY <1>2, RightInvariance, LoginInvariance, LowerInvariance, PTL DEF EdgeSpec, RefusedForCause

-----------------------------------------------------------------------------
(***************************************************************************)
(* LogPipeline                                                             *)
(***************************************************************************)

\* Every entry of s was handed out before every entry of t.
Before(s, t) == \A i \in DOMAIN s, j \in DOMAIN t : s[i] < t[j]

\* The entries of s are numbers of calls made so far.
Called(s) == \A i \in DOMAIN s : s[i] <= logged

\* InOrder taken apart, so that each action disturbs only some conjuncts.
OrderInv ==
    /\ Increasing(sink) /\ Increasing(batch) /\ Increasing(queue)
    /\ Before(sink, batch) /\ Before(sink, queue) /\ Before(batch, queue)
    /\ Called(sink) /\ Called(batch) /\ Called(queue)

\* The inductive invariant.
PipelineInv == TypeOK /\ Bounded /\ Accounted /\ OrderInv

-----------------------------------------------------------------------------
\* Two increasing sequences, one before the other, are increasing together.
LEMMA ConcatTwo ==
    ASSUME NEW u \in Seq(Nat), NEW v \in Seq(Nat),
           Increasing(u), Increasing(v), Before(u, v)
    PROVE  Increasing(u \o v)
<1> DEFINE w == u \o v
<1>1. /\ w \in Seq(Nat) /\ Len(w) = Len(u) + Len(v)
      /\ \A k \in 1..Len(u) : w[k] = u[k]
      /\ \A k \in Len(u) + 1..Len(w) : k - Len(u) \in 1..Len(v) /\ w[k] = v[k - Len(u)]
  OBVIOUS
<1>2. SUFFICES ASSUME NEW k \in 1..Len(w), NEW l \in 1..Len(w), k < l
               PROVE  w[k] < w[l]
  BY <1>1 DEF Increasing
<1>3. CASE l <= Len(u)
  <2>1. k \in DOMAIN u /\ l \in DOMAIN u
    BY <1>2, <1>3
  <2>2. u[k] < u[l]
    BY <1>2, <2>1 DEF Increasing
  <2>3. QED
    BY <1>1, <1>2, <1>3, <2>2
<1>4. CASE k <= Len(u) /\ l > Len(u)
  <2>1. k \in DOMAIN u /\ l - Len(u) \in DOMAIN v
    BY <1>1, <1>2, <1>4
  <2>2. u[k] < v[l - Len(u)]
    BY <2>1 DEF Before
  <2>3. QED
    BY <1>1, <1>2, <1>4, <2>2
<1>5. CASE k > Len(u)
  <2>1. /\ k - Len(u) \in DOMAIN v /\ l - Len(u) \in DOMAIN v
        /\ k - Len(u) < l - Len(u)
    BY <1>1, <1>2, <1>5
  <2>2. v[k - Len(u)] < v[l - Len(u)]
    BY <2>1 DEF Increasing
  <2>3. QED
    BY <1>1, <1>2, <1>5, <2>2
<1>6. QED
  BY <1>1, <1>2, <1>3, <1>4, <1>5

\* Three increasing sequences, each before the next, are increasing together.
LEMMA ConcatIncreasing ==
    ASSUME NEW r \in Seq(Nat), NEW s \in Seq(Nat), NEW t \in Seq(Nat),
           Increasing(r), Increasing(s), Increasing(t),
           Before(r, s), Before(r, t), Before(s, t)
    PROVE  Increasing(r \o s \o t)
<1>1. r \o s \in Seq(Nat)
  OBVIOUS
<1>2. Increasing(r \o s)
  BY ConcatTwo
<1>3. Before(r \o s, t)
  BY DEF Before
<1>4. QED
  BY <1>1, <1>2, <1>3, ConcatTwo

\* The initial state satisfies the invariant.
LEMMA InitInv == Init => PipelineInv
BY SizesAssumption DEF Init, PipelineInv, TypeOK, Entry, Bounded, Accounted, OrderInv,
   Increasing, Before, Called

\* Every call and every step of the consumer and of Close keeps the invariant.
LEMMA StepInv == PipelineInv /\ [Next]_vars => PipelineInv'
<1> SUFFICES ASSUME PipelineInv, [Next]_vars PROVE PipelineInv'
  OBVIOUS
<1> USE SizesAssumption
<1>1. CASE Log
  <2>1. CASE Len(queue) < LOG_BUFFER_SIZE /\ queue' = Append(queue, logged + 1)
               /\ UNCHANGED dropped
    <3>1. TypeOK'
      BY <1>1, <2>1 DEF Log, PipelineInv, TypeOK, Entry
    <3>2. Len(queue') = Len(queue) + 1
      BY <2>1 DEF PipelineInv, TypeOK, Entry
    <3>3. Bounded' /\ Accounted'
      BY <1>1, <2>1, <3>2 DEF Log, PipelineInv, TypeOK, Entry, Bounded, Accounted
    <3>4. \A i \in DOMAIN queue' :
             \/ i \in DOMAIN queue /\ queue'[i] = queue[i]
             \/ i = Len(queue) + 1 /\ queue'[i] = logged + 1
      BY <2>1 DEF PipelineInv, TypeOK, Entry
    <3>a. /\ logged \in Nat /\ logged' = logged + 1 /\ sink' = sink /\ batch' = batch
          /\ \A i \in DOMAIN sink : sink[i] \in Nat
          /\ \A i \in DOMAIN batch : batch[i] \in Nat
          /\ \A i \in DOMAIN queue : queue[i] \in Nat
      BY <1>1 DEF Log, PipelineInv, TypeOK, Entry
    <3>b. DOMAIN queue = 1..Len(queue) /\ Len(queue) \in Nat
      BY DEF PipelineInv, TypeOK, Entry
    <3>5. Increasing(queue)'
      BY <3>4, <3>a, <3>b DEF PipelineInv, OrderInv, Increasing, Called
    <3>6. Before(sink, queue)' /\ Before(batch, queue)'
      BY <3>4, <3>a DEF PipelineInv, OrderInv, Before, Called
    <3>7. Called(sink)' /\ Called(batch)' /\ Called(queue)'
      BY <3>4, <3>a DEF PipelineInv, OrderInv, Called
    <3>8. Increasing(sink)' /\ Increasing(batch)' /\ Before(sink, batch)'
      BY <1>1 DEF Log, PipelineInv, OrderInv, Increasing, Before
    <3>9. QED
      BY <3>1, <3>3, <3>5, <3>6, <3>7, <3>8 DEF PipelineInv, OrderInv
  <2>2. CASE dropped' = dropped + 1 /\ UNCHANGED queue
    <3>1. TypeOK' /\ Bounded' /\ Accounted'
      BY <1>1, <2>2 DEF Log, PipelineInv, TypeOK, Entry, Bounded, Accounted
    <3>2. /\ logged \in Nat /\ logged' = logged + 1
          /\ sink' = sink /\ batch' = batch /\ queue' = queue
          /\ \A i \in DOMAIN sink : sink[i] \in Nat
          /\ \A i \in DOMAIN batch : batch[i] \in Nat
          /\ \A i \in DOMAIN queue : queue[i] \in Nat
      BY <1>1, <2>2 DEF Log, PipelineInv, TypeOK, Entry
    <3>3. Called(sink)' /\ Called(batch)' /\ Called(queue)'
      BY <3>2 DEF PipelineInv, OrderInv, Called
    <3>4. OrderInv'
      BY <3>2, <3>3 DEF PipelineInv, OrderInv, Increasing, Before
    <3>5. QED
      BY <3>1, <3>4 DEF PipelineInv
  <2>3. QED
    BY <1>1, <2>1, <2>2 DEF Log
<1>2. CASE Receive
  <2> USE <1>2 DEF Receive
  <2>1. TypeOK'
    BY DEF PipelineInv, TypeOK, Entry
  <2>2. Bounded' /\ Accounted'
    BY DEF PipelineInv, TypeOK, Entry, Bounded, Accounted
  <2>3. \A i \in DOMAIN batch' :
           \/ i \in DOMAIN batch /\ batch'[i] = batch[i]
           \/ i = Len(batch) + 1 /\ batch'[i] = queue[1]
    BY DEF PipelineInv, TypeOK, Entry
  <2>4. /\ 1 \in DOMAIN queue
        /\ \A i \in DOMAIN queue' : i + 1 \in DOMAIN queue /\ queue'[i] = queue[i + 1]
    BY DEF PipelineInv, TypeOK, Entry
  <2>5. DOMAIN batch \subseteq Nat /\ DOMAIN batch' \subseteq Nat
        /\ DOMAIN queue \subseteq Nat /\ DOMAIN queue' \subseteq Nat \ {0}
    BY <2>1 DEF PipelineInv, TypeOK, Entry
  <2>6. Increasing(batch)'
    BY <2>3, <2>4 DEF PipelineInv, TypeOK, Entry, OrderInv, Increasing, Before
  <2>7. Increasing(queue)'
    BY <2>4, <2>5 DEF PipelineInv, OrderInv, Increasing
  <2>8. Before(batch, queue)'
    BY <2>3, <2>4, <2>5 DEF PipelineInv, OrderInv, Increasing, Before
  <2>9. Before(sink, batch)' /\ Before(sink, queue)'
    BY <2>3, <2>4 DEF PipelineInv, OrderInv, Before
  <2>10. Called(batch)' /\ Called(queue)' /\ Called(sink)' /\ Increasing(sink)'
    BY <2>3, <2>4 DEF PipelineInv, OrderInv, Called, Increasing
  <2>11. QED
    BY <2>1, <2>2, <2>6, <2>7, <2>8, <2>9, <2>10 DEF PipelineInv, OrderInv
<1>3. CASE Tick \/ Stop
  <2> USE <1>3 DEF Tick, Stop
  <2>1. TypeOK'
    BY DEF PipelineInv, TypeOK, Entry
  <2>2. Bounded' /\ Accounted'
    BY DEF PipelineInv, TypeOK, Entry, Bounded, Accounted
  <2>3. OrderInv'
    BY DEF PipelineInv, OrderInv, Increasing, Before, Called
  <2>4. QED
    BY <2>1, <2>2, <2>3 DEF PipelineInv
<1>4. CASE Insert
  <2> USE <1>4 DEF Insert
  <2>1. TypeOK'
    BY DEF PipelineInv, TypeOK, Entry, After
  <2>2. Bounded' /\ Accounted'
    BY DEF PipelineInv, TypeOK, Entry, Bounded, Accounted, After
  <2>3. \A i \in DOMAIN sink' :
           \/ i \in DOMAIN sink /\ sink'[i] = sink[i]
           \/ i - Len(sink) \in DOMAIN batch /\ sink'[i] = batch[i - Len(sink)]
    BY DEF PipelineInv, TypeOK, Entry
  <2>4. Increasing(sink)'
    BY SMTT(30) DEF PipelineInv, TypeOK, Entry, OrderInv, Increasing, Before
  <2>5. Before(sink, queue)' /\ Called(sink)' /\ Called(queue)' /\ Increasing(queue)'
    BY <2>3 DEF PipelineInv, OrderInv, Increasing, Before, Called
  <2>6. Increasing(batch)' /\ Called(batch)' /\ Before(sink, batch)' /\ Before(batch, queue)'
    BY DEF Increasing, Before, Called
  <2>7. QED
    BY <2>1, <2>2, <2>4, <2>5, <2>6 DEF PipelineInv, OrderInv
<1>5. CASE InsertError
  <2> USE <1>5 DEF InsertError
  <2>1. TypeOK'
    BY DEF PipelineInv, TypeOK, Entry, After
  <2>2. Bounded' /\ Accounted'
    BY DEF PipelineInv, TypeOK, Entry, Bounded, Accounted, After
  <2>3. OrderInv'
    BY DEF PipelineInv, TypeOK, Entry, OrderInv, Increasing, Before, Called
  <2>4. QED
    BY <2>1, <2>2, <2>3 DEF PipelineInv
<1>6. CASE Close \/ Closed
  BY <1>6 DEF Close, Closed, PipelineInv, TypeOK, Entry, Bounded, Accounted, OrderInv,
     Increasing, Before, Called
<1>7. CASE UNCHANGED vars
  BY <1>7 DEF vars, PipelineInv, TypeOK, Entry, Bounded, Accounted, OrderInv,
     Increasing, Before, Called
<1>8. QED
  BY <1>1, <1>2, <1>3, <1>4, <1>5, <1>6, <1>7 DEF Next, Consume

-----------------------------------------------------------------------------
\* The invariant of the pipeline holds in every reachable state.
THEOREM Invariance == Spec => []PipelineInv
<1>1. QED
  BY InitInv, StepInv, PTL DEF Spec

\* The channel and the batch stay within their bounds, also while inserts keep
\* failing.
THEOREM MemoryBounded == Spec => []Bounded
<1>1. PipelineInv => Bounded
  BY DEF PipelineInv
<1>2. QED
  BY Invariance, <1>1, PTL

\* No entry disappears without being counted as dropped or lost.
THEOREM EveryCallAccounted == Spec => []Accounted
<1>1. PipelineInv => Accounted
  BY DEF PipelineInv
<1>2. QED
  BY Invariance, <1>1, PTL

\* The log store gets the entries in the order of the Log calls and never one
\* of them twice.
THEOREM StoredInOrder == Spec => []InOrder
<1>1. TypeOK => sink \in Seq(Nat) /\ batch \in Seq(Nat) /\ queue \in Seq(Nat)
  BY DEF TypeOK, Entry
<1>2. PipelineInv => InOrder
  BY <1>1, ConcatIncreasing DEF PipelineInv, OrderInv, InOrder
<1>3. QED
  BY Invariance, <1>2, PTL
-----------------------------------------------------------------------------
\* A prefix taken off a concatenation, and what is left of it.
LEMMA SplitConcat ==
    ASSUME NEW u \in Seq(Entry), NEW v \in Seq(Entry)
    PROVE  /\ SubSeq(u \o v, 1, Len(u)) = u
           /\ SubSeq(u \o v, Len(u) + 1, Len(u \o v)) = v
<1> DEFINE w == u \o v
<1>1. /\ w \in Seq(Entry) /\ Len(w) = Len(u) + Len(v)
      /\ \A k \in 1..Len(u) : w[k] = u[k]
      /\ \A k \in 1..Len(v) : w[Len(u) + k] = v[k]
  OBVIOUS
<1>2. SubSeq(w, 1, Len(u)) = u
  BY <1>1
<1>3. SubSeq(w, Len(u) + 1, Len(w)) = v
  BY <1>1
<1>4. QED
  BY <1>2, <1>3

\* Moving the first entry of one sequence to the end of the other keeps their
\* concatenation.
LEMMA MoveHead ==
    ASSUME NEW u \in Seq(Entry), NEW v \in Seq(Entry), v # <<>>
    PROVE  Append(u, Head(v)) \o Tail(v) = u \o v
OBVIOUS

\* An entry appended to the second sequence is appended to both.
LEMMA AppendConcat ==
    ASSUME NEW u \in Seq(Entry), NEW v \in Seq(Entry), NEW e \in Entry
    PROVE  u \o Append(v, e) = Append(u \o v, e)
OBVIOUS

\* Every step of the writer is one of LossyLog, or changes nothing there.
LEMMA StepSimulates ==
    PipelineInv /\ [Next]_vars => [Abstract!Next]_(Abstract!vars)
<1> SUFFICES ASSUME PipelineInv, [Next]_vars
             PROVE  Abstract!Next \/ UNCHANGED Abstract!vars
  OBVIOUS
<1> USE SizesAssumption
<1>t. /\ logged \in Nat /\ dropped \in Nat /\ lost \in Nat
      /\ batch \in Seq(Entry) /\ queue \in Seq(Entry) /\ sink \in Seq(Entry)
      /\ Len(batch) <= BatchSize /\ Len(batch \o queue) = Len(batch) + Len(queue)
  BY DEF PipelineInv, TypeOK, Bounded
<1>1. CASE Log
  <2>1. CASE Len(queue) < LOG_BUFFER_SIZE /\ queue' = Append(queue, logged + 1)
               /\ UNCHANGED dropped
    <3>1. batch \o Append(queue, logged + 1) = Append(batch \o queue, logged + 1)
      BY <1>t, AppendConcat, SMTT(30) DEF Entry
    <3>2. Abstract!Offer
      BY <1>t, <1>1, <2>1, <3>1, SMTT(30) DEF Log, Abstract!Offer
    <3>3. QED
      BY <3>2 DEF Abstract!Next
  <2>2. CASE Len(queue) = LOG_BUFFER_SIZE /\ dropped' = dropped + 1 /\ UNCHANGED queue
    <3>1. Abstract!Refuse
      BY <1>t, <1>1, <2>2 DEF Log, Abstract!Refuse
    <3>2. QED
      BY <3>1 DEF Abstract!Next
  <2>3. QED
    BY <1>1, <2>1, <2>2 DEF Log
<1>2. CASE Receive
  <2>1. Append(batch, Head(queue)) \o Tail(queue) = batch \o queue
    BY <1>t, <1>2, MoveHead DEF Receive
  <2>2. QED
    BY <1>2, <2>1 DEF Receive, Abstract!vars
<1>3. CASE Tick \/ Stop \/ Close \/ Closed \/ UNCHANGED vars
  BY <1>3 DEF Tick, Stop, Close, Closed, vars, Abstract!vars
<1>4. CASE Insert \/ InsertError
  <2>1. CASE batch = <<>>
    <3>1. sink \o batch = sink /\ Len(batch) = 0
      BY <1>t, <2>1
    <3>2. /\ batch' = batch /\ queue' = queue /\ logged' = logged /\ dropped' = dropped
          /\ sink' = sink /\ lost' = lost
      BY <1>t, <1>4, <2>1, <3>1 DEF Insert, InsertError
    <3>3. QED
      BY <3>2 DEF Abstract!vars
  <2>2. CASE batch # <<>>
    <3>1. Len(batch) \in 1..BatchSize
      BY <1>t, <2>2
    <3>2. batch' \o queue' = SubSeq(batch \o queue, Len(batch) + 1, Len(batch \o queue))
      <4>1. batch' \o queue' = queue
        BY <1>t, <1>4 DEF Insert, InsertError
      <4>2. QED
        BY <1>t, <4>1, SplitConcat
    <3>3. CASE Insert
      <4>1. SubSeq(batch \o queue, 1, Len(batch)) = batch
        BY <1>t, SplitConcat
      <4>2. Abstract!Store(Len(batch))
        BY <1>t, <3>2, <3>3, <4>1 DEF Insert, Abstract!Store, Abstract!Leave
      <4>3. QED
        BY <3>1, <4>2 DEF Abstract!Next
    <3>4. CASE InsertError
      <4>1. Abstract!Lose(Len(batch))
        BY <1>t, <3>2, <3>4 DEF InsertError, Abstract!Lose, Abstract!Leave
      <4>2. QED
        BY <3>1, <4>1 DEF Abstract!Next
    <3>5. QED
      BY <1>4, <3>3, <3>4
  <2>3. QED
    BY <2>1, <2>2
<1>5. QED
  BY <1>1, <1>2, <1>3, <1>4 DEF Next, Consume

\* The writer implements LossyLog: for every capacity and batch size a caller
\* sees a first-in first-out buffer that refuses only when it is full.
THEOREM Refinement == Spec => ImplementsLossyLog
<1>1. Init => Abstract!Init
  BY DEF Init, Abstract!Init
<1>2. QED
  BY <1>1, Invariance, StepSimulates, PTL DEF Spec, ImplementsLossyLog, Abstract!Spec
=============================================================================
