------------------------------- MODULE Combos -------------------------------
(***************************************************************************)
(* One combo, "combo/<name>": its registry (internal/proxy/combo.go), its  *)
(* Redis hash and counter (internal/db/db.go), and the requests routed     *)
(* through it (ProxyRequest in internal/proxy/proxy.go).  Beside it, one   *)
(* entry of the registry of custom models and aliases                      *)
(* (internal/proxy/custom.go), which the combo's models may go through.    *)
(*                                                                         *)
(* A request reads the registry up to three times, each time under its     *)
(* lock, to pick a model, to learn the strategy and to get the list it     *)
(* walks; administrators replace and delete the combo in between.          *)
(*                                                                         *)
(* What the other names stand for (the grok-4.5-<effort> names, prefixes)  *)
(* is a constant table; what an upstream answers is a choice.              *)
(***************************************************************************)
EXTENDS Integers, Sequences, SequencesExt

CONSTANTS
    Models,            \* model names a combo may list
    Target,            \* the model a name is resolved to
    Effort,            \* the reasoning effort a name stands for, or "unset"
    Custom,            \* a name that may have an entry in the custom registry
    Bindings,          \* what administrators let it stand for
    Inputs,            \* combos an administrator may post
    MAX_COMBO_MODELS,  \* the longest list AddCombo accepts
    Whitelists,        \* allowed_models of the keys: sets of models
    Requests,
    Admins,
    RedisFails,        \* whether a Redis command may fail
    Cycle              \* bound: counters modulo a multiple of the rotated lengths

ASSUME TablesAssumption ==
    /\ "combo" \notin Models
    /\ DOMAIN Target = Models /\ DOMAIN Effort = Models
    /\ \A m \in Models : Effort[m] # "client"
    /\ Custom \in Models
    /\ \A b \in Bindings : b.effort # "client" /\ b.target # Custom
    /\ Inputs \subseteq [strategy : {"fallback", "round_robin"}, models : Seq(Models)]
ASSUME CycleAssumption ==
    /\ MAX_COMBO_MODELS \in Nat \ {0}
    /\ Cycle \in Nat \ {0}
    /\ \A c \in Inputs :
          c.strategy = "round_robin" /\ c.models # <<>> => Cycle % Len(c.models) = 0
ASSUME RedisFailsAssumption == RedisFails \in BOOLEAN

VARIABLES
    cache,     \* r.combos[name]
    stored,    \* its field of the Redis hash
    custom,    \* what Custom stands for: r.aliases and r.models
    hash,      \* the same in Redis: custom_models and custom_aliases
    counter,   \* combo:counter:<name>, modulo Cycle
    seq,       \* fallbackSeq[name], modulo Cycle
    run,       \* history: round-robin picks in a row from the combo as it is
    req,       \* each request
    adm        \* each administrator

registry == <<cache, stored, custom, hash>>
vars == <<registry, counter, seq, run, req, adm>>

-----------------------------------------------------------------------------
NoCombo == [strategy |-> "none", models |-> <<>>]

\* AddCombo's validation: a list that is neither empty nor too long.
Valid(c) == Len(c.models) \in 1..MAX_COMBO_MODELS

Known == {c \in Inputs : Valid(c)} \cup {NoCombo}

\* What an upstream call comes to; "gone" is a client that went away, for
\* which nothing is written and the recorder keeps its status of 200.
Status == {"ok", "4xx", "5xx", "gone"}

\* Efforts a name may stand for or a body have.
Efforts == {"unset", "client"} \cup {Effort[m] : m \in Models} \cup {b.effort : b \in Bindings}

Calls == [name : Models \cup {"combo"}, effort : Efforts, status : Status]

\* A request: the combo it read last, the model picked ("combo", its own
\* name, until then), whether it streams, the key's allowed models, the body's
\* reasoning_effort ("client" when the client set it), the upstream calls made,
\* and whether it walks a list.
Request == [pc : {"idle", "count", "check", "list", "walk", "send", "done"},
            combo : Known, model : Models \cup {"combo"}, stream : BOOLEAN,
            allowed : Whitelists \cup {{}}, effort : Efforts, tried : Seq(Calls),
            walk : BOOLEAN]

NoRequest == [pc |-> "idle", combo |-> NoCombo, model |-> "combo",
              stream |-> FALSE, allowed |-> {}, effort |-> "unset",
              tried |-> <<>>, walk |-> FALSE]

Binding(target, effort) == [target |-> target, effort |-> effort]

\* A name without an entry is passed on as it is.
Unbound == Binding(Custom, "unset")

Admin == [pc : {"idle", "hset", "add", "del", "delete", "hsetName", "setName"},
          combo : Known, bind : Bindings \cup {Unbound}]

NoAdmin == [pc |-> "idle", combo |-> NoCombo, bind |-> Unbound]

TypeOK ==
    /\ cache \in Known
    /\ stored \in Known
    /\ custom \in Bindings \cup {Unbound}
    /\ hash \in Bindings \cup {Unbound}
    /\ counter \in 0..Cycle - 1
    /\ seq \in 0..Cycle - 1
    /\ run \in Seq(Models)
    /\ req \in [Requests -> Request]
    /\ adm \in [Admins -> Admin]

Init ==
    /\ cache = NoCombo
    /\ stored = NoCombo
    /\ custom = Unbound
    /\ hash = Unbound
    /\ counter = 0
    /\ seq = 0
    /\ run = <<>>
    /\ req = [q \in Requests |-> NoRequest]
    /\ adm = [a \in Admins |-> NoAdmin]

-----------------------------------------------------------------------------
(***************************************************************************)
(* A request for combo/<name>.                                             *)
(***************************************************************************)

Set(q, r) == req' = [req EXCEPT ![q] = r]

\* Resolve, under the lock: an unknown combo is passed on under its own name.
Arrive(q) ==
    /\ req[q].pc = "idle"
    /\ \E stream \in BOOLEAN, allowed \in Whitelists, effort \in {"unset", "client"} :
          Set(q, [NoRequest EXCEPT
                     !.pc = IF cache.strategy = "round_robin" THEN "count" ELSE "check",
                     !.combo = cache,
                     !.model = IF cache.strategy = "fallback" THEN cache.models[1] ELSE "combo",
                     !.stream = stream, !.allowed = allowed, !.effort = effort])
    /\ UNCHANGED <<registry, counter, seq, run, adm>>

\* Faulty variant: never gets to the last model.
ChoiceShort(c, n) ==
    c.models[IF Len(c.models) = 1 THEN 1 ELSE (n % (Len(c.models) - 1)) + 1]

\* idx = (counter - 1) % len for the incremented counter.
Choice(c, n) == c.models[(n % Len(c.models)) + 1]

\* Resolve, unlocked: INCR, or the process's own sequence when that fails.
Count(q) ==
    LET c == req[q].combo
    IN  /\ req[q].pc = "count"
        /\ \/ /\ counter' = (counter + 1) % Cycle
              /\ Set(q, [req[q] EXCEPT !.pc = "check", !.model = Choice(c, counter)])
              /\ run' = IF c # cache THEN <<>>
                        ELSE IF Len(run) >= Len(c.models) THEN <<Choice(c, counter)>>
                        ELSE Append(run, Choice(c, counter))
              /\ UNCHANGED seq
           \/ /\ RedisFails
              /\ seq' = (seq + 1) % Cycle
              /\ Set(q, [req[q] EXCEPT !.pc = "check", !.model = Choice(c, seq)])
              /\ run' = <<>>
              /\ UNCHANGED counter
        /\ UNCHANGED <<registry, adm>>

\* What a name stands for: the entry of a custom one, the table for others; a
\* combo that was not found is left as it is.
Meaning(m) ==
    CASE m = "combo" -> Binding(m, "unset")
      [] m = Custom -> custom
      [] OTHER -> Binding(Target[m], Effort[m])

\* The name the whitelist is asked about.
Resolved(m) == Meaning(m).target

\* ExpandGrokAlias on the body: the effort a name stands for, unless the body
\* has one.
Expanded(effort, m) == IF effort = "unset" THEN Meaning(m).effort ELSE effort

\* The strategy is read, the alias expanded, the key's whitelist applied.
Check(q) ==
    LET r == req[q]
    IN  /\ r.pc = "check"
        /\ \/ /\ Resolved(r.model) \notin r.allowed
              /\ Set(q, [r EXCEPT !.pc = "done"])
           \/ /\ Resolved(r.model) \in r.allowed
              /\ Set(q, [r EXCEPT
                            !.pc = IF r.model # "combo" /\ cache.strategy = "fallback"
                                      /\ ~r.stream
                                   THEN "list" ELSE "send",
                            !.effort = Expanded(@, r.model)])
        /\ UNCHANGED <<registry, counter, seq, run, adm>>

\* The list to walk is read.
ReadList(q) ==
    /\ req[q].pc = "list"
    /\ Set(q, [req[q] EXCEPT !.pc = "walk", !.combo = cache, !.walk = TRUE])
    /\ UNCHANGED <<registry, counter, seq, run, adm>>

Call(name, effort, status) == [name |-> name, effort |-> effort, status |-> status]

\* Faulty variant: also retries what the client did wrong.
FinalNotClient(status) == status \in {"ok", "gone"}

\* bw.status < 500 ends the walk.
Final(status) == status # "5xx"

\* The next candidate is sent and its answer recorded; a final one, or the
\* last, is what the client will get.
Walk(q) ==
    LET r == req[q]
        i == Len(r.tried) + 1
        m == r.combo.models[i]
        e == Expanded(r.effort, m)
    IN  /\ r.pc = "walk"
        /\ i <= Len(r.combo.models)
        /\ \E s \in Status :
              Set(q, [r EXCEPT
                         !.tried = Append(@, Call(m, e, s)), !.effort = e,
                         !.pc = IF Final(s) \/ i = Len(r.combo.models) THEN "done" ELSE "walk"])
        /\ UNCHANGED <<registry, counter, seq, run, adm>>

\* No candidate at all: there is no recorder to flush.
WalkNothing(q) ==
    /\ req[q].pc = "walk"
    /\ req[q].combo.models = <<>>
    /\ Set(q, [req[q] EXCEPT !.pc = "done"])
    /\ UNCHANGED <<registry, counter, seq, run, adm>>

\* Any other request: one call, written straight to the client.
Send(q) ==
    /\ req[q].pc = "send"
    /\ \E s \in Status :
          Set(q, [req[q] EXCEPT !.pc = "done",
                                !.tried = <<Call(req[q].model, req[q].effort, s)>>])
    /\ UNCHANGED <<registry, counter, seq, run, adm>>

\* The recorder, if there is one, is flushed and the handler returns.
Leave(q) ==
    /\ req[q].pc = "done"
    /\ Set(q, NoRequest)
    /\ UNCHANGED <<registry, counter, seq, run, adm>>

-----------------------------------------------------------------------------
(***************************************************************************)
(* The registry's handlers: Redis first, then the cache.                   *)
(***************************************************************************)

Go(a, where, c) == adm' = [adm EXCEPT ![a] = [NoAdmin EXCEPT !.pc = where, !.combo = c]]

\* AddCombo: what is not valid is refused.
Post(a) ==
    /\ adm[a].pc = "idle"
    /\ \E c \in Inputs : Valid(c) /\ Go(a, "hset", c)
    /\ UNCHANGED <<registry, counter, seq, run, req>>

\* Faulty variant: goes on to the cache although the write failed.
SaveComboIgnoringErrors(a) ==
    /\ adm[a].pc = "hset"
    /\ \/ stored' = adm[a].combo
       \/ RedisFails /\ UNCHANGED stored
    /\ Go(a, "add", adm[a].combo)
    /\ UNCHANGED <<cache, custom, hash, counter, seq, run, req>>

\* SaveCombo: an HSET, after which the cache is changed; an error ends AddCombo.
SaveCombo(a) ==
    /\ adm[a].pc = "hset"
    /\ \/ /\ stored' = adm[a].combo
          /\ Go(a, "add", adm[a].combo)
       \/ /\ RedisFails
          /\ Go(a, "idle", NoCombo)
          /\ UNCHANGED stored
    /\ UNCHANGED <<cache, custom, hash, counter, seq, run, req>>

AddCombo(a) ==
    /\ adm[a].pc = "add"
    /\ cache' = adm[a].combo
    /\ run' = <<>>
    /\ Go(a, "idle", NoCombo)
    /\ UNCHANGED <<stored, custom, hash, counter, seq, req>>

\* DeleteCombo of the store: HDEL, whose error ends the deletion ...
HDel(a) ==
    /\ adm[a].pc = "idle"
    /\ \/ /\ stored' = NoCombo
          /\ Go(a, "del", NoCombo)
       \/ /\ RedisFails
          /\ UNCHANGED <<stored, adm>>
    /\ UNCHANGED <<cache, custom, hash, counter, seq, run, req>>

\* ... then DEL of the counter, whose error is ignored ...
DelCounter(a) ==
    /\ adm[a].pc = "del"
    /\ \/ counter' = 0
       \/ RedisFails /\ UNCHANGED counter
    /\ run' = <<>>
    /\ Go(a, "delete", NoCombo)
    /\ UNCHANGED <<registry, seq, req>>

\* ... then the cache.
DeleteCombo(a) ==
    /\ adm[a].pc = "delete"
    /\ cache' = NoCombo
    /\ run' = <<>>
    /\ Go(a, "idle", NoCombo)
    /\ UNCHANGED <<stored, custom, hash, counter, seq, req>>

\* AddModel, AddAlias, DeleteModel, DeleteAlias: what Custom stands for is
\* changed in Redis, whose error ends the operation ...
PostName(a) ==
    /\ adm[a].pc = "idle"
    /\ \E b \in Bindings \cup {Unbound} :
          adm' = [adm EXCEPT ![a] = [NoAdmin EXCEPT !.pc = "hsetName", !.bind = b]]
    /\ UNCHANGED <<registry, counter, seq, run, req>>

SaveName(a) ==
    /\ adm[a].pc = "hsetName"
    /\ \/ /\ hash' = adm[a].bind
          /\ adm' = [adm EXCEPT ![a].pc = "setName"]
       \/ /\ RedisFails
          /\ Go(a, "idle", NoCombo)
          /\ UNCHANGED hash
    /\ UNCHANGED <<cache, stored, custom, counter, seq, run, req>>

\* ... then in the cache.
SetName(a) ==
    /\ adm[a].pc = "setName"
    /\ custom' = adm[a].bind
    /\ Go(a, "idle", NoCombo)
    /\ UNCHANGED <<cache, stored, hash, counter, seq, run, req>>

\* The process stops at any point; Load fills the caches from Redis.
Restart ==
    /\ cache' = stored
    /\ custom' = hash
    /\ seq' = 0
    /\ run' = IF stored = cache THEN run ELSE <<>>
    /\ req' = [q \in Requests |-> NoRequest]
    /\ adm' = [a \in Admins |-> NoAdmin]
    /\ UNCHANGED <<stored, hash, counter>>

-----------------------------------------------------------------------------
RequestStep(q) ==
    \/ Count(q) \/ Check(q) \/ ReadList(q) \/ Walk(q) \/ WalkNothing(q) \/ Send(q)

AdminStep(a) ==
    \/ SaveCombo(a) \/ AddCombo(a) \/ DelCounter(a) \/ DeleteCombo(a)
    \/ SaveName(a) \/ SetName(a)

Next ==
    \/ \E q \in Requests : Arrive(q) \/ RequestStep(q) \/ Leave(q)
    \/ \E a \in Admins : Post(a) \/ HDel(a) \/ PostName(a) \/ AdminStep(a)
    \/ Restart

Spec == Init /\ [][Next]_vars

-----------------------------------------------------------------------------
(***************************************************************************)
(* Properties.                                                             *)
(***************************************************************************)

Names(calls) == [i \in DOMAIN calls |-> calls[i].name]

\* A walk keeps its word whatever happens to the combo meanwhile: candidates
\* are tried in the order of one and the same list, none is tried after an
\* answer that is not the upstream's failure, and the client is given a
\* failure only when every candidate has failed.  They share a body: after the
\* first that is sent with an effort, all are sent with that one, also those
\* whose own name stands for another.
WalkIsComplete ==
    \A q \in Requests :
        LET r == req[q]
            t == r.tried
        IN  /\ r.pc = "done" /\ r.walk /\ t # <<>> =>
                 /\ IsPrefix(Names(t), r.combo.models)
                 /\ \A i \in 1..Len(t) - 1 : t[i].status = "5xx"
                 /\ Last(t).status = "5xx" => Len(t) = Len(r.combo.models)
            /\ \A i, j \in DOMAIN t :
                 i < j /\ t[i].effort # "unset" => t[j].effort = t[i].effort

\* README.md:419 "cluster-safe fair rotation": concurrent requests that pick
\* from an unchanged combo with Redis answering get each of its models once
\* in every len(Models) picks, from wherever the counter stands.
RotationExact == cache.strategy = "round_robin" /\ IsInjective(cache.models) => IsInjective(run)

\* combo.go:185 "Cache is updated only after the Redis write succeeds so a
\* persistence error does not silently diverge the in-memory view": when no
\* operation is under way the registry and Redis agree, even if commands
\* failed, so that a restart changes nothing; the same for the custom registry.  This holds with one
\* administrator at a time; with two, the HSETs and the cache updates of two
\* operations may come in opposite orders, which the reload on every mutation
\* that handlers/combos.go:5 and combo.go:49 speak of would have repaired.
RegistryPersisted == (\A a \in Admins : adm[a].pc = "idle") => cache = stored /\ custom = hash
=============================================================================
