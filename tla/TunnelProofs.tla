---------------------------- MODULE TunnelProofs ----------------------------
(***************************************************************************)
(* Proofs about Tunnel, for every number of operations that run at once,   *)
(* of processes and of requests.                                           *)
(***************************************************************************)
EXTENDS Tunnel, WellFoundedInduction, TLAPS

NoProc == [k \in Kinds |-> 0]
NoneLive == \A p \in Procs : proc[p] # "live"
Kills == {"killQuick", "killNamed"}
Stops == {"disable", "shutdown"}

\* An operation that has returned keeps nothing.
ReturnedIsIdle == \A o \in Ops : op[o].pc = "idle" => op[o] = Idle

\* Only an operation between stopAll and its last kill holds processes.
HoldsToKill ==
    \A o \in Ops :
        /\ op[o].pc \notin Kills => op[o].took = NoProc
        /\ op[o].pc = "killNamed" => op[o].took["quick"] = 0

\* What is alone has the others idle.
OthersIdle ==
    \A o \in Ops : op[o].alone # "no" => \A x \in Ops \ {o} : op[x].pc = "idle"

\* An operation that is alone finds the manager empty once it has stopped all,
\* and a Disable or Shutdown leaves no process.
StoppedAlone ==
    \A o \in Ops : op[o].alone # "no" =>
        /\ op[o].pc \in Kills => cmd = NoProc
        /\ op[o].kind \in Stops /\ op[o].pc \in {"load", "save", "exit"} => NoneLive

\* Where the operations of each kind can be.
KindPlaces ==
    \A o \in Ops :
        /\ op[o].pc \in {"startQuick", "startNamed", "execNamed"} => op[o].kind \notin Stops
        /\ op[o].pc = "exit" => op[o].kind = "shutdown"

\* A Disable that overlaps nothing meets no captured URL and saves "none".
DisableAlone ==
    \A o \in Ops : op[o].kind = "disable" =>
        /\ op[o].pc = "save" => op[o].cfg.mode = "none" /\ op[o].cfg.url = 0
        /\ op[o].alone = "all" =>
              /\ Capturing = {}
              /\ op[o].pc # "stop" => url = 0

\* What a Disable or the Shutdown has left behind lasts.
OffLasts ==
    off # "no" =>
        /\ NoneLive
        /\ ~exited => \A o \in Ops : op[o].pc = "idle"
        /\ ~exited /\ off = "all" =>
              Capturing = {} /\ conf.mode = "none" /\ conf.url = 0 /\ url = 0

\* The inductive invariant.
TunnelInv ==
    /\ TypeOK /\ ReturnedIsIdle /\ HoldsToKill /\ OthersIdle /\ StoppedAlone
    /\ KindPlaces /\ DisableAlone /\ OffLasts /\ NoOrphan

-----------------------------------------------------------------------------
\* A set of numbers that is not empty has a least one.
LEMMA Least ==
    ASSUME NEW S \in SUBSET Nat, S # {}
    PROVE  \E m \in S : \A n \in S : m <= n
<1>1. PICK m \in S : \A n \in S : ~(<<n, m>> \in OpToRel(<, Nat))
  BY WFMin, NatLessThanWellFounded, Zenon
<1>2. \A n \in S : ~(n < m)
  BY <1>1 DEF OpToRel
<1>3. QED
  BY <1>2

\* Start starts a process that was not started before.
LEMMA StartsFresh ==
    ASSUME NEW k \in Kinds, Start(k)
    PROVE  \E p \in Fresh :
              /\ proc' = [proc EXCEPT ![p] = "live"]
              /\ cmd' = [cmd EXCEPT ![k] = p]
              /\ capture' = IF k = "named" THEN capture
                            ELSE [capture EXCEPT ![p].pc = "wait"]
              /\ url' = IF k = "named" THEN url ELSE 0
<1> DEFINE p == CHOOSE p \in Fresh : \A q \in Fresh : p <= q
<1>1. Fresh # {} /\ Fresh \in SUBSET Nat
  BY BoundsAssumption DEF Start, Fresh, Procs
<1>2. p \in Fresh
  BY <1>1, Least
<1>3. QED
  BY <1>2 DEF Start

\* The constant records are of their types.
LEMMA IdleType == NoConfig \in Config /\ Idle \in Operation
BY DEF NoConfig, Config, Idle, Operation, Kinds

\* Type correctness is inductive by itself.
LEMMA TypeStep == TypeOK /\ [Next]_vars => TypeOK'
<1> SUFFICES ASSUME TypeOK, [Next]_vars PROVE TypeOK'
  OBVIOUS
<1> USE IdleType DEF TypeOK, state, life
<1>1. ASSUME NEW o \in Ops, NEW w \in {"load", "stop"},
             NEW k \in {"enable", "disable", "restart", "shutdown"}, NEW c \in Config,
             Begin(o, w, k, c)
      PROVE  /\ op' \in [Ops -> Operation] /\ off' \in {"no", "ops", "all"}
             /\ UNCHANGED <<conf, state, exited>>
  BY <1>1, ZenonT(40) DEF Begin, Operation, Idle
<1>2. ASSUME NEW o \in Ops,
             \/ HandleTunnelEnable(o) \/ HandleTunnelDisable(o)
             \/ HandleTunnelRestart(o) \/ Shutdown(o)
      PROVE  TypeOK'
  <2>1. CASE HandleTunnelEnable(o)
    <3>1. PICK m \in Modes, c \in BOOLEAN :
              Request(o, "load", "enable", [mode |-> m, url |-> 0, creds |-> c])
      BY <2>1 DEF HandleTunnelEnable
    <3>2. [mode |-> m, url |-> 0, creds |-> c] \in Config
      BY ModesAssumption DEF Config
    <3>3. QED
      BY <3>1, <3>2, <1>1 DEF Request
  <2>2. CASE HandleTunnelDisable(o)
    BY <2>2, <1>1 DEF HandleTunnelDisable, Request
  <2>3. CASE HandleTunnelRestart(o)
    BY <2>3, <1>1 DEF HandleTunnelRestart, Request
  <2>4. CASE Shutdown(o)
    BY <2>4, <1>1 DEF Shutdown
  <2>5. QED
    BY <1>2, <2>1, <2>2, <2>3, <2>4
<1>3. ASSUME NEW o \in Ops, Step(o) PROVE TypeOK'
  <2> op[o] \in Operation
    OBVIOUS
  <2> USE DEF At, Goto, End
  <2>1. CASE LoadFails(o)
    BY <2>1 DEF LoadFails
  <2>2. CASE LoadConfig(o)
    <3>1. Loaded(o) \in Config
      BY DEF Loaded, Config, Operation
    <3>2. op' \in [Ops -> Operation]
      BY <2>2, <3>1, SMTT(30) DEF LoadConfig, Operation
    <3>3. QED
      BY <2>2, <3>2 DEF LoadConfig
  <2>3. CASE stopAll(o)
    BY <2>3 DEF stopAll, Operation
  <2>4. CASE KillQuick(o)
    BY <2>4 DEF KillQuick, killGracefully, Operation
  <2>5. CASE KillNamed(o)
    BY <2>5 DEF KillNamed, killGracefully, AfterStop, Operation
  <2>0. ASSUME NEW w \in {"startNamed", "save"}, Goto(o, w) PROVE op' \in [Ops -> Operation]
    BY <2>0 DEF Operation
  <2>6. CASE startQuick(o) \/ execNamed(o)
    <3>1. PICK k \in Kinds : Start(k)
      BY <2>6 DEF startQuick, execNamed, Kinds
    <3>2. op' \in [Ops -> Operation]
      BY <2>0, <2>6 DEF startQuick, execNamed
    <3>3. PICK p \in Procs :
              /\ proc' = [proc EXCEPT ![p] = "live"]
              /\ cmd' = [cmd EXCEPT ![k] = p]
              /\ capture' = IF k = "named" THEN capture
                            ELSE [capture EXCEPT ![p].pc = "wait"]
              /\ url' = IF k = "named" THEN url ELSE 0
      BY <3>1, StartsFresh DEF Fresh
    <3>4. QED
      BY <2>6, <3>2, <3>3 DEF startQuick, execNamed
  <2>7. CASE startQuickFails(o)
    <3>1. [op EXCEPT ![o].pc = "startNamed", ![o].qerr = TRUE] \in [Ops -> Operation]
      BY DEF Operation
    <3>2. QED
      BY <2>7, <3>1 DEF startQuickFails
  <2>8. CASE startNamed(o)
    BY <2>8 DEF startNamed, Operation
  <2>9. CASE startNamedFails(o)
    BY <2>0, <2>9 DEF startNamedFails
  <2>10. CASE SaveConfig(o) \/ SaveFails(o)
    BY <2>10 DEF SaveConfig, SaveFails, Operation
  <2>11. CASE Exit(o)
    BY <2>11 DEF Exit, Operation
  <2>12. QED
    BY <1>3, <2>1, <2>2, <2>3, <2>4, <2>5, <2>6, <2>7, <2>8, <2>9, <2>10, <2>11 DEF Step
<1>4. ASSUME NEW p \in Procs,
             \/ Dies(p) \/ CaptureURL(p) \/ CaptureTimeout(p) \/ CaptureLoad(p)
             \/ CaptureSave(p) \/ CaptureFails(p) \/ consume(p)
      PROVE  TypeOK'
  <2>1. CASE Dies(p)
    BY <2>1 DEF Dies, killGracefully
  <2>2. CASE CaptureURL(p) \/ CaptureTimeout(p) \/ consume(p)
    BY <2>2 DEF CaptureURL, CaptureTimeout, consume
  <2>3. CASE CaptureLoad(p)
    <3>1. [conf EXCEPT !.url = p] \in Config
      BY DEF Config
    <3>2. QED
      BY <2>3, <3>1 DEF CaptureLoad
  <2>4. CASE CaptureSave(p) \/ CaptureFails(p)
    BY <2>4, SMTT(30) DEF CaptureSave, CaptureFails, NoCapture
  <2>5. QED
    BY <1>4, <2>1, <2>2, <2>3, <2>4
<1>5. CASE UNCHANGED vars
  BY <1>5 DEF vars
<1>6. QED
  BY <1>2, <1>3, <1>4, <1>5 DEF Next, Finished
\* The fields of Idle and NoProc.
LEMMA Blanks ==
    /\ Idle.pc = "idle" /\ Idle.kind = "none" /\ Idle.alone = "no" /\ Idle.took = NoProc
    /\ \A k \in Kinds : NoProc[k] = 0
    /\ 0 \notin Procs
BY BoundsAssumption DEF Idle, NoProc, Procs

\* p is the manager's, or taken by an operation to be killed.
Kept(p) ==
    \/ \E k \in Kinds : cmd[k] = p
    \/ \E o \in Ops, k \in Kinds : op[o].took[k] = p

\* NoOrphan says that the manager or an operation has every process that lives.
LEMMA OrphansAreNotKept ==
    /\ NoOrphan <=> (~exited => \A p \in Procs : proc[p] = "live" => Kept(p))
    /\ NoOrphan' <=> (~exited' => \A p \in Procs : proc'[p] = "live" => Kept(p)')
<1>1. \A p : p \in Doomed <=> \E o \in Ops, k \in Kinds : op[o].took[k] = p
  BY DEF Doomed
<1>2. \A p : p \in Doomed' <=> \E o \in Ops, k \in Kinds : op'[o].took[k] = p
  BY DEF Doomed
<1>3. QED
  BY <1>1, <1>2 DEF NoOrphan, Kept

\* Every step preserves the invariant.
LEMMA TunnelStep == TunnelInv /\ [Next]_vars => TunnelInv'
<1> SUFFICES ASSUME TunnelInv, [Next]_vars, TypeOK' PROVE TunnelInv'
  BY TypeStep DEF TunnelInv
<1> USE Blanks DEF TunnelInv
<1>1. ASSUME NEW o \in Ops, NEW w \in {"load", "stop"},
             NEW k \in {"enable", "disable", "restart", "shutdown"}, NEW c \in Config,
             Begin(o, w, k, c), k \in Stops => w = "stop"
      PROVE TunnelInv'
  <2>0. /\ op[o].pc = "idle" /\ op'[o].pc = w /\ op'[o].kind = k /\ op'[o].took = NoProc
        /\ op'[o].alone # "no" => \A x \in Ops : op[x].pc = "idle"
        /\ op'[o].alone = "all" => Capturing = {}
        /\ \A x \in Ops \ {o} :
           /\ op[x].pc = "idle" => op'[x] = op[x]
           /\ op[x].pc # "idle" => op'[x].alone = "no"
           /\ op'[x].pc = op[x].pc /\ op'[x].kind = op[x].kind
           /\ op'[x].cfg = op[x].cfg /\ op'[x].took = op[x].took
        /\ off' = "no"
        /\ UNCHANGED <<conf, cmd, proc, url, Capturing, exited>>
    <3>1. PICK a \in {"no", "ops", "all"} :
              /\ op' = [x \in Ops |->
                          IF x = o THEN [Idle EXCEPT !.pc = w, !.kind = k, !.cfg = c, !.alone = a]
                          ELSE IF x \in Idlers THEN op[x] ELSE [op[x] EXCEPT !.alone = "no"]]
              /\ a # "no" => Idlers = Ops
              /\ a = "all" => Capturing = {}
      BY <1>1 DEF Begin
    <3>2. /\ op'[o].pc = w /\ op'[o].kind = k /\ op'[o].took = NoProc
          /\ op'[o].alone = a
      BY <3>1 DEF Idle, NoProc
    <3>3. ASSUME NEW x \in Ops \ {o}
          PROVE  /\ op[x].pc = "idle" => op'[x] = op[x]
                 /\ op[x].pc # "idle" => op'[x].alone = "no"
                 /\ op'[x].pc = op[x].pc /\ op'[x].kind = op[x].kind
                 /\ op'[x].cfg = op[x].cfg /\ op'[x].took = op[x].took
      BY <3>1 DEF Idlers, TypeOK, Operation
    <3>4. /\ op[o].pc = "idle" /\ off' = "no"
          /\ UNCHANGED <<conf, cmd, proc, url, Capturing, exited>>
      BY <1>1 DEF Begin, Idlers, state, Capturing
    <3>5. a # "no" => \A x \in Ops : op[x].pc = "idle"
      BY <3>1 DEF Idlers
    <3>6. QED
      BY <3>1, <3>2, <3>3, <3>4, <3>5
  <2>1. ReturnedIsIdle'
    BY <2>0 DEF ReturnedIsIdle
  <2>2. HoldsToKill'
    BY <2>0 DEF HoldsToKill, Kills
  <2>3. OthersIdle'
    BY <2>0 DEF OthersIdle, ReturnedIsIdle
  <2>4. StoppedAlone'
    BY <1>1, <2>0 DEF StoppedAlone, OthersIdle, NoneLive, Kills, Stops, ReturnedIsIdle
  <2>5. KindPlaces'
    BY <2>0 DEF KindPlaces, Stops
  <2>6. DisableAlone'
    BY <1>1, <2>0 DEF DisableAlone, OthersIdle, ReturnedIsIdle, Stops
  <2>7. OffLasts'
    BY <2>0 DEF OffLasts, NoneLive
  <2>8. NoOrphan'
    BY <2>0, OrphansAreNotKept DEF Kept, HoldsToKill, Kills
  <2>9. QED
    BY <2>1, <2>2, <2>3, <2>4, <2>5, <2>6, <2>7, <2>8
<1>2. ASSUME NEW o \in Ops, At(o, op[o].pc), op[o].pc \notin {"idle"} \cup Kills, End(o),
             UNCHANGED <<conf, state, off, life>>
      PROVE TunnelInv'
  <2>0. /\ ~exited /\ op[o].pc # "idle"
        /\ \A x \in Ops \ {o} : op'[x] = op[x]
        /\ op'[o] = Idle
        /\ op[o].pc \notin Kills
        /\ UNCHANGED <<conf, cmd, proc, url, off, Capturing, exited>>
    BY <1>2 DEF TypeOK, At, Goto, End, state, life, Capturing
  <2>1. ReturnedIsIdle'
    BY <2>0 DEF ReturnedIsIdle
  <2>2. HoldsToKill'
    BY <2>0 DEF HoldsToKill, Kills
  <2>3. OthersIdle'
    BY <2>0 DEF OthersIdle, ReturnedIsIdle
  <2>4. StoppedAlone'
    BY <2>0 DEF StoppedAlone, OthersIdle, NoneLive, Kills, Stops
  <2>5. KindPlaces'
    BY <2>0 DEF KindPlaces, Stops
  <2>6. DisableAlone'
    BY <2>0 DEF DisableAlone, OthersIdle
  <2>7. OffLasts'
    BY <2>0 DEF OffLasts, NoneLive
  <2>8. NoOrphan'
    BY <2>0, OrphansAreNotKept DEF Kept, HoldsToKill
  <2>9. QED
    BY <2>1, <2>2, <2>3, <2>4, <2>5, <2>6, <2>7, <2>8
<1>3. ASSUME NEW o \in Ops, LoadConfig(o), ~Refused(o, Loaded(o)) PROVE TunnelInv'
  <2>0. /\ ~exited /\ op[o].pc # "idle"
        /\ \A x \in Ops \ {o} : op'[x] = op[x]
        /\ op'[o].alone = op[o].alone /\ op'[o].kind = op[o].kind
        /\ op'[o].took = op[o].took /\ op[o].pc = "load"
        /\ op'[o].pc = IF op[o].kind = "disable" THEN "save" ELSE "stop"
        /\ op[o].kind = "disable" => op'[o].cfg.mode = "none" /\ op'[o].cfg.url = 0
        /\ UNCHANGED <<conf, cmd, proc, url, off, Capturing, exited>>
    <3>1. op' = [op EXCEPT ![o].cfg = Loaded(o),
                          ![o].pc = IF op[o].kind = "disable" THEN "save" ELSE "stop"]
      BY <1>3 DEF LoadConfig
    <3>2. op[o].kind = "disable" => Loaded(o).mode = "none" /\ Loaded(o).url = 0
      BY DEF Loaded, TypeOK, Config
    <3>3. /\ op'[o].cfg = Loaded(o) /\ op'[o].alone = op[o].alone /\ op'[o].kind = op[o].kind
          /\ op'[o].took = op[o].took /\ \A x \in Ops \ {o} : op'[x] = op[x]
          /\ op'[o].pc = IF op[o].kind = "disable" THEN "save" ELSE "stop"
      BY <3>1 DEF TypeOK, Operation
    <3>4. QED
      BY <1>3, <3>2, <3>3 DEF LoadConfig, At, state, life, Capturing
  <2>1. ReturnedIsIdle'
    BY <2>0 DEF ReturnedIsIdle
  <2>2. HoldsToKill'
    BY <2>0 DEF HoldsToKill, Kills
  <2>3. OthersIdle'
    BY <2>0 DEF OthersIdle, ReturnedIsIdle
  <2>4. StoppedAlone'
    BY <2>0 DEF StoppedAlone, OthersIdle, NoneLive, Kills, Stops
  <2>5. KindPlaces'
    BY <2>0 DEF KindPlaces, Stops
  <2>6. DisableAlone'
    BY <2>0 DEF DisableAlone, OthersIdle
  <2>7. OffLasts'
    BY <2>0 DEF OffLasts, NoneLive
  <2>8. NoOrphan'
    BY <2>0, OrphansAreNotKept DEF Kept
  <2>9. QED
    BY <2>1, <2>2, <2>3, <2>4, <2>5, <2>6, <2>7, <2>8
<1>4. ASSUME NEW o \in Ops, stopAll(o) PROVE TunnelInv'
  <2>0. /\ ~exited /\ op[o].pc # "idle"
        /\ \A x \in Ops \ {o} : op'[x] = op[x]
        /\ op'[o].alone = op[o].alone /\ op'[o].kind = op[o].kind /\ op'[o].cfg = op[o].cfg
        /\ op[o].pc = "stop" /\ op'[o].pc = "killQuick" /\ op'[o].took = cmd
        /\ cmd' = NoProc /\ url' = 0
        /\ UNCHANGED <<conf, proc, off, Capturing, exited>>
    BY <1>4 DEF stopAll, NoProc, Operation, TypeOK, At, Goto, End, state, life, Capturing
  <2>1. ReturnedIsIdle'
    BY <2>0 DEF ReturnedIsIdle
  <2>2. HoldsToKill'
    BY <2>0 DEF HoldsToKill, Kills
  <2>3. OthersIdle'
    BY <2>0 DEF OthersIdle, ReturnedIsIdle
  <2>4. StoppedAlone'
    BY <2>0 DEF StoppedAlone, OthersIdle, NoneLive, Kills, Stops
  <2>5. KindPlaces'
    BY <2>0 DEF KindPlaces, Stops
  <2>6. DisableAlone'
    BY <2>0 DEF DisableAlone, OthersIdle
  <2>7. OffLasts'
    BY <2>0 DEF OffLasts, NoneLive
  <2>8. NoOrphan'
    BY <2>0, OrphansAreNotKept DEF Kept, HoldsToKill, Kills
  <2>9. QED
    BY <2>1, <2>2, <2>3, <2>4, <2>5, <2>6, <2>7, <2>8
<1>5. ASSUME NEW o \in Ops, KillQuick(o) PROVE TunnelInv'
  <2>0. /\ ~exited /\ op[o].pc # "idle"
        /\ \A x \in Ops \ {o} : op'[x] = op[x]
        /\ op'[o].alone = op[o].alone /\ op'[o].kind = op[o].kind /\ op'[o].cfg = op[o].cfg
        /\ op[o].pc = "killQuick" /\ op'[o].pc = "killNamed"
        /\ op'[o].took["quick"] = 0 /\ op'[o].took["named"] = op[o].took["named"]
        /\ proc' = [p \in Procs |-> IF p = op[o].took["quick"] THEN "dead" ELSE proc[p]]
        /\ UNCHANGED <<conf, cmd, url, off, Capturing, exited>>
    BY <1>5 DEF KillQuick, killGracefully, Operation, Kinds, TypeOK, At, Goto, End, state, life, Capturing
  <2>1. ReturnedIsIdle'
    BY <2>0 DEF ReturnedIsIdle
  <2>2. HoldsToKill'
    BY <2>0 DEF HoldsToKill, Kills
  <2>3. OthersIdle'
    BY <2>0 DEF OthersIdle, ReturnedIsIdle
  <2>4. StoppedAlone'
    BY <2>0 DEF StoppedAlone, OthersIdle, NoneLive, Kills, Stops
  <2>5. KindPlaces'
    BY <2>0 DEF KindPlaces, Stops
  <2>6. DisableAlone'
    BY <2>0 DEF DisableAlone, OthersIdle
  <2>7. OffLasts'
    BY <2>0 DEF OffLasts, NoneLive
  <2>8. NoOrphan'
    BY <2>0, OrphansAreNotKept DEF Kept, Kinds
  <2>9. QED
    BY <2>1, <2>2, <2>3, <2>4, <2>5, <2>6, <2>7, <2>8
<1>6. ASSUME NEW o \in Ops, KillNamed(o) PROVE TunnelInv'
  <2>0. /\ ~exited /\ op[o].pc # "idle"
        /\ \A x \in Ops \ {o} : op'[x] = op[x]
        /\ op'[o].alone = op[o].alone /\ op'[o].kind = op[o].kind /\ op'[o].cfg = op[o].cfg
        /\ op[o].pc = "killNamed" /\ op'[o].took = NoProc
        /\ op'[o].pc = AfterStop(o)
        /\ op[o].took["quick"] = 0
        /\ proc' = [p \in Procs |-> IF p = op[o].took["named"] THEN "dead" ELSE proc[p]]
        /\ UNCHANGED <<conf, cmd, url, off, Capturing, exited>>
    BY <1>6, SMTT(30) DEF KillNamed, killGracefully, Operation, Kinds, NoProc, HoldsToKill, TypeOK, At, Goto, End, state, life, Capturing
  <2>1. ReturnedIsIdle'
    BY <2>0 DEF ReturnedIsIdle, AfterStop
  <2>2. HoldsToKill'
    BY <2>0 DEF HoldsToKill, Kills, AfterStop
  <2>3. OthersIdle'
    BY <2>0 DEF OthersIdle, ReturnedIsIdle, AfterStop
  <2>4. StoppedAlone'
    BY <2>0, OrphansAreNotKept DEF StoppedAlone, OthersIdle, NoneLive, Kills, Stops, AfterStop, Kept, HoldsToKill, Kinds
  <2>5. KindPlaces'
    <3>1. /\ AfterStop(o) \in {"startQuick", "startNamed"} => op[o].kind \notin Stops
          /\ AfterStop(o) = "exit" => op[o].kind = "shutdown"
          /\ AfterStop(o) # "execNamed"
      BY DEF AfterStop, Stops
    <3>2. QED
      BY <2>0, <3>1 DEF KindPlaces
  <2>6. DisableAlone'
    <3>1. op[o].kind = "disable" => AfterStop(o) = "load"
      BY DEF AfterStop
    <3>2. QED
      BY <2>0, <3>1 DEF DisableAlone
  <2>7. OffLasts'
    BY <2>0 DEF OffLasts, NoneLive
  <2>8. NoOrphan'
    BY <2>0, OrphansAreNotKept DEF Kept, Kinds
  <2>9. QED
    BY <2>1, <2>2, <2>3, <2>4, <2>5, <2>6, <2>7, <2>8
<1>7. ASSUME NEW o \in Ops, startQuick(o) \/ execNamed(o) PROVE TunnelInv'
  <2>0. /\ ~exited /\ op[o].pc # "idle"
        /\ \A x \in Ops \ {o} : op'[x] = op[x]
        /\ op'[o].alone = op[o].alone /\ op'[o].kind = op[o].kind /\ op'[o].cfg = op[o].cfg
        /\ op'[o].took = op[o].took
        /\ op[o].pc \in {"startQuick", "startNamed", "execNamed"}
        /\ op'[o].pc \in {"startNamed", "save"}
        /\ \E k \in Kinds, p \in Procs :
           /\ cmd[k] = 0
           /\ proc' = [proc EXCEPT ![p] = "live"]
           /\ \A j \in Kinds : cmd'[j] = IF j = k THEN p ELSE cmd[j]
        /\ UNCHANGED <<conf, off, exited>>
    <3>1. PICK k \in Kinds : Start(k) /\ cmd[k] = 0
      BY <1>7 DEF startQuick, execNamed, Kinds
    <3>2. PICK p \in Procs :
              proc' = [proc EXCEPT ![p] = "live"] /\ cmd' = [cmd EXCEPT ![k] = p]
      BY <3>1, StartsFresh DEF Fresh
    <3>3. \A j \in Kinds : cmd'[j] = IF j = k THEN p ELSE cmd[j]
      BY <3>2 DEF TypeOK
    <3>4. PICK w \in {"startNamed", "save"} : Goto(o, w)
      BY <1>7 DEF startQuick, execNamed
    <3>5. /\ op'[o].alone = op[o].alone /\ op'[o].kind = op[o].kind
          /\ op'[o].cfg = op[o].cfg /\ op'[o].took = op[o].took /\ op'[o].pc = w
          /\ \A x \in Ops \ {o} : op'[x] = op[x]
      BY <3>4 DEF Goto, TypeOK, Operation
    <3>6. QED
      BY <1>7, <3>1, <3>2, <3>3, <3>5 DEF startQuick, execNamed, At, life
  <2>1. ReturnedIsIdle'
    BY <2>0 DEF ReturnedIsIdle
  <2>2. HoldsToKill'
    BY <2>0 DEF HoldsToKill, Kills
  <2>3. OthersIdle'
    BY <2>0 DEF OthersIdle, ReturnedIsIdle
  <2>4. StoppedAlone'
    BY <2>0 DEF StoppedAlone, OthersIdle, NoneLive, Kills, Stops, KindPlaces
  <2>5. KindPlaces'
    BY <2>0 DEF KindPlaces, Stops
  <2>6. DisableAlone'
    BY <2>0 DEF DisableAlone, OthersIdle, KindPlaces, Stops
  <2>7. OffLasts'
    BY <2>0 DEF OffLasts, NoneLive
  <2>8. NoOrphan'
    <3>1. PICK k \in Kinds, p \in Procs :
              /\ cmd[k] = 0
              /\ proc' = [proc EXCEPT ![p] = "live"]
              /\ \A j \in Kinds : cmd'[j] = IF j = k THEN p ELSE cmd[j]
      BY <2>0
    <3>2. \A q \in Procs : Kept(q) => Kept(q)'
      BY <2>0, <3>1 DEF Kept
    <3>3. Kept(p)'
      BY <3>1 DEF Kept
    <3>4. \A q \in Procs \ {p} : proc'[q] = proc[q]
      BY <3>1 DEF TypeOK
    <3>5. QED
      BY <2>0, <3>2, <3>3, <3>4, OrphansAreNotKept
  <2>9. QED
    BY <2>1, <2>2, <2>3, <2>4, <2>5, <2>6, <2>7, <2>8
<1>8. ASSUME NEW o \in Ops, NEW w \in {"startNamed", "execNamed", "save"}, NEW b \in BOOLEAN,
             ~exited, op[o].pc \in {"startQuick", "startNamed", "execNamed"},
             op' = [op EXCEPT ![o].pc = w, ![o].qerr = b], UNCHANGED <<conf, state, off, life>>
      PROVE TunnelInv'
  <2>0. /\ ~exited /\ op[o].pc # "idle"
        /\ \A x \in Ops \ {o} : op'[x] = op[x]
        /\ op'[o].alone = op[o].alone /\ op'[o].kind = op[o].kind /\ op'[o].cfg = op[o].cfg
        /\ op'[o].took = op[o].took /\ op'[o].pc = w
        /\ op[o].pc \in {"startQuick", "startNamed", "execNamed"}
        /\ UNCHANGED <<conf, cmd, proc, url, off, Capturing, exited>>
    BY <1>8 DEF Operation, TypeOK, At, Goto, End, state, life, Capturing
  <2>1. ReturnedIsIdle'
    BY <2>0 DEF ReturnedIsIdle
  <2>2. HoldsToKill'
    BY <2>0 DEF HoldsToKill, Kills
  <2>3. OthersIdle'
    BY <2>0 DEF OthersIdle, ReturnedIsIdle
  <2>4. StoppedAlone'
    BY <2>0 DEF StoppedAlone, OthersIdle, NoneLive, Kills, Stops, KindPlaces
  <2>5. KindPlaces'
    BY <2>0 DEF KindPlaces, Stops
  <2>6. DisableAlone'
    BY <2>0 DEF DisableAlone, OthersIdle, KindPlaces, Stops
  <2>7. OffLasts'
    BY <2>0 DEF OffLasts, NoneLive
  <2>8. NoOrphan'
    BY <2>0, OrphansAreNotKept DEF Kept
  <2>9. QED
    BY <2>1, <2>2, <2>3, <2>4, <2>5, <2>6, <2>7, <2>8
<1>9. ASSUME NEW o \in Ops, SaveConfig(o) PROVE TunnelInv'
  <2>0. /\ ~exited /\ op[o].pc # "idle"
        /\ \A x \in Ops \ {o} : op'[x] = op[x]
        /\ op'[o] = Idle
        /\ op[o].pc = "save" /\ conf' = op[o].cfg
        /\ off' = IF op[o].kind = "disable" THEN op[o].alone ELSE "no"
        /\ UNCHANGED <<cmd, proc, url, Capturing, exited>>
    BY <1>9 DEF SaveConfig, TypeOK, At, Goto, End, state, life, Capturing
  <2>1. ReturnedIsIdle'
    BY <2>0 DEF ReturnedIsIdle
  <2>2. HoldsToKill'
    BY <2>0 DEF HoldsToKill, Kills
  <2>3. OthersIdle'
    BY <2>0 DEF OthersIdle, ReturnedIsIdle
  <2>4. StoppedAlone'
    BY <2>0 DEF StoppedAlone, OthersIdle, NoneLive, Kills, Stops
  <2>5. KindPlaces'
    BY <2>0 DEF KindPlaces, Stops
  <2>6. DisableAlone'
    BY <2>0 DEF DisableAlone, OthersIdle
  <2>7. OffLasts'
    BY <2>0 DEF OffLasts, NoneLive, DisableAlone, StoppedAlone, OthersIdle, Stops
  <2>8. NoOrphan'
    BY <2>0, OrphansAreNotKept DEF Kept, HoldsToKill, Kills
  <2>9. QED
    BY <2>1, <2>2, <2>3, <2>4, <2>5, <2>6, <2>7, <2>8
<1>10. ASSUME NEW o \in Ops, Exit(o) PROVE TunnelInv'
  <2>0. /\ ~exited /\ op[o].pc # "idle"
        /\ \A x \in Ops \ {o} : op'[x] = op[x]
        /\ op'[o] = Idle
        /\ op[o].pc = "exit" /\ off' = op[o].alone /\ exited'
        /\ UNCHANGED <<conf, cmd, proc, url, Capturing>>
    BY <1>10 DEF Exit, TypeOK, At, Goto, End, state, life, Capturing
  <2>1. ReturnedIsIdle'
    BY <2>0 DEF ReturnedIsIdle
  <2>2. HoldsToKill'
    BY <2>0 DEF HoldsToKill, Kills
  <2>3. OthersIdle'
    BY <2>0 DEF OthersIdle, ReturnedIsIdle
  <2>4. StoppedAlone'
    BY <2>0 DEF StoppedAlone, OthersIdle, NoneLive, Kills, Stops
  <2>5. KindPlaces'
    BY <2>0 DEF KindPlaces, Stops
  <2>6. DisableAlone'
    BY <2>0 DEF DisableAlone, OthersIdle
  <2>7. OffLasts'
    BY <2>0 DEF OffLasts, NoneLive, StoppedAlone, KindPlaces, Stops
  <2>8. NoOrphan'
    BY <2>0, OrphansAreNotKept DEF Kept
  <2>9. QED
    BY <2>1, <2>2, <2>3, <2>4, <2>5, <2>6, <2>7, <2>8
<1>11. ASSUME NEW p \in Procs, Dies(p) PROVE TunnelInv'
  <2>0. /\ ~exited /\ proc' = [q \in Procs |-> IF q = p THEN "dead" ELSE proc[q]]
        /\ UNCHANGED <<conf, cmd, url, op, off, Capturing, exited>>
    BY <1>11 DEF Dies, killGracefully, TypeOK, At, Goto, End, state, life, Capturing
  <2>1. ReturnedIsIdle'
    BY <2>0 DEF ReturnedIsIdle
  <2>2. HoldsToKill'
    BY <2>0 DEF HoldsToKill, Kills
  <2>3. OthersIdle'
    BY <2>0 DEF OthersIdle, ReturnedIsIdle
  <2>4. StoppedAlone'
    BY <2>0 DEF StoppedAlone, OthersIdle, NoneLive, Kills, Stops
  <2>5. KindPlaces'
    BY <2>0 DEF KindPlaces, Stops
  <2>6. DisableAlone'
    BY <2>0 DEF DisableAlone, OthersIdle
  <2>7. OffLasts'
    BY <2>0 DEF OffLasts, NoneLive
  <2>8. NoOrphan'
    BY <2>0, OrphansAreNotKept DEF Kept
  <2>9. QED
    BY <2>1, <2>2, <2>3, <2>4, <2>5, <2>6, <2>7, <2>8
<1>12. ASSUME NEW p \in Procs,
              \/ CaptureURL(p) \/ CaptureTimeout(p) \/ CaptureLoad(p) \/ consume(p)
              \/ CaptureSave(p) \/ CaptureFails(p)
      PROVE TunnelInv'
  <2>0. /\ ~exited /\ p \in Capturing
        /\ UNCHANGED <<cmd, proc, op, off, exited>>
    BY <1>12 DEF CaptureURL, CaptureTimeout, CaptureLoad, consume, CaptureSave, CaptureFails, TypeOK, At, Goto, End, state, life, Capturing
  <2>1. ReturnedIsIdle'
    BY <2>0 DEF ReturnedIsIdle
  <2>2. HoldsToKill'
    BY <2>0 DEF HoldsToKill, Kills
  <2>3. OthersIdle'
    BY <2>0 DEF OthersIdle, ReturnedIsIdle
  <2>4. StoppedAlone'
    BY <2>0 DEF StoppedAlone, OthersIdle, NoneLive, Kills, Stops
  <2>5. KindPlaces'
    BY <2>0 DEF KindPlaces, Stops
  <2>6. DisableAlone'
    BY <2>0 DEF DisableAlone, OthersIdle
  <2>7. OffLasts'
    BY <2>0 DEF OffLasts, NoneLive
  <2>8. NoOrphan'
    BY <2>0, OrphansAreNotKept DEF Kept
  <2>9. QED
    BY <2>1, <2>2, <2>3, <2>4, <2>5, <2>6, <2>7, <2>8
<1>13. ASSUME NEW o \in Ops,
              \/ HandleTunnelEnable(o) \/ HandleTunnelDisable(o)
              \/ HandleTunnelRestart(o) \/ Shutdown(o)
       PROVE  TunnelInv'
  <2>1. CASE HandleTunnelEnable(o)
    <3>1. PICK m \in Modes, c \in BOOLEAN :
              Request(o, "load", "enable", [mode |-> m, url |-> 0, creds |-> c])
      BY <2>1 DEF HandleTunnelEnable
    <3>2. [mode |-> m, url |-> 0, creds |-> c] \in Config
      BY ModesAssumption DEF Config
    <3>3. QED
      BY <3>1, <3>2, <1>1 DEF Request, Stops
  <2>2. CASE HandleTunnelDisable(o)
    BY <2>2, <1>1, IdleType DEF HandleTunnelDisable, Request
  <2>3. CASE HandleTunnelRestart(o)
    BY <2>3, <1>1, IdleType DEF HandleTunnelRestart, Request, Stops
  <2>4. CASE Shutdown(o)
    BY <2>4, <1>1, IdleType DEF Shutdown
  <2>5. QED
    BY <1>13, <2>1, <2>2, <2>3, <2>4
<1>14. ASSUME NEW o \in Ops, Step(o) PROVE TunnelInv'
  <2> USE DEF At
  <2>1. CASE LoadFails(o) \/ SaveFails(o)
    BY <2>1, <1>2 DEF LoadFails, SaveFails, Kills
  <2>2. CASE LoadConfig(o)
    BY <2>2, <1>2, <1>3 DEF LoadConfig, Kills
  <2>3. CASE startQuickFails(o)
    BY <2>3, <1>2, <1>8 DEF startQuickFails, Kills
  <2>4. CASE startNamed(o) \/ startNamedFails(o)
    <3>1. \A w : Goto(o, w) => op' = [op EXCEPT ![o].pc = w, ![o].qerr = op[o].qerr]
      BY DEF Goto, TypeOK, Operation
    <3>2. op[o].qerr \in BOOLEAN
      BY DEF TypeOK, Operation
    <3>3. QED
      BY <2>4, <3>1, <3>2, <1>2, <1>8 DEF startNamed, startNamedFails, Kills
  <2>5. QED
    BY <1>14, <2>1, <2>2, <2>3, <2>4, <1>4, <1>5, <1>6, <1>7, <1>9, <1>10 DEF Step
<1>15. CASE UNCHANGED vars
  BY <1>15 DEF vars, state, life, TypeOK, ReturnedIsIdle, HoldsToKill, OthersIdle,
               StoppedAlone, KindPlaces, DisableAlone, OffLasts, NoOrphan, NoneLive,
               Capturing, Doomed
<1>16. QED
  BY <1>11, <1>12, <1>13, <1>14, <1>15 DEF Next, Finished

\* The first state: AutoStart is about to load the configuration.
LEMMA TunnelInit == Init => TunnelInv
<1> SUFFICES ASSUME Init PROVE TunnelInv
  OBVIOUS
<1> USE Blanks, IdleType
<1>1. TypeOK
  <2>1. op \in [Ops -> Operation]
    BY DEF Init, Idle, Operation
  <2>2. conf \in Config
    <3>1. \A m \in Modes : [NoConfig EXCEPT !.mode = m, !.creds = TRUE] \in Config
      BY ModesAssumption DEF Config, NoConfig
    <3>2. QED
      BY <3>1 DEF Init
  <2>3. QED
    BY <2>1, <2>2 DEF Init, TypeOK, NoCapture
<1>2. /\ \A o \in Ops : /\ op[o].took = NoProc /\ op[o].alone = "no"
                        /\ op[o].kind \in {"none", "restart"}
                        /\ op[o].pc \in {"idle", "load"}
                        /\ op[o].pc = "idle" => op[o] = Idle
      /\ off = "no" /\ proc = [p \in Procs |-> "none"]
  BY DEF Init, Idle, NoProc
<1>3. ReturnedIsIdle /\ HoldsToKill /\ OthersIdle /\ StoppedAlone
  BY <1>2 DEF ReturnedIsIdle, HoldsToKill, OthersIdle, StoppedAlone, Kills, Stops
<1>4. KindPlaces /\ DisableAlone /\ OffLasts /\ NoOrphan
  BY <1>2 DEF KindPlaces, DisableAlone, OffLasts, NoOrphan, Stops
<1>5. QED
  BY <1>1, <1>3, <1>4 DEF TunnelInv

\* The invariant holds in every behaviour of the manager.
THEOREM Invariance == Spec => []TunnelInv
BY TunnelInit, TunnelStep, PTL DEF Spec

\* No interleaving of enabling, disabling, restarting and shutting down forgets
\* a process that lives: stopAll takes what it clears, and startQuick and
\* startNamed start nothing over a process.
THEOREM NoProcessForgotten == Spec => []NoOrphan
<1>1. TunnelInv => NoOrphan
  BY DEF TunnelInv
<1>2. QED
  BY <1>1, Invariance, PTL

\* After a Disable that overlapped nothing the tunnel is off in Redis, in memory
\* and in the process table, until the next operation.
THEOREM DisableTurnsOff == Spec => []DisabledIsOff
<1>1. TunnelInv => DisabledIsOff
  BY DEF TunnelInv, DisabledIsOff, OffLasts, NoneLive
<1>2. QED
  BY <1>1, Invariance, PTL

\* A Shutdown that overlapped no operation leaves no process behind.
THEOREM ShutdownIsClean == Spec => []CleanExit
<1>1. TunnelInv => CleanExit
  BY DEF TunnelInv, CleanExit, OffLasts, NoneLive
<1>2. QED
  BY <1>1, Invariance, PTL
=============================================================================
