-------------------------------- MODULE Tunnel --------------------------------
(***************************************************************************)
(* The manager of the cloudflared subprocesses (internal/tunnel/manager.go *)
(* and internal/handlers/tunnels.go), from the start of the gateway to its *)
(* exit.                                                                   *)
(*                                                                         *)
(* Operations (the handlers, AutoStart at boot, Shutdown) run in           *)
(* goroutines of their own.  Manager.mu is held only for the sections that *)
(* take or set quickCmd and namedCmd; the configuration in Redis is loaded *)
(* and saved outside it, by operations and by the goroutine that captures  *)
(* the URL of a quick tunnel.                                              *)
(*                                                                         *)
(* A process is named by its number, and so is its URL; 0 stands for no    *)
(* process and for no URL.  The four Cloudflare fields of the              *)
(* configuration are one, present or absent, and the rings of log lines    *)
(* are left out: of the lines of a process only the one with its URL       *)
(* counts.                                                                 *)
(***************************************************************************)
EXTENDS Integers, FiniteSets

CONSTANTS
    Ops,          \* goroutines that operate on the manager
    Boot,         \* the one of them that runs AutoStart first
    Modes,        \* the modes an administrator asks for
    MaxProcs,     \* bound: processes started
    MaxRequests   \* bound: requests of administrators

ASSUME BootAssumption == Boot \in Ops
ASSUME ModesAssumption == Modes \subseteq {"none", "quick", "named", "hybrid"}
ASSUME BoundsAssumption == MaxProcs \in Nat /\ MaxRequests \in Nat

Procs == 1..MaxProcs
Kinds == {"quick", "named"}

VARIABLES
    conf,     \* fr:tunnel:config in Redis
    proc,     \* each process: "none" before its start, "live", "dead"
    cmd,      \* quickCmd and namedCmd
    url,      \* quickURL
    urlCh,    \* processes whose URL is in their channel
    capture,  \* the goroutine that captures the URL of each process
    op,       \* each operation
    off,      \* history: "no", or the last operation stopped the tunnel: alone
    requests, \* requests served so far
    closing,  \* the server takes no more requests
    exited    \* the gateway has ended

state == <<proc, cmd, url, urlCh, capture>>
life == <<requests, closing, exited>>
vars == <<conf, state, op, off, life>>

-----------------------------------------------------------------------------
Config == [mode : {"none", "quick", "named", "hybrid"}, url : {0} \cup Procs,
           creds : BOOLEAN]

NoConfig == [mode |-> "none", url |-> 0, creds |-> FALSE]

\* An operation: its kind, the configuration asked for and then the one it
\* works with, the processes it took from the manager, whether startQuick
\* failed, and whether it has been the only operation ("ops") and no capture was
\* under way either ("all").
Operation ==
    [pc : {"idle", "load", "stop", "killQuick", "killNamed", "startQuick",
           "startNamed", "execNamed", "save", "exit"},
     kind : {"none", "enable", "disable", "restart", "shutdown"}, cfg : Config,
     took : [Kinds -> {0} \cup Procs], qerr : BOOLEAN, alone : {"no", "ops", "all"}]

Idle == [pc |-> "idle", kind |-> "none", cfg |-> NoConfig,
         took |-> [k \in Kinds |-> 0], qerr |-> FALSE, alone |-> "no"]

NoCapture == [pc |-> "none", cfg |-> NoConfig]

Idlers == {o \in Ops : op[o].pc = "idle"}
Fresh == {p \in Procs : proc[p] = "none"}
Capturing == {p \in Procs : capture[p].pc \in {"wait", "load", "save"}}

Init ==
    /\ conf \in {NoConfig} \cup {[NoConfig EXCEPT !.mode = m, !.creds = TRUE] : m \in Modes}
    /\ proc = [p \in Procs |-> "none"]
    /\ cmd = [k \in Kinds |-> 0]
    /\ url = 0
    /\ urlCh = {}
    /\ capture = [p \in Procs |-> NoCapture]
    /\ op = [o \in Ops |-> IF o = Boot THEN [Idle EXCEPT !.pc = "load", !.kind = "restart"]
                           ELSE Idle]
    /\ off = "no"
    /\ requests = 0
    /\ closing = FALSE
    /\ exited = FALSE

-----------------------------------------------------------------------------
(***************************************************************************)
(* Operations                                                              *)
(***************************************************************************)

At(o, pc) == op[o].pc = pc /\ ~exited

Goto(o, pc) == op' = [op EXCEPT ![o].pc = pc]

\* The operation returns, with or without an error.
End(o) == op' = [op EXCEPT ![o] = Idle]

\* A request arrives.  Others that run are no longer alone.
Begin(o, pc, kind, want) ==
    /\ o \in Idlers
    /\ ~closing
    /\ LET alone == IF Idlers # Ops THEN "no" ELSE IF Capturing = {} THEN "all" ELSE "ops"
       IN  op' = [x \in Ops |->
                    IF x = o THEN [Idle EXCEPT !.pc = pc, !.kind = kind,
                                               !.cfg = want, !.alone = alone]
                    ELSE IF x \in Idlers THEN op[x] ELSE [op[x] EXCEPT !.alone = "no"]]
    /\ off' = "no"
    /\ UNCHANGED <<conf, state, exited>>

Request(o, pc, kind, want) ==
    /\ requests < MaxRequests
    /\ requests' = requests + 1
    /\ Begin(o, pc, kind, want)
    /\ UNCHANGED closing

HandleTunnelEnable(o) ==
    \E m \in Modes, c \in BOOLEAN :
        Request(o, "load", "enable", [mode |-> m, url |-> 0, creds |-> c])

HandleTunnelDisable(o) == Request(o, "stop", "disable", NoConfig)

HandleTunnelRestart(o) == Request(o, "load", "restart", NoConfig)

\* srv.Shutdown has returned: all handlers have ended or fifteen seconds are
\* over.
Shutdown(o) ==
    /\ Begin(o, "stop", "shutdown", NoConfig)
    /\ closing' = TRUE
    /\ UNCHANGED requests

\* LoadConfig fails, and with it the operation.
LoadFails(o) ==
    /\ At(o, "load")
    /\ End(o)
    /\ UNCHANGED <<conf, state, off, life>>

\* The configuration an operation goes on with.
Loaded(o) ==
    CASE op[o].kind = "enable" ->
           [conf EXCEPT !.mode = op[o].cfg.mode, !.creds = @ \/ op[o].cfg.creds]
      [] op[o].kind = "disable" -> [conf EXCEPT !.mode = "none", !.url = 0]
      [] OTHER -> conf

NeedsCreds(mode) == mode \in {"named", "hybrid"}

\* Restart has nothing to do, or HandleTunnelEnable misses credentials.
Refused(o, cfg) ==
    \/ op[o].kind = "restart" /\ cfg.mode = "none"
    \/ op[o].kind = "enable" /\ NeedsCreds(cfg.mode) /\ ~cfg.creds

LoadConfig(o) ==
    /\ At(o, "load")
    /\ LET cfg == Loaded(o)
       IN  IF Refused(o, cfg) THEN End(o)
           ELSE op' = [op EXCEPT ![o].cfg = cfg,
                          ![o].pc = IF op[o].kind = "disable" THEN "save" ELSE "stop"]
    /\ UNCHANGED <<conf, state, off, life>>

\* Faulty variant: the named tunnel is cleared and never killed.
stopAllQuickOnly(o) ==
    /\ At(o, "stop")
    /\ op' = [op EXCEPT ![o].took = [cmd EXCEPT !["named"] = 0], ![o].pc = "killQuick"]
    /\ cmd' = [k \in Kinds |-> 0]
    /\ url' = 0
    /\ UNCHANGED <<conf, proc, urlCh, capture, off, life>>

\* The section of stopAll under the mutex.
stopAll(o) ==
    /\ At(o, "stop")
    /\ op' = [op EXCEPT ![o].took = cmd, ![o].pc = "killQuick"]
    /\ cmd' = [k \in Kinds |-> 0]
    /\ url' = 0
    /\ UNCHANGED <<conf, proc, urlCh, capture, off, life>>

\* SIGINT, and SIGKILL after five seconds: the process is dead when
\* killGracefully returns, and lives on until then.
killGracefully(p) == proc' = [x \in Procs |-> IF x = p THEN "dead" ELSE proc[x]]

KillQuick(o) ==
    /\ At(o, "killQuick")
    /\ killGracefully(op[o].took["quick"])
    /\ op' = [op EXCEPT ![o].pc = "killNamed", ![o].took["quick"] = 0]
    /\ UNCHANGED <<conf, cmd, url, urlCh, capture, off, life>>

\* What follows stopAll.
AfterStop(o) ==
    LET start == CASE op[o].cfg.mode = "none" -> "save"
                   [] op[o].cfg.mode = "named" -> "startNamed"
                   [] OTHER -> "startQuick"
    IN  CASE op[o].kind = "disable" -> "load"
          [] op[o].kind = "shutdown" -> "exit"
          [] OTHER -> start

KillNamed(o) ==
    /\ At(o, "killNamed")
    /\ killGracefully(op[o].took["named"])
    /\ op' = [op EXCEPT ![o].pc = AfterStop(o), ![o].took["named"] = 0]
    /\ UNCHANGED <<conf, cmd, url, urlCh, capture, off, life>>

\* A process of kind k is started.
Start(k) ==
    LET p == CHOOSE p \in Fresh : \A q \in Fresh : p <= q
    IN  /\ Fresh # {}
        /\ proc' = [proc EXCEPT ![p] = "live"]
        /\ cmd' = [cmd EXCEPT ![k] = p]
        /\ capture' = IF k = "named" THEN capture
                      ELSE [capture EXCEPT ![p].pc = "wait"]
        /\ url' = IF k = "named" THEN url ELSE 0

\* Faulty variant: a second process replaces the first.
startQuickUnchecked(o) ==
    /\ At(o, "startQuick")
    /\ Start("quick")
    /\ Goto(o, IF op[o].cfg.mode = "hybrid" THEN "startNamed" ELSE "save")
    /\ UNCHANGED <<conf, urlCh, off, life>>

startQuick(o) ==
    /\ At(o, "startQuick")
    /\ cmd["quick"] = 0
    /\ Start("quick")
    /\ Goto(o, IF op[o].cfg.mode = "hybrid" THEN "startNamed" ELSE "save")
    /\ UNCHANGED <<conf, urlCh, off, life>>

\* One is running already, or the binary is missing or does not start.
startQuickFails(o) ==
    /\ At(o, "startQuick")
    /\ IF op[o].cfg.mode = "hybrid"
       THEN op' = [op EXCEPT ![o].pc = "startNamed", ![o].qerr = TRUE]
       ELSE End(o)
    /\ UNCHANGED <<conf, state, off, life>>

\* The calls of the Cloudflare API, without the mutex.
startNamed(o) ==
    /\ At(o, "startNamed")
    /\ op[o].cfg.creds
    /\ Goto(o, "execNamed")
    /\ UNCHANGED <<conf, state, off, life>>

execNamed(o) ==
    /\ At(o, "execNamed")
    /\ cmd["named"] = 0
    /\ Start("named")
    /\ Goto(o, "save")
    /\ UNCHANGED <<conf, urlCh, off, life>>

\* A hybrid start is an error only when both fail.
startNamedFails(o) ==
    /\ At(o, "startNamed") \/ At(o, "execNamed")
    /\ IF op[o].cfg.mode = "hybrid" /\ ~op[o].qerr THEN Goto(o, "save") ELSE End(o)
    /\ UNCHANGED <<conf, state, off, life>>

\* Faulty variant: what a Disable saves keeps the mode.
SaveConfigKeepsMode(o) ==
    /\ At(o, "save")
    /\ conf' = [op[o].cfg EXCEPT !.mode = IF op[o].kind = "disable" THEN conf.mode ELSE @]
    /\ off' = IF op[o].kind = "disable" THEN op[o].alone ELSE "no"
    /\ End(o)
    /\ UNCHANGED <<state, life>>

SaveConfig(o) ==
    /\ At(o, "save")
    /\ conf' = op[o].cfg
    /\ off' = IF op[o].kind = "disable" THEN op[o].alone ELSE "no"
    /\ End(o)
    /\ UNCHANGED <<state, life>>

SaveFails(o) ==
    /\ At(o, "save")
    /\ End(o)
    /\ UNCHANGED <<conf, state, off, life>>

\* main returns after Shutdown.  Other goroutines end where they are.
Exit(o) ==
    /\ At(o, "exit")
    /\ exited' = TRUE
    /\ off' = op[o].alone
    /\ End(o)
    /\ UNCHANGED <<conf, state, requests, closing>>

Step(o) ==
    \/ LoadFails(o) \/ LoadConfig(o) \/ stopAll(o) \/ KillQuick(o) \/ KillNamed(o)
    \/ startQuick(o) \/ startQuickFails(o) \/ startNamed(o) \/ execNamed(o)
    \/ startNamedFails(o) \/ SaveConfig(o) \/ SaveFails(o) \/ Exit(o)

-----------------------------------------------------------------------------
(***************************************************************************)
(* Processes and their readers                                             *)
(***************************************************************************)

\* cloudflared ends by itself; the command stays with the manager.
Dies(p) ==
    /\ proc[p] = "live"
    /\ ~exited
    /\ killGracefully(p)
    /\ UNCHANGED <<conf, cmd, url, urlCh, capture, op, off, life>>

\* A reader of a quick tunnel meets the line with the URL, which may be after
\* the process has died.
consume(p) ==
    /\ capture[p].pc = "wait"
    /\ ~exited
    /\ urlCh' = urlCh \cup {p}
    /\ UNCHANGED <<conf, proc, cmd, url, capture, op, off, life>>

\* The capturing goroutine takes the URL, whatever became of the process.
CaptureURL(p) ==
    /\ capture[p].pc = "wait"
    /\ ~exited
    /\ p \in urlCh
    /\ urlCh' = urlCh \ {p}
    /\ url' = p
    /\ capture' = [capture EXCEPT ![p].pc = "load"]
    /\ UNCHANGED <<conf, proc, cmd, op, off, life>>

CaptureTimeout(p) ==
    /\ capture[p].pc = "wait"
    /\ ~exited
    /\ capture' = [capture EXCEPT ![p].pc = "end"]
    /\ urlCh' = urlCh \ {p}
    /\ UNCHANGED <<conf, proc, cmd, url, op, off, life>>

CaptureLoad(p) ==
    /\ capture[p].pc = "load"
    /\ ~exited
    /\ capture' = [capture EXCEPT ![p] = [pc |-> "save", cfg |-> [conf EXCEPT !.url = p]]]
    /\ UNCHANGED <<conf, proc, cmd, url, urlCh, op, off, life>>

CaptureSave(p) ==
    /\ capture[p].pc = "save"
    /\ ~exited
    /\ conf' = capture[p].cfg
    /\ capture' = [capture EXCEPT ![p] = [NoCapture EXCEPT !.pc = "end"]]
    /\ UNCHANGED <<proc, cmd, url, urlCh, op, off, life>>

\* The load or the save fails.
CaptureFails(p) ==
    /\ capture[p].pc \in {"load", "save"}
    /\ ~exited
    /\ capture' = [capture EXCEPT ![p] = [NoCapture EXCEPT !.pc = "end"]]
    /\ UNCHANGED <<conf, proc, cmd, url, urlCh, op, off, life>>

Finished == exited /\ UNCHANGED vars

Next ==
    \/ \E o \in Ops : \/ HandleTunnelEnable(o) \/ HandleTunnelDisable(o)
                      \/ HandleTunnelRestart(o) \/ Shutdown(o) \/ Step(o)
    \/ \E p \in Procs : \/ Dies(p) \/ CaptureURL(p) \/ CaptureTimeout(p)
                        \/ CaptureLoad(p) \/ CaptureSave(p) \/ CaptureFails(p)
                        \/ consume(p)
    \/ Finished

Spec == Init /\ [][Next]_vars

-----------------------------------------------------------------------------
(***************************************************************************)
(* Properties                                                              *)
(***************************************************************************)

TypeOK ==
    /\ conf \in Config
    /\ proc \in [Procs -> {"none", "live", "dead"}]
    /\ cmd \in [Kinds -> {0} \cup Procs]
    /\ url \in {0} \cup Procs
    /\ urlCh \subseteq Procs
    /\ capture \in [Procs -> [pc : {"none", "wait", "load", "save", "end"}, cfg : Config]]
    /\ op \in [Ops -> Operation]
    /\ off \in {"no", "ops", "all"}
    /\ requests \in Nat
    /\ closing \in BOOLEAN
    /\ exited \in BOOLEAN

\* Processes some operation has taken from the manager and is about to kill.
Doomed == UNION {{op[o].took[k] : k \in Kinds} : o \in Ops}

\* No cloudflared process is forgotten: one that lives is the manager's, or an
\* operation is about to kill it, however the operations interleave between
\* the sections of stopAll, startQuick and startNamed.
NoOrphan ==
    ~exited => \A p \in Procs : proc[p] = "live" => \/ \E k \in Kinds : cmd[k] = p
                                                   \/ p \in Doomed

\* After a Disable that overlapped neither an operation nor the capture of a
\* URL, and until the next operation, the tunnel is off: in Redis, in memory
\* and in the process table.
DisabledIsOff ==
    off = "all" /\ ~exited =>
                   /\ conf.mode = "none" /\ conf.url = 0
                   /\ url = 0
                   /\ \A p \in Procs : proc[p] # "live"

\* The gateway leaves no process behind, unless an operation, AutoStart
\* included, was under way when Shutdown began.
CleanExit ==
    exited /\ off # "no" => \A p \in Procs : proc[p] # "live"
=============================================================================
