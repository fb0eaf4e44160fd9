------------------------------- MODULE Upgrade ------------------------------
(***************************************************************************)
(* The hand-over of the listeners to a new process: the signal loop        *)
(* (ophan/src/sys/unix_signal.rs), Upgrade::respawn_self and validate      *)
(* (sys/upgrade.rs), server_run (lib.rs), PidGuard (sys/pid.rs), the       *)
(* notifications to systemd (sys/systemd.rs) and pingora's transfer of     *)
(* sockets (vendor/pingora-core/src/server).                               *)
(*                                                                         *)
(* disk is what the binary and the configuration on disk amount to:        *)
(* whether `ophan -t` accepts them (loads), whether AppContext::build does *)
(* (builds), and the version of what a reload cannot change in place (the  *)
(* binary, the listeners, the gateways, the metrics block).                *)
(***************************************************************************)
EXTENDS Integers

CONSTANTS
  MaxProcesses,  \* bound on processes started
  Kinds          \* what the files on disk may amount to

Processes == 1 .. MaxProcesses

ASSUME UpgradeAssumption ==
  /\ MaxProcesses \in Nat \ {0}
  /\ Kinds \subseteq [loads : BOOLEAN, builds : BOOLEAN, version : Nat]

NoProcess == 0

VARIABLES
  disk,     \* what the files on disk amount to
  phase,    \* phase[p]: where process p is
  loaded,   \* loaded[p]: what p found when it loaded the configuration
  sock,     \* process listening on the upgrade socket's path, or NoProcess
  pidFile,  \* content of the PID file, or NoProcess if there is none
  mainPid,  \* the main process of the service, for systemd
  trouble   \* history: "stop", the operator asked a process to terminate; "overlap",
            \*   the operator acted while a new process started; "late", a timeout
            \*   of one process ended before the other was ready; "build", a new
            \*   process could not build what it had loaded

vars == <<disk, phase, loaded, sock, pidFile, mainPid, trouble>>

Starting == {"loading", "waiting", "received", "building"}
Accepting == {"serving", "validating", "sending", "closing"}
Ending == {"draining", "removing"}

TypeOK ==
  /\ disk \in Kinds
  /\ phase \in [Processes -> {"none", "exited"} \cup Starting \cup Accepting \cup Ending]
  /\ loaded \in [Processes -> Kinds]
  /\ sock \in {NoProcess} \cup Processes
  /\ pidFile \in {NoProcess} \cup Processes
  /\ mainPid \in Processes
  /\ trouble \subseteq {"stop", "overlap", "late", "build"}

(* One process serves, from files it could load and build. *)
Init ==
  /\ disk \in {k \in Kinds : k.loads /\ k.builds}
  /\ phase = [p \in Processes |-> IF p = 1 THEN "serving" ELSE "none"]
  /\ loaded = [p \in Processes |-> disk]
  /\ sock = NoProcess
  /\ pidFile = 1
  /\ mainPid = 1
  /\ trouble = {}

Some(phases) == \E p \in Processes : phase[p] \in phases

Goes(p, from, to) == phase[p] = from /\ phase' = [phase EXCEPT ![p] = to]

(* A new process c in upgrade mode, the first never used. *)
Fresh(c) == phase[c] = "none" /\ \A p \in Processes : p < c => phase[p] # "none"

-----------------------------------------------------------------------------
Notes(what, when) == trouble' = IF when THEN trouble \cup {what} ELSE trouble

(* The operator. *)
Busy == Some(Starting \cup {"validating", "sending"})

Edit(k) ==
  /\ k # disk
  /\ disk' = k
  /\ Notes("overlap", Busy)
  /\ UNCHANGED <<phase, loaded, sock, pidFile, mainPid>>

(* A process started in upgrade mode by hand, before the SIGQUIT. *)
StartByHand(c) ==
  /\ Some({"serving"})
  /\ Fresh(c)
  /\ phase' = [phase EXCEPT ![c] = "loading"]
  /\ Notes("overlap", Busy)
  /\ UNCHANGED <<disk, loaded, sock, pidFile, mainPid>>

Quit(p) ==
  /\ Some({"waiting"})
  /\ Goes(p, "serving", "sending")
  /\ UNCHANGED <<disk, loaded, sock, pidFile, mainPid, trouble>>

Terminate(p) ==
  /\ Goes(p, "serving", "draining")
  /\ trouble' = trouble \cup {"stop"}
  /\ UNCHANGED <<disk, loaded, sock, pidFile, mainPid>>

(* A reload in place changes nothing here; see module Reload. *)
Hangup(p) ==
  /\ disk.version # loaded[p].version
  /\ Goes(p, "serving", "validating")
  /\ Notes("overlap", Busy)
  /\ UNCHANGED <<disk, loaded, sock, pidFile, mainPid>>

-----------------------------------------------------------------------------
(* The running process. *)
ValidateFails(p) ==
  /\ ~disk.loads
  /\ Goes(p, "validating", "serving")
  /\ UNCHANGED <<disk, loaded, sock, pidFile, mainPid, trouble>>

(* Slip: the new process is spawned without the validation. *)
RespawnUnchecked(p, c) ==
  /\ phase[p] = "validating"
  /\ Fresh(c)
  /\ phase' = [phase EXCEPT ![p] = "sending", ![c] = "loading"]
  /\ UNCHANGED <<disk, loaded, sock, pidFile, mainPid, trouble>>

(* `-t` accepts the configuration, the new process is spawned. *)
Respawn(p, c) ==
  /\ disk.loads
  /\ phase[p] = "validating"
  /\ Fresh(c)
  /\ phase' = [phase EXCEPT ![p] = "sending", ![c] = "loading"]
  /\ UNCHANGED <<disk, loaded, sock, pidFile, mainPid, trouble>>

SendFds(p) ==
  /\ sock # NoProcess
  /\ phase[p] = "sending"
  /\ phase' = [phase EXCEPT ![p] = "closing", ![sock] = "received"]
  /\ sock' = NoProcess
  /\ UNCHANGED <<disk, loaded, pidFile, mainPid, trouble>>

(* Slip: the transfer is tried for ever. *)
SendNeverGivesUp(p) ==
  /\ FALSE
  /\ UNCHANGED vars

(* Nobody listened on the socket for MAX_RETRY seconds; the shutdown goes on. *)
SendGivesUp(p) ==
  /\ sock = NoProcess
  /\ Notes("late", Some({"loading"}))
  /\ Goes(p, "sending", "closing")
  /\ UNCHANGED <<disk, loaded, sock, pidFile, mainPid>>

(* CLOSE_TIMEOUT is over. *)
StopAccepting(p) ==
  /\ Notes("late", Some({"received", "building"}))
  /\ Goes(p, "closing", "draining")
  /\ UNCHANGED <<disk, loaded, sock, pidFile, mainPid>>

(* Slip: PidGuard's drop removes the file whatever it holds. *)
DrainedBlind(p) ==
  /\ Goes(p, "draining", "removing")
  /\ UNCHANGED <<disk, loaded, sock, pidFile, mainPid, trouble>>

(* Every request ended or timed out; the drop of PidGuard reads the PID file. *)
Drained(p) ==
  /\ Goes(p, "draining", IF pidFile = p THEN "removing" ELSE "exited")
  /\ UNCHANGED <<disk, loaded, sock, pidFile, mainPid, trouble>>

RemovePidFile(p) ==
  /\ Goes(p, "removing", "exited")
  /\ pidFile' = NoProcess
  /\ UNCHANGED <<disk, loaded, sock, mainPid, trouble>>

-----------------------------------------------------------------------------
(* The new process. *)
LoadConfig(c) ==
  /\ disk.loads
  /\ Goes(c, "loading", "waiting")
  /\ loaded' = [loaded EXCEPT ![c] = disk]
  /\ sock' = c
  /\ UNCHANGED <<disk, pidFile, mainPid, trouble>>

LoadFails(c) ==
  /\ ~disk.loads
  /\ Goes(c, "loading", "exited")
  /\ UNCHANGED <<disk, loaded, sock, pidFile, mainPid, trouble>>

(* bootstrap exits when no sockets come, and unlinks the path. *)
WaitTimesOut(c) ==
  /\ Notes("late", sock = c /\ Some({"sending"}))
  /\ Goes(c, "waiting", "exited")
  /\ sock' = NoProcess
  /\ UNCHANGED <<disk, loaded, pidFile, mainPid>>

CreatePidFile(c) ==
  /\ Goes(c, "received", "building")
  /\ pidFile' = c
  /\ UNCHANGED <<disk, loaded, sock, mainPid, trouble>>

(* Contexts built: the process reports itself to systemd and serves. *)
TakeOver(c) ==
  /\ loaded[c].builds
  /\ Goes(c, "building", "serving")
  /\ mainPid' = c
  /\ UNCHANGED <<disk, loaded, sock, pidFile, trouble>>

(* server_run returns the error; the drop of PidGuard reads the PID file. *)
BuildFails(c) ==
  /\ ~loaded[c].builds
  /\ Notes("build", TRUE)
  /\ Goes(c, "building", IF pidFile = c THEN "removing" ELSE "exited")
  /\ UNCHANGED <<disk, loaded, sock, pidFile, mainPid>>

ProcessStep(p) ==
  \/ ValidateFails(p) \/ SendFds(p) \/ SendGivesUp(p) \/ StopAccepting(p)
  \/ Drained(p) \/ RemovePidFile(p)
  \/ LoadConfig(p) \/ LoadFails(p) \/ WaitTimesOut(p) \/ CreatePidFile(p)
  \/ TakeOver(p) \/ BuildFails(p)
  \/ \E c \in Processes : Respawn(p, c)

Operator ==
  \/ \E k \in Kinds : Edit(k)
  \/ \E p \in Processes : StartByHand(p) \/ Quit(p) \/ Terminate(p) \/ Hangup(p)

Next == Operator \/ \E p \in Processes : ProcessStep(p)

Spec == Init /\ [][Next]_vars

(* The processes keep running: each takes the step it can take. *)
FairSpec == Spec /\ \A p \in Processes : WF_vars(ProcessStep(p))

-----------------------------------------------------------------------------
(* While nothing goes wrong around it, a hand-over leaves no moment without a  *)
(* process that accepts connections, however many follow each other and        *)
(* whatever `-t` rejects (Upgrade::respawn_self); and it never leaves two      *)
(* processes that both handle signals as the running instance.                 *)
OneServes ==
  /\ trouble = {} => Some(Accepting)
  /\ \A p, q \in Processes :
       phase[p] \in {"serving", "validating"} /\ phase[q] \in {"serving", "validating"}
         => p = q

(* sys/upgrade.rs:8-9, "the new binary must first accept the current           *)
(* configuration, otherwise the running process keeps serving": also when it   *)
(* is the building of the contexts that fails.                                 *)
RejectedKeepsServing == trouble \subseteq {"build"} => Some(Accepting)

(* The PID file never names a process that has exited (PidGuard's drop), and   *)
(* a process that serves is the one the PID file and systemd name, unless      *)
(* hand-overs overlap or are late: signals sent through either reach it        *)
(* (PidGuard: "After an upgrade the file already holds the new process' PID";  *)
(* Systemd::took_over).                                                        *)
ServerIsNamed ==
  /\ pidFile # NoProcess => phase[pidFile] # "exited"
  /\ trouble \subseteq {"stop", "build"} =>
       \A p \in Processes : phase[p] = "serving" => pidFile = p /\ mainPid = p

(* A process that starts to hand over ends, whatever the new one does.         *)
HandoverEnds == \A p \in Processes : phase[p] = "sending" ~> phase[p] = "exited"
=============================================================================
