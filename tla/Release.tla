------------------------------- MODULE Release ------------------------------
(***************************************************************************)
(* `ophan --upgrade` (ophan/src/sys/release.rs): the download and the      *)
(* checks of a release, the replacement of the installed binary step by    *)
(* step, and the signal to the running instance, with a crash or a failure *)
(* between any two steps and installers that start again.                  *)
(*                                                                         *)
(* A file is [v, whole]: the version it holds, 0 when there is no file,    *)
(* and whether all of it has been written.  What the new process does      *)
(* after the signal is module Upgrade's.                                   *)
(***************************************************************************)
EXTENDS Integers

CONSTANTS
  Installers,   \* runs of `ophan --upgrade` that may overlap
  Versions,     \* version numbers
  MaxInstalls   \* bound on installations begun

ASSUME VersionAssumption == Versions \subseteq Nat \ {0}

VARIABLES
  exe,       \* the installed binary
  caps,      \* the installed binary has its file capabilities
  staged,    \* .ophan.new
  backup,    \* ophan.old
  running,   \* version of the running instance
  install,   \* installer |-> [pc, version, caps]
  begun,     \* installations begun
  overlap    \* history: two installations ran at the same time

releaseVars == <<exe, caps, staged, backup, running, install, begun, overlap>>

NoFile == [v |-> 0, whole |-> TRUE]
Quiet == [pc |-> "idle", version |-> 0, caps |-> FALSE]

ReleaseInit ==
  /\ exe = [v |-> 2, whole |-> TRUE]
  /\ caps \in BOOLEAN
  /\ staged = NoFile
  /\ backup = NoFile
  /\ running \in {0, 2}
  /\ install = [i \in Installers |-> Quiet]
  /\ begun = 0
  /\ overlap = FALSE

Stops(i) == install' = [install EXCEPT ![i] = Quiet]
GoesTo(i, pc) == install' = [install EXCEPT ![i].pc = pc]

(* install, up to the download: nothing to do when the release is the program  *)
(* itself, and an older one only when it was asked for by version.             *)
is_newer(candidate, current) == candidate > current

Install(i, latest, version) ==
  /\ install[i].pc = "idle"
  /\ exe.whole
  /\ begun < MaxInstalls
  /\ begun' = begun + 1
  /\ version # exe.v
  /\ latest => is_newer(version, exe.v)
  /\ install' = [install EXCEPT ![i] = [pc |-> "download", version |-> version, caps |-> FALSE]]
  /\ overlap' = (overlap \/ \E j \in Installers : install[j].pc # "idle")
  /\ UNCHANGED <<exe, caps, staged, backup, running>>

(* download, verify_checksum, tar and check_binary; any of them may refuse. *)
Checked(i) ==
  /\ install[i].pc = "download"
  /\ GoesTo(i, "stage")
  /\ UNCHANGED <<exe, caps, staged, backup, running, begun, overlap>>

(* replace_with: the capabilities are read and the copy is opened ... *)
Stage(i) ==
  /\ install[i].pc = "stage"
  /\ install' = [install EXCEPT ![i].pc = "copy", ![i].caps = caps]
  /\ staged' = [v |-> install[i].version, whole |-> FALSE]
  /\ UNCHANGED <<exe, caps, backup, running, begun, overlap>>

(* ... and written, with the permissions of the installed binary. *)
Copy(i) ==
  /\ install[i].pc = "copy"
  /\ GoesTo(i, "unlink")
  /\ staged' = [staged EXCEPT !.whole = TRUE]
  /\ UNCHANGED <<exe, caps, backup, running, begun, overlap>>

DropBackup(i) ==
  /\ install[i].pc = "unlink"
  /\ GoesTo(i, "keep")
  /\ backup' = NoFile
  /\ UNCHANGED <<exe, caps, staged, running, begun, overlap>>

(* Slip: a failure to keep the previous binary is ignored. *)
KeepPreviousOrNot(i) ==
  /\ install[i].pc = "keep"
  /\ GoesTo(i, "rename")
  /\ backup' \in {exe, backup}
  /\ UNCHANGED <<exe, caps, staged, running, begun, overlap>>

(* hard_link, or the start of a copy where links are refused. *)
KeepPrevious(i) ==
  /\ install[i].pc = "keep"
  /\ \/ GoesTo(i, "rename") /\ backup' = exe
     \/ GoesTo(i, "keepCopy") /\ backup' = [exe EXCEPT !.whole = FALSE]
  /\ UNCHANGED <<exe, caps, staged, running, begun, overlap>>

KeepCopy(i) ==
  /\ install[i].pc = "keepCopy"
  /\ GoesTo(i, "rename")
  /\ backup' = exe
  /\ UNCHANGED <<exe, caps, staged, running, begun, overlap>>

(* The rename: a new file has no capabilities. *)
Rename(i) ==
  /\ install[i].pc = "rename"
  /\ staged # NoFile
  /\ GoesTo(i, "setcap")
  /\ exe' = staged
  /\ caps' = FALSE
  /\ staged' = NoFile
  /\ UNCHANGED <<backup, running, begun, overlap>>

RenameFails(i) ==
  /\ install[i].pc = "rename"
  /\ Stops(i)
  /\ staged' = NoFile
  /\ UNCHANGED <<exe, caps, backup, running, begun, overlap>>

(* setcap, whose failure is only a warning. *)
Setcap(i) ==
  /\ install[i].pc = "setcap"
  /\ GoesTo(i, "signal")
  /\ caps' \in IF install[i].caps THEN {TRUE, caps} ELSE {caps}
  /\ UNCHANGED <<exe, staged, backup, running, begun, overlap>>

(* reload_running: an instance that runs hands over to the installed binary,   *)
(* or the hand-over fails.                                                     *)
SignalRunning(i) ==
  /\ install[i].pc = "signal"
  /\ Stops(i)
  /\ running' \in IF running = 0 THEN {0} ELSE {running, exe.v}
  /\ UNCHANGED <<exe, caps, staged, backup, begun, overlap>>

(* The installer dies, or a call that writes nothing further fails. *)
Abort(i) ==
  /\ install[i].pc # "idle"
  /\ Stops(i)
  /\ UNCHANGED <<exe, caps, staged, backup, running, begun, overlap>>

ReleaseNext ==
  \E i \in Installers :
    \/ \E latest \in BOOLEAN, v \in Versions : Install(i, latest, v)
    \/ Checked(i) \/ Stage(i) \/ Copy(i) \/ DropBackup(i) \/ KeepPrevious(i) \/ KeepCopy(i)
    \/ Rename(i) \/ RenameFails(i) \/ Setcap(i) \/ SignalRunning(i) \/ Abort(i)

-----------------------------------------------------------------------------
ReleaseSpec == ReleaseInit /\ [][ReleaseNext]_releaseVars

(* release.rs:258, "Swaps the installed binary atomically and keeps the        *)
(* previous one": wherever an installer dies or fails, and however often it is *)
(* started again, the installed binary is only ever exchanged for a whole one, *)
(* and only while the kept one is a whole copy of it, so that the step can be  *)
(* undone.  Installations that overlap share the staged file and are left out. *)
SwapIsSafe ==
  [][exe' # exe /\ ~overlap => exe'.whole /\ exe'.v # 0 /\ backup = exe /\ backup.whole]_releaseVars
=============================================================================
