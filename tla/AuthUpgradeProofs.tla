------------------------- MODULE AuthUpgradeProofs --------------------------
(***************************************************************************)
(* Two components that share no state. The two halves of replacing a       *)
(* running gateway: OneServes and ServerIsNamed of module Upgrade, for any *)
(* number of processes, hand-overs and files; SwapIsSafe of module         *)
(* Release, for any number of installers, versions and installations.      *)
(* Authentication: ProofOnce and FetchesBounded of module Auth, for any    *)
(* number of clients, requests and configurations: a DPoP proof            *)
(* authenticates one request, and unknown key ids make the key set be      *)
(* fetched at most once per cooldown.                                      *)
(***************************************************************************)
EXTENDS Upgrade, Release, Auth, FiniteSetTheorems, TLAPS

Phases == {"none", "exited"} \cup Starting \cup Accepting \cup Ending

(* The running instance, or the process that is becoming it. *)
Holding == {"serving", "validating", "sending", "received", "building"}
Holds(p) == phase[p] \in Holding

OneHolder == \A p, q \in Processes : Holds(p) /\ Holds(q) => p = q

(* The upgrade socket's path belongs to a process that waits for sockets. *)
SockWaits == sock # NoProcess => sock \in Processes /\ phase[sock] = "waiting"

(* A process writes the PID file before it builds, and removes it to exit. *)
PidIsOf ==
  pidFile # NoProcess =>
    /\ pidFile \in Processes
    /\ phase[pidFile] \notin {"none", "loading", "waiting", "received", "exited"}

(* Unless hand-overs overlap or are late, the PID file is the instance's:  *)
(* no process that ends can still remove it.                               *)
Named ==
  trouble \subseteq {"stop", "build"} =>
    \A p \in Processes : Holds(p) =>
      /\ phase[p] # "received" => pidFile = p
      /\ phase[p] \in {"serving", "validating", "sending"} => mainPid = p
      /\ \A q \in Processes : phase[q] # "removing" /\ (phase[q] = "draining" => pidFile # q)

(* While nothing goes wrong, one process at most starts, the instance is   *)
(* replaced only by one that will get its sockets, and it goes on          *)
(* accepting until the other serves.                                       *)
Calm ==
  trouble = {} =>
    /\ \A p, q \in Processes : phase[p] \in Starting /\ phase[q] \in Starting => p = q
    /\ \A p \in Processes : phase[p] = "waiting" => sock = p
    /\ Some({"validating"}) => ~Some(Starting)
    /\ Some({"sending"}) => sock # NoProcess \/ (Some({"loading"}) /\ disk.loads)
    /\ Some({"serving", "validating", "sending"}) \/ (Some({"received", "building"}) /\ Some({"closing"}))

UpgradeInv ==
  /\ phase \in [Processes -> Phases]
  /\ OneHolder /\ SockWaits /\ PidIsOf /\ Named /\ Calm

(* One process serves, and its files name it. *)
LEMMA UpgradeInvInit == Init => UpgradeInv
<1> SUFFICES ASSUME Init PROVE UpgradeInv
  BY Zenon
<1>1. 1 \in Processes
  BY UpgradeAssumption DEF Processes
<1>2. phase \in [Processes -> Phases]
  BY Zenon DEF Init, Phases, Accepting
<1>3. \A p \in Processes : phase[p] = IF p = 1 THEN "serving" ELSE "none"
  BY Zenon DEF Init
<1>4. OneHolder /\ SockWaits
  BY <1>3, Zenon DEF Init, OneHolder, Holds, Holding, SockWaits
<1>5. PidIsOf /\ Named
  BY <1>1, <1>3, Zenon DEF Init, PidIsOf, Named, Holds, Holding
<1>6. Calm
  BY <1>1, <1>3, Zenon DEF Init, Calm, Some, Starting
<1> QED
  BY <1>2, <1>4, <1>5, <1>6, Zenon DEF UpgradeInv

(* Every step of the operator and of a process keeps UpgradeInv. *)
LEMMA UpgradeInvStep == UpgradeInv /\ [Next]_vars => UpgradeInv'
<1> SUFFICES ASSUME UpgradeInv, [Next]_vars PROVE UpgradeInv'
  BY Zenon
<1> USE UpgradeAssumption DEF UpgradeInv
<1>1. ASSUME NEW k \in Kinds, Edit(k) PROVE UpgradeInv'
  <2>1. phase' \in [Processes -> Phases]
    BY <1>1, Zenon DEF Edit, Phases, Accepting, Ending
  <2>2. OneHolder'
    BY <1>1, Zenon DEF Edit, OneHolder, Holds, Holding
  <2>3. SockWaits'
    BY <1>1, Zenon DEF Edit, SockWaits
  <2>4. PidIsOf'
    BY <1>1, Zenon DEF Edit, PidIsOf
  <2>5. Named'
    BY <1>1, Zenon DEF Edit, Named, OneHolder, Holds, Holding, Notes
  <2>6. Calm'
    BY <1>1, Zenon DEF Edit, Calm, OneHolder, Holds, Holding, Some, Busy, Notes
  <2> QED
    BY <2>1, <2>2, <2>3, <2>4, <2>5, <2>6, Zenon
<1>2. ASSUME NEW p \in Processes, StartByHand(p) PROVE UpgradeInv'
  <2>1. phase' \in [Processes -> Phases]
    BY <1>2, Zenon DEF StartByHand, Phases, Starting, Accepting, Ending
  <2>2. OneHolder'
    BY <1>2, Zenon DEF StartByHand, OneHolder, Holds, Holding
  <2>3. SockWaits'
    BY <1>2, Zenon DEF StartByHand, Fresh, SockWaits
  <2>4. PidIsOf'
    BY <1>2, Zenon DEF StartByHand, Fresh, PidIsOf
  <2>5. Named'
    BY <1>2, Zenon DEF StartByHand, Named, OneHolder, Holds, Holding, Notes
  <2>6. Calm'
    BY <1>2, Zenon DEF StartByHand, Fresh, Calm, OneHolder, Holds, Holding, Some, Busy, Notes
  <2> QED
    BY <2>1, <2>2, <2>3, <2>4, <2>5, <2>6, Zenon
<1>3. ASSUME NEW p \in Processes, Quit(p) PROVE UpgradeInv'
  <2>1. phase' \in [Processes -> Phases]
    BY <1>3, Zenon DEF Quit, Goes, Phases, Accepting, Ending
  <2>2. OneHolder'
    BY <1>3, Zenon DEF Quit, Goes, OneHolder, Holds, Holding
  <2>3. SockWaits'
    BY <1>3, Zenon DEF Quit, Goes, SockWaits
  <2>4. PidIsOf'
    BY <1>3, Zenon DEF Quit, Goes, PidIsOf
  <2>5. Named'
    BY <1>3, Zenon DEF Quit, Goes, Named, OneHolder, Holds, Holding
  <2>6. Calm'
    BY <1>3 DEF Quit, Goes, Calm, OneHolder, Holds, Holding, Some, Starting, NoProcess, Processes
  <2> QED
    BY <2>1, <2>2, <2>3, <2>4, <2>5, <2>6, Zenon
<1>4. ASSUME NEW p \in Processes, Terminate(p) PROVE UpgradeInv'
  <2>1. phase' \in [Processes -> Phases]
    BY <1>4, Zenon DEF Terminate, Goes, Phases, Accepting, Ending
  <2>2. OneHolder'
    BY <1>4, Zenon DEF Terminate, Goes, OneHolder, Holds, Holding
  <2>3. SockWaits'
    BY <1>4, Zenon DEF Terminate, Goes, SockWaits
  <2>4. PidIsOf'
    BY <1>4, Zenon DEF Terminate, Goes, PidIsOf
  <2>5. Named'
    BY <1>4, Zenon DEF Terminate, Goes, Named, OneHolder, Holds, Holding
  <2>6. Calm'
    BY <1>4, Zenon DEF Terminate, Calm, OneHolder, Holds, Holding
  <2> QED
    BY <2>1, <2>2, <2>3, <2>4, <2>5, <2>6, Zenon
<1>5. ASSUME NEW p \in Processes, Hangup(p) PROVE UpgradeInv'
  <2>1. phase' \in [Processes -> Phases]
    BY <1>5, Zenon DEF Hangup, Goes, Phases, Accepting, Ending
  <2>2. OneHolder'
    BY <1>5, Zenon DEF Hangup, Goes, OneHolder, Holds, Holding
  <2>3. SockWaits'
    BY <1>5, Zenon DEF Hangup, Goes, SockWaits
  <2>4. PidIsOf'
    BY <1>5, Zenon DEF Hangup, Goes, PidIsOf
  <2>5. Named'
    BY <1>5, Zenon DEF Hangup, Goes, Named, OneHolder, Holds, Holding, Notes
  <2>6. Calm'
    BY <1>5, Zenon DEF Hangup, Goes, Calm, OneHolder, Holds, Holding, Some, Busy, Starting, Notes
  <2> QED
    BY <2>1, <2>2, <2>3, <2>4, <2>5, <2>6, Zenon
<1>6. ASSUME NEW p \in Processes, ValidateFails(p) PROVE UpgradeInv'
  <2>1. phase' \in [Processes -> Phases]
    BY <1>6, Zenon DEF ValidateFails, Goes, Phases, Accepting, Ending
  <2>2. OneHolder'
    BY <1>6, Zenon DEF ValidateFails, Goes, OneHolder, Holds, Holding
  <2>3. SockWaits'
    BY <1>6, Zenon DEF ValidateFails, Goes, SockWaits
  <2>4. PidIsOf'
    BY <1>6, Zenon DEF ValidateFails, Goes, PidIsOf
  <2>5. Named'
    BY <1>6, Zenon DEF ValidateFails, Goes, Named, OneHolder, Holds, Holding
  <2>6. Calm'
    BY <1>6, Zenon DEF ValidateFails, Goes, Calm, OneHolder, Holds, Holding, Some
  <2> QED
    BY <2>1, <2>2, <2>3, <2>4, <2>5, <2>6, Zenon
<1>7. ASSUME NEW p \in Processes, SendFds(p) PROVE UpgradeInv'
  <2>1. phase' \in [Processes -> Phases]
    BY <1>7, Zenon DEF SendFds, Phases, Starting, Accepting, Ending
  <2>2. OneHolder'
    BY <1>7, ZenonT(30) DEF SendFds, OneHolder, Holds, Holding
  <2>3. SockWaits'
    BY <1>7, Zenon DEF SendFds, SockWaits
  <2>4. PidIsOf'
    BY <1>7, Zenon DEF SendFds, PidIsOf, SockWaits
  <2>5. Named'
    BY <1>7, Zenon DEF SendFds, Named, OneHolder, Holds, Holding
  <2>6. Calm'
    BY <1>7 DEF SendFds, Calm, OneHolder, Holds, Holding, SockWaits, Some, Starting
  <2> QED
    BY <2>1, <2>2, <2>3, <2>4, <2>5, <2>6, Zenon
<1>8. ASSUME NEW p \in Processes, SendGivesUp(p) PROVE UpgradeInv'
  <2>1. phase' \in [Processes -> Phases]
    BY <1>8, Zenon DEF SendGivesUp, Goes, Phases, Accepting, Ending
  <2>2. OneHolder'
    BY <1>8, Zenon DEF SendGivesUp, Goes, OneHolder, Holds, Holding
  <2>3. SockWaits'
    BY <1>8, Zenon DEF SendGivesUp, SockWaits
  <2>4. PidIsOf'
    BY <1>8, Zenon DEF SendGivesUp, Goes, PidIsOf
  <2>5. Named'
    BY <1>8, Zenon DEF SendGivesUp, Goes, Named, OneHolder, Holds, Holding
  <2>6. Calm'
    BY <1>8, Zenon DEF SendGivesUp, Goes, Calm, OneHolder, Holds, Holding, Some, Notes
  <2> QED
    BY <2>1, <2>2, <2>3, <2>4, <2>5, <2>6, Zenon
<1>9. ASSUME NEW p \in Processes, StopAccepting(p) PROVE UpgradeInv'
  <2>1. phase' \in [Processes -> Phases]
    BY <1>9, Zenon DEF StopAccepting, Goes, Phases, Accepting, Ending
  <2>2. OneHolder'
    BY <1>9, Zenon DEF StopAccepting, Goes, OneHolder, Holds, Holding
  <2>3. SockWaits'
    BY <1>9, Zenon DEF StopAccepting, Goes, SockWaits
  <2>4. PidIsOf'
    BY <1>9, Zenon DEF StopAccepting, Goes, PidIsOf
  <2>5. Named'
    BY <1>9, Zenon DEF StopAccepting, Goes, Named, OneHolder, Holds, Holding, Notes, Some
  <2>6. Calm'
    BY <1>9, Zenon DEF StopAccepting, Goes, Calm, OneHolder, Holds, Holding, Some, Starting, Notes
  <2> QED
    BY <2>1, <2>2, <2>3, <2>4, <2>5, <2>6, Zenon
<1>10. ASSUME NEW p \in Processes, Drained(p) PROVE UpgradeInv'
  <2>1. phase' \in [Processes -> Phases]
    BY <1>10, Zenon DEF Drained, Goes, Phases, Accepting, Ending
  <2>2. OneHolder'
    BY <1>10, Zenon DEF Drained, Goes, OneHolder, Holds, Holding
  <2>3. SockWaits'
    BY <1>10, Zenon DEF Drained, Goes, SockWaits
  <2>4. PidIsOf'
    BY <1>10, Zenon DEF Drained, Goes, PidIsOf
  <2>5. Named'
    BY <1>10, Zenon DEF Drained, Goes, Named, OneHolder, Holds, Holding
  <2>6. Calm'
    BY <1>10, Zenon DEF Drained, Goes, Calm, OneHolder, Holds, Holding, Some, Starting
  <2> QED
    BY <2>1, <2>2, <2>3, <2>4, <2>5, <2>6, Zenon
<1>11. ASSUME NEW p \in Processes, RemovePidFile(p) PROVE UpgradeInv'
  <2>1. phase' \in [Processes -> Phases]
    BY <1>11, Zenon DEF RemovePidFile, Goes, Phases, Accepting, Ending
  <2>2. OneHolder'
    BY <1>11, Zenon DEF RemovePidFile, Goes, OneHolder, Holds, Holding
  <2>3. SockWaits'
    BY <1>11, Zenon DEF RemovePidFile, Goes, SockWaits
  <2>4. PidIsOf'
    BY <1>11, Zenon DEF RemovePidFile, PidIsOf
  <2>5. Named'
    BY <1>11, Zenon DEF RemovePidFile, Goes, Named, OneHolder, Holds, Holding
  <2>6. Calm'
    BY <1>11, Zenon DEF RemovePidFile, Goes, Calm, OneHolder, Holds, Holding, Some, Starting
  <2> QED
    BY <2>1, <2>2, <2>3, <2>4, <2>5, <2>6, Zenon
<1>12. ASSUME NEW p \in Processes, LoadConfig(p) PROVE UpgradeInv'
  <2>1. phase' \in [Processes -> Phases]
    BY <1>12, Zenon DEF LoadConfig, Goes, Phases, Starting, Accepting, Ending
  <2>2. OneHolder'
    BY <1>12, Zenon DEF LoadConfig, Goes, OneHolder, Holds, Holding
  <2>3. SockWaits'
    BY <1>12, Zenon DEF LoadConfig, Goes, SockWaits
  <2>4. PidIsOf'
    BY <1>12, Zenon DEF LoadConfig, Goes, PidIsOf
  <2>5. Named'
    BY <1>12, Zenon DEF LoadConfig, Goes, Named, OneHolder, Holds, Holding
  <2>6. Calm'
    BY <1>12 DEF LoadConfig, Goes, Calm, OneHolder, Holds, Holding, Some, Starting, NoProcess, Processes
  <2> QED
    BY <2>1, <2>2, <2>3, <2>4, <2>5, <2>6, Zenon
<1>13. ASSUME NEW p \in Processes, LoadFails(p) PROVE UpgradeInv'
  <2>1. phase' \in [Processes -> Phases]
    BY <1>13, Zenon DEF LoadFails, Goes, Phases, Accepting, Ending
  <2>2. OneHolder'
    BY <1>13, Zenon DEF LoadFails, Goes, OneHolder, Holds, Holding
  <2>3. SockWaits'
    BY <1>13, Zenon DEF LoadFails, Goes, SockWaits
  <2>4. PidIsOf'
    BY <1>13, Zenon DEF LoadFails, Goes, PidIsOf
  <2>5. Named'
    BY <1>13, Zenon DEF LoadFails, Goes, Named, OneHolder, Holds, Holding
  <2>6. Calm'
    BY <1>13, Zenon DEF LoadFails, Goes, Calm, OneHolder, Holds, Holding, Some, Starting
  <2> QED
    BY <2>1, <2>2, <2>3, <2>4, <2>5, <2>6, Zenon
<1>14. ASSUME NEW p \in Processes, WaitTimesOut(p) PROVE UpgradeInv'
  <2>1. phase' \in [Processes -> Phases]
    BY <1>14, Zenon DEF WaitTimesOut, Goes, Phases, Accepting, Ending
  <2>2. OneHolder'
    BY <1>14, Zenon DEF WaitTimesOut, Goes, OneHolder, Holds, Holding
  <2>3. SockWaits'
    BY <1>14, Zenon DEF WaitTimesOut, SockWaits
  <2>4. PidIsOf'
    BY <1>14, Zenon DEF WaitTimesOut, Goes, PidIsOf
  <2>5. Named'
    BY <1>14, Zenon DEF WaitTimesOut, Goes, Named, OneHolder, Holds, Holding, Notes
  <2>6. Calm'
    BY <1>14, Zenon DEF WaitTimesOut, Goes, Calm, OneHolder, Holds, Holding, Some, Starting, Notes
  <2> QED
    BY <2>1, <2>2, <2>3, <2>4, <2>5, <2>6, Zenon
<1>15. ASSUME NEW p \in Processes, CreatePidFile(p) PROVE UpgradeInv'
  <2>1. phase' \in [Processes -> Phases]
    BY <1>15, Zenon DEF CreatePidFile, Goes, Phases, Starting, Accepting, Ending
  <2>2. OneHolder'
    BY <1>15, Zenon DEF CreatePidFile, Goes, OneHolder, Holds, Holding
  <2>3. SockWaits'
    BY <1>15, Zenon DEF CreatePidFile, Goes, SockWaits
  <2>4. PidIsOf'
    BY <1>15, Zenon DEF CreatePidFile, Goes, PidIsOf
  <2>5. Named'
    BY <1>15, Zenon DEF CreatePidFile, Goes, Named, OneHolder, Holds, Holding
  <2>6. Calm'
    BY <1>15, Zenon DEF CreatePidFile, Goes, Calm, OneHolder, Holds, Holding, Some, Starting
  <2> QED
    BY <2>1, <2>2, <2>3, <2>4, <2>5, <2>6, Zenon
<1>16. ASSUME NEW p \in Processes, TakeOver(p) PROVE UpgradeInv'
  <2>1. phase' \in [Processes -> Phases]
    BY <1>16, Zenon DEF TakeOver, Goes, Phases, Accepting, Ending
  <2>2. OneHolder'
    BY <1>16, Zenon DEF TakeOver, Goes, OneHolder, Holds, Holding
  <2>3. SockWaits'
    BY <1>16, Zenon DEF TakeOver, Goes, SockWaits
  <2>4. PidIsOf'
    BY <1>16, Zenon DEF TakeOver, Goes, PidIsOf
  <2>5. Named'
    BY <1>16, Zenon DEF TakeOver, Goes, Named, OneHolder, Holds, Holding
  <2>6. Calm'
    BY <1>16, Zenon DEF TakeOver, Goes, Calm, OneHolder, Holds, Holding, Some, Starting
  <2> QED
    BY <2>1, <2>2, <2>3, <2>4, <2>5, <2>6, Zenon
<1>17. ASSUME NEW p \in Processes, BuildFails(p) PROVE UpgradeInv'
  <2>1. phase' \in [Processes -> Phases]
    BY <1>17, Zenon DEF BuildFails, Goes, Phases, Accepting, Ending
  <2>2. OneHolder'
    BY <1>17, Zenon DEF BuildFails, Goes, OneHolder, Holds, Holding
  <2>3. SockWaits'
    BY <1>17, Zenon DEF BuildFails, Goes, SockWaits
  <2>4. PidIsOf'
    BY <1>17, Zenon DEF BuildFails, Goes, PidIsOf
  <2>5. Named'
    BY <1>17, Zenon DEF BuildFails, Goes, Named, OneHolder, Holds, Holding
  <2>6. Calm'
    BY <1>17, Zenon DEF BuildFails, Calm, OneHolder, Holds, Holding, Notes
  <2> QED
    BY <2>1, <2>2, <2>3, <2>4, <2>5, <2>6, Zenon
<1>18. ASSUME NEW p \in Processes, NEW c \in Processes, Respawn(p, c) PROVE UpgradeInv'
  <2>1. phase' \in [Processes -> Phases]
    BY <1>18, Zenon DEF Respawn, Phases, Starting, Accepting, Ending
  <2>2. OneHolder'
    BY <1>18 DEF Respawn, OneHolder, Holds, Holding
  <2>3. SockWaits'
    BY <1>18, Zenon DEF Respawn, Fresh, SockWaits
  <2>4. PidIsOf'
    BY <1>18, Zenon DEF Respawn, Fresh, PidIsOf
  <2>5. Named'
    BY <1>18, Zenon DEF Respawn, Named, OneHolder, Holds, Holding
  <2>6. Calm'
    BY <1>18 DEF Respawn, Calm, OneHolder, Holds, Holding, Some, Starting
  <2> QED
    BY <2>1, <2>2, <2>3, <2>4, <2>5, <2>6, Zenon
<1>19. ASSUME UNCHANGED vars PROVE UpgradeInv'
  BY <1>19, Zenon DEF vars, OneHolder, Holds, Holding, SockWaits, PidIsOf, Named, Calm, Some
<1> QED
  BY <1>1, <1>2, <1>3, <1>4, <1>5, <1>6, <1>7, <1>8, <1>9, <1>10,
     <1>11, <1>12, <1>13, <1>14, <1>15, <1>16, <1>17, <1>18, <1>19, Zenon DEF Next, Operator, ProcessStep

(* The invariant holds in every behaviour. *)
LEMMA UpgradeInvHolds == Spec => []UpgradeInv
  BY UpgradeInvInit, UpgradeInvStep, PTL DEF Spec

(* A hand-over leaves no moment without a process that accepts connections     *)
(* while nothing goes wrong around it, and never two running instances         *)
(* (Upgrade::respawn_self, server_run), however many processes follow.         *)
THEOREM OneServesHolds == Spec => []OneServes
<1>1. UpgradeInv => OneServes
  <2> SUFFICES ASSUME UpgradeInv PROVE OneServes
    BY Zenon
  <2>1. trouble = {} => Some(Accepting)
    BY Zenon DEF UpgradeInv, Calm, Some, Accepting
  <2>2. ASSUME NEW p \in Processes, NEW q \in Processes,
               phase[p] \in {"serving", "validating"}, phase[q] \in {"serving", "validating"}
        PROVE  p = q
    BY <2>2, Zenon DEF UpgradeInv, OneHolder, Holds, Holding
  <2> QED
    BY <2>1, <2>2, Zenon DEF OneServes
<1> QED
  BY <1>1, UpgradeInvHolds, PTL

(* The PID file never names a process that has exited (PidGuard's drop), and   *)
(* names the one that serves, as systemd does, unless hand-overs overlap or    *)
(* are late.                                                                   *)
THEOREM ServerIsNamedHolds == Spec => []ServerIsNamed
<1>1. UpgradeInv => ServerIsNamed
  BY Zenon DEF UpgradeInv, PidIsOf, Named, Holds, Holding, ServerIsNamed
<1> QED
  BY <1>1, UpgradeInvHolds, PTL

-----------------------------------------------------------------------------
(* The installed binary: replace_with exchanges it for a whole one, while  *)
(* the kept one is a whole copy of it, wherever earlier installers stopped *)

File == [v : Nat, whole : BOOLEAN]
Steps == {"idle", "download", "stage", "copy", "unlink", "keep", "keepCopy", "rename", "setcap", "signal"}

ReleaseType ==
  /\ exe \in File /\ staged \in File /\ backup \in File
  /\ install \in [Installers -> [pc : Steps, version : Nat, caps : BOOLEAN]]
  /\ caps \in BOOLEAN /\ overlap \in BOOLEAN

(* At most one installer is at work, unless two have overlapped. *)
Alone == \A i, j \in Installers : install[i].pc # "idle" /\ install[j].pc # "idle" => i = j

(* What an installer has done by each of its steps. *)
Prepared(i) ==
  /\ install[i].pc # "idle" => install[i].version # 0
  /\ install[i].pc \in {"copy", "unlink", "keep", "keepCopy", "rename"} => staged.v = install[i].version
  /\ install[i].pc \in {"unlink", "keep", "keepCopy", "rename"} => staged.whole
  /\ install[i].pc = "rename" => backup = exe

ReleaseInv ==
  /\ ReleaseType
  /\ ~overlap => Alone /\ exe.whole /\ \A i \in Installers : Prepared(i)

(* The installed binary starts whole and no installer is at work. *)
LEMMA ReleaseInvInit == ReleaseInit => ReleaseInv
<1> SUFFICES ASSUME ReleaseInit PROVE ReleaseInv
  BY Zenon
<1>1. exe \in File /\ staged \in File /\ backup \in File
  BY Zenon DEF ReleaseInit, File, NoFile
<1>2. Quiet \in [pc : Steps, version : Nat, caps : BOOLEAN] /\ Quiet.pc = "idle"
  BY Zenon DEF Quiet, Steps
<1>3. \A i \in Installers : install[i] = Quiet
  BY Zenon DEF ReleaseInit
<1>4. ReleaseType
  BY <1>1, <1>2, Zenon DEF ReleaseInit, ReleaseType
<1>5. exe.whole
  BY Zenon DEF ReleaseInit
<1> QED
  BY <1>2, <1>3, <1>4, <1>5, Zenon DEF ReleaseInv, Alone, Prepared

(* Every step of install and replace_with keeps ReleaseInv. *)
LEMMA ReleaseInvStep == ReleaseInv /\ [ReleaseNext]_releaseVars => ReleaseInv'
<1> SUFFICES ASSUME ReleaseInv, [ReleaseNext]_releaseVars PROVE ReleaseInv'
  BY Zenon
<1> USE DEF ReleaseInv, ReleaseType, File, Steps, Alone, Prepared
<1>1. ASSUME NEW i \in Installers, NEW latest \in BOOLEAN, NEW v \in Versions, Install(i, latest, v) PROVE ReleaseInv'
  BY <1>1, VersionAssumption DEF Install
<1>2. ASSUME NEW i \in Installers, Checked(i) PROVE ReleaseInv'
  BY <1>2 DEF Checked, GoesTo
<1>3. ASSUME NEW i \in Installers, Stage(i) PROVE ReleaseInv'
  <2>1. ReleaseType'
    BY <1>3, ZenonT(30) DEF Stage
  <2>2. ASSUME ~overlap PROVE Alone' /\ exe'.whole
    BY <1>3, <2>2 DEF Stage
  <2>3. ASSUME ~overlap, NEW j \in Installers PROVE Prepared(j)'
    BY <1>3, <2>3 DEF Stage
  <2> QED
    BY <1>3, <2>1, <2>2, <2>3, Zenon DEF Stage
<1>4. ASSUME NEW i \in Installers, Copy(i) PROVE ReleaseInv'
  <2>1. ReleaseType'
    BY <1>4, ZenonT(30) DEF Copy, GoesTo
  <2>2. ASSUME ~overlap PROVE Alone' /\ exe'.whole
    BY <1>4, <2>2 DEF Copy, GoesTo
  <2>3. ASSUME ~overlap, NEW j \in Installers PROVE Prepared(j)'
    BY <1>4, <2>3, ZenonT(30) DEF Copy, GoesTo
  <2> QED
    BY <1>4, <2>1, <2>2, <2>3, Zenon DEF Copy
<1>5. ASSUME NEW i \in Installers, DropBackup(i) PROVE ReleaseInv'
  BY <1>5 DEF DropBackup, GoesTo, NoFile
<1>6. ASSUME NEW i \in Installers, KeepPrevious(i) PROVE ReleaseInv'
  <2>1. ReleaseType'
    <3>1. backup' \in File
      BY <1>6, Zenon DEF KeepPrevious
    <3>2. install' \in [Installers -> [pc : Steps, version : Nat, caps : BOOLEAN]]
      BY <1>6 DEF KeepPrevious, GoesTo
    <3> QED
      BY <1>6, <3>1, <3>2, Zenon DEF KeepPrevious
  <2>2. ASSUME ~overlap PROVE Alone' /\ exe'.whole
    BY <1>6, <2>2 DEF KeepPrevious, GoesTo
  <2>3. ASSUME ~overlap, NEW j \in Installers PROVE Prepared(j)'
    BY <1>6, <2>3 DEF KeepPrevious, GoesTo
  <2> QED
    BY <1>6, <2>1, <2>2, <2>3, Zenon DEF KeepPrevious
<1>7. ASSUME NEW i \in Installers, KeepCopy(i) PROVE ReleaseInv'
  BY <1>7 DEF KeepCopy, GoesTo
<1>8. ASSUME NEW i \in Installers, Rename(i) PROVE ReleaseInv'
  <2>1. ReleaseType'
    BY <1>8, Zenon DEF Rename, GoesTo, NoFile
  <2>2. ASSUME ~overlap PROVE Alone' /\ exe'.whole
    BY <1>8, <2>2 DEF Rename, GoesTo, NoFile
  <2>3. ASSUME ~overlap, NEW j \in Installers PROVE Prepared(j)'
    BY <1>8, <2>3, Zenon DEF Rename, GoesTo, NoFile
  <2> QED
    BY <1>8, <2>1, <2>2, <2>3, Zenon DEF Rename
<1>9. ASSUME NEW i \in Installers, RenameFails(i) PROVE ReleaseInv'
  BY <1>9 DEF RenameFails, Stops, Quiet, NoFile
<1>10. ASSUME NEW i \in Installers, Setcap(i) PROVE ReleaseInv'
  <2>1. ReleaseType'
    BY <1>10, ZenonT(30) DEF Setcap, GoesTo
  <2>2. ASSUME ~overlap PROVE Alone' /\ exe'.whole
    BY <1>10, <2>2 DEF Setcap, GoesTo
  <2>3. ASSUME ~overlap, NEW j \in Installers PROVE Prepared(j)'
    BY <1>10, <2>3, ZenonT(30) DEF Setcap, GoesTo
  <2> QED
    BY <1>10, <2>1, <2>2, <2>3, Zenon DEF Setcap
<1>11. ASSUME NEW i \in Installers, SignalRunning(i) PROVE ReleaseInv'
  BY <1>11 DEF SignalRunning, Stops, Quiet
<1>12. ASSUME NEW i \in Installers, Abort(i) PROVE ReleaseInv'
  BY <1>12 DEF Abort, Stops, Quiet
<1>13. CASE UNCHANGED releaseVars
  BY <1>13, Zenon DEF releaseVars
<1> HIDE DEF ReleaseInv, ReleaseType, File, Steps, Alone, Prepared
<1> QED
  BY <1>1, <1>2, <1>3, <1>4, <1>5, <1>6, <1>7, <1>8, <1>9, <1>10, <1>11, <1>12, <1>13, Zenon DEF ReleaseNext

(* Only the rename changes the installed binary, and it does so safely. *)
LEMMA SwapStep ==
  ReleaseInv /\ [ReleaseNext]_releaseVars
    => [exe' # exe /\ ~overlap => exe'.whole /\ exe'.v # 0 /\ backup = exe /\ backup.whole]_releaseVars
<1> SUFFICES ASSUME ReleaseInv, ReleaseNext, exe' # exe, ~overlap
             PROVE  exe'.whole /\ exe'.v # 0 /\ backup = exe /\ backup.whole
  BY Zenon
<1>1. PICK i \in Installers : Rename(i)
  BY Zenon DEF ReleaseNext, Install, Checked, Stage, Copy, DropBackup, KeepPrevious, KeepCopy, RenameFails, Setcap, SignalRunning, Abort
<1> QED
  BY <1>1, Zenon DEF Rename, ReleaseInv, ReleaseType, File, Prepared

(* replace_with swaps safely: ReleaseInv is inductive, and it makes every step *)
(* that changes the installed binary one from a kept binary to a whole one.    *)
THEOREM SwapSafety == ReleaseSpec => SwapIsSafe
<1>1. ReleaseSpec => []ReleaseInv
  BY ReleaseInvInit, ReleaseInvStep, PTL DEF ReleaseSpec
<1> QED
  BY <1>1, SwapStep, PTL DEF ReleaseSpec, SwapIsSafe

-----------------------------------------------------------------------------
(* The locals of a request between Begin and its end: it is one of the         *)
(* attempts, and once it has come to the replay record its proof was fresh at  *)
(* the clock it read.                                                          *)
Fields == {"pc", "outcome", "attempt", "tokens", "token", "refreshed", "found", "second", "at", "full"}

LocalOk(l) ==
  l.pc # "idle" =>
    /\ l = [k \in Fields |-> l[k]]
    /\ l.attempt \in DOMAIN Attempts
    /\ l.pc \in {"sweep", "record"} => l.at \in Nat /\ is_fresh(Attempts[l.attempt].proof.iat, l.at)

ClientsOk ==
  /\ now \in Nat
  /\ mix \in Mixes
  /\ client = [c \in Clients |-> client[c]]
  /\ \A c \in Clients : LocalOk(client[c])

(* A proof that was accepted is still recorded, for as long as it is fresh, or *)
(* a sweep whose clock is past its life has run.                               *)
Remembered(p) ==
  \A i \in DOMAIN Attempts : Attempts[i].proof.id = p =>
    replay[p] = ExpiresAt(Attempts[i].proof.iat) \/ swept >= ExpiresAt(Attempts[i].proof.iat)

ReplayOk ==
  /\ replay \in [Proofs -> Nat] /\ accepted \in [Proofs -> Nat]
  /\ swept \in Nat /\ stale \in BOOLEAN
  /\ ~stale => \A p \in Proofs : accepted[p] <= 1 /\ (accepted[p] = 1 => Remembered(p))

AuthInv == ClientsOk /\ ReplayOk

(* No request is served yet, and no proof has been accepted. *)
LEMMA AuthInvInit == AuthInit => AuthInv
<1> SUFFICES ASSUME AuthInit PROVE AuthInv
  BY Zenon
<1>1. ClientsOk
  <2>1. Waiting.pc = "idle"
    BY Zenon DEF Waiting
  <2>2. client = [c \in Clients |-> client[c]] /\ \A c \in Clients : client[c] = Waiting
    BY Zenon DEF AuthInit
  <2> QED
    BY <2>1, <2>2, Zenon DEF AuthInit, ClientsOk, LocalOk
<1>2. ReplayOk
  <2>1. replay \in [Proofs -> Nat] /\ accepted \in [Proofs -> Nat] /\ \A p \in Proofs : accepted[p] = 0
    BY Zenon DEF AuthInit
  <2>2. swept \in Nat /\ stale \in BOOLEAN
    BY Zenon DEF AuthInit
  <2>3. \A p \in Proofs : accepted[p] <= 1 /\ accepted[p] # 1
    BY <2>1
  <2> QED
    BY <2>1, <2>2, <2>3, Zenon DEF ReplayOk
<1> QED
  BY <1>1, <1>2, Zenon DEF AuthInv

(* Replacing the locals of one request by sound ones keeps all of them sound. *)
LEMMA OneClient ==
  ASSUME ClientsOk, NEW c \in Clients, NEW l, LocalOk(l), client' = [client EXCEPT ![c] = l],
         UNCHANGED <<now, mix>>
  PROVE  ClientsOk'
  BY Zenon DEF ClientsOk, LocalOk

(* A request that ends, one that moves on before the replay record, and one    *)
(* that takes the way of an error have sound locals.                           *)
LEMMA EndedOk == \A o : LocalOk(Ended(o))
  BY Zenon DEF LocalOk, Ended

LEMMA MovedOk ==
  ASSUME NEW l, LocalOk(l), l.pc # "idle", NEW step, step \notin {"sweep", "record"}
  PROVE  LocalOk([l EXCEPT !.pc = step])
  BY Zenon DEF LocalOk, Fields

LEMMA AfterErrorOk ==
  ASSUME NEW l, LocalOk(l), l.pc # "idle", NEW err
  PROVE  LocalOk(AfterError(l, err))
<1>1. AfterError(l, err) \in {Ended(refresh_status(err)), [l EXCEPT !.pc = "refresh"], Ended(status_code(err))}
  BY Zenon DEF AfterError
<1> QED
  BY <1>1, EndedOk, MovedOk

(* The steps up to the replay record, and those of the other requests, keep    *)
(* the locals sound.                                                           *)
LEMMA ClientsStep == AuthInv /\ [AuthNext]_authVars => ClientsOk'
<1> SUFFICES ASSUME ClientsOk, [AuthNext]_authVars PROVE ClientsOk'
  BY Zenon DEF AuthInv
<1>1. ASSUME NEW c \in Clients, NEW i \in mix.of, Begin(c, i) PROVE ClientsOk'
  <2>1. i \in DOMAIN Attempts
    BY AuthAssumption, Zenon DEF ClientsOk
  <2>2. \A t : LocalOk(Begun(i, t, "refresh")) /\ LocalOk(Begun(i, t, "header"))
    BY <2>1, Zenon DEF LocalOk, Fields, Begun
  <2>3. LocalOk(FirstStep(i))
    BY <2>2, EndedOk, Zenon DEF FirstStep
  <2> QED
    BY <1>1, <2>3, OneClient, Zenon DEF Begin
<1>2. ASSUME NEW c \in Clients, DecodeHeader(c) PROVE ClientsOk'
  <2>1. LocalOk(client[c]) /\ client[c].pc # "idle"
    BY <1>2, Zenon DEF DecodeHeader, ClientsOk
  <2>2. \E l : LocalOk(l) /\ client' = [client EXCEPT ![c] = l]
    BY <1>2, <2>1, MovedOk, AfterErrorOk, Zenon DEF DecodeHeader, Fails, Moves
  <2> QED
    BY <1>2, <2>2, OneClient, Zenon DEF DecodeHeader, runVars
<1>3. ASSUME NEW c \in Clients, LookUpKeys(c) PROVE ClientsOk'
  <2>1. LocalOk(client[c]) /\ client[c].pc # "idle"
    BY <1>3, Zenon DEF LookUpKeys, ClientsOk
  <2>2. \E l : LocalOk(l) /\ client' = [client EXCEPT ![c] = l]
    BY <1>3, <2>1, MovedOk, AfterErrorOk DEF LookUpKeys, Fails, Moves
  <2> QED
    BY <1>3, <2>2, OneClient, Zenon DEF LookUpKeys, runVars
<1>4. ASSUME NEW c \in Clients, FindKey(c) PROVE ClientsOk'
  <2>1. LocalOk(client[c]) /\ client[c].pc # "idle"
    BY <1>4, Zenon DEF FindKey, ClientsOk
  <2>2. UNCHANGED <<now, mix>>
    BY <1>4, Zenon DEF FindKey, runVars
  <2>3. CASE \E err : Fails(c, err)
    BY <2>1, <2>2, <2>3, AfterErrorOk, OneClient, Zenon DEF Fails
  <2>4. CASE Moves(c, "verify")
    BY <2>1, <2>2, <2>4, MovedOk, OneClient, Zenon DEF Moves
  <2>5. CASE client' = [client EXCEPT ![c].pc = "drop", ![c].second = TRUE]
    <3>1. \E l : LocalOk(l) /\ client' = [client EXCEPT ![c] = l]
      BY <2>1, <2>5, Zenon DEF LocalOk, Fields, ClientsOk
    <3> QED
      BY <2>2, <3>1, OneClient, Zenon
  <2> QED
    BY <1>4, <2>3, <2>4, <2>5, Zenon DEF FindKey
<1>5. ASSUME NEW c \in Clients, DropKeys(c) PROVE ClientsOk'
  <2>1. LocalOk(client[c]) /\ client[c].pc # "idle"
    BY <1>5, Zenon DEF DropKeys, ClientsOk
  <2>2. \E l : LocalOk(l) /\ client' = [client EXCEPT ![c] = l]
    BY <1>5, <2>1, MovedOk, Zenon DEF DropKeys, Moves
  <2> QED
    BY <1>5, <2>2, OneClient, Zenon DEF DropKeys, runVars
<1>6. ASSUME NEW c \in Clients, Verify(c) PROVE ClientsOk'
  <2>1. LocalOk(client[c]) /\ client[c].pc # "idle"
    BY <1>6, Zenon DEF Verify, ClientsOk
  <2>2. UNCHANGED <<now, mix>>
    BY <1>6, Zenon DEF Verify, runVars
  <2>3. CASE \E err : Fails(c, err)
    BY <2>1, <2>2, <2>3, AfterErrorOk, OneClient, Zenon DEF Fails
  <2>4. CASE \E o : Ends(c, o)
    BY <2>2, <2>4, EndedOk, OneClient, Zenon DEF Ends
  <2>5. CASE /\ is_fresh(Attempts[client[c].attempt].proof.iat, now)
             /\ client' = [client EXCEPT ![c].pc = "sweep", ![c].at = now]
    <3>1. \E l : LocalOk(l) /\ client' = [client EXCEPT ![c] = l]
      BY <2>1, <2>5, Zenon DEF LocalOk, Fields, ClientsOk
    <3> QED
      BY <2>2, <3>1, OneClient, Zenon
  <2> QED
    BY <1>6, <2>3, <2>4, <2>5, Zenon DEF Verify, ProofFits
<1>7. ASSUME NEW c \in Clients, Sweep(c) PROVE ClientsOk'
  <2>1. LocalOk(client[c]) /\ client[c].pc # "idle"
    BY <1>7, Zenon DEF Sweep, ClientsOk
  <2>2. \E l : LocalOk(l) /\ client' = [client EXCEPT ![c] = l]
    BY <1>7, <2>1, Zenon DEF Sweep, LocalOk, Fields
  <2> QED
    BY <1>7, <2>2, OneClient, Zenon DEF Sweep, runVars
<1>8. ASSUME NEW c \in Clients, Record(c) PROVE ClientsOk'
  <2>1. \E o : Ends(c, o)
    BY <1>8, Zenon DEF Record
  <2>2. UNCHANGED <<now, mix>>
    BY <1>8, Zenon DEF Record, runVars
  <2> QED
    BY <2>1, <2>2, EndedOk, OneClient, Zenon DEF Ends
<1>9. ASSUME NEW c \in Clients, RefreshSession(c) PROVE ClientsOk'
  <2>1. LocalOk(client[c]) /\ client[c].pc # "idle"
    BY <1>9, Zenon DEF RefreshSession, ClientsOk
  <2>2. UNCHANGED <<now, mix>>
    BY <1>9, Zenon DEF RefreshSession, runVars
  <2>3. CASE \E o : Ends(c, o)
    BY <2>2, <2>3, EndedOk, OneClient, Zenon DEF Ends
  <2>4. CASE Moves(c, "refreshing")
    BY <2>1, <2>2, <2>4, MovedOk, OneClient, Zenon DEF Moves
  <2>5. ASSUME NEW t, client' = [client EXCEPT ![c].pc = "header", ![c].refreshed = TRUE, ![c].second = FALSE, ![c].token = t]
        PROVE  ClientsOk'
    <3>1. \E l : LocalOk(l) /\ client' = [client EXCEPT ![c] = l]
      BY <2>1, <2>5, Zenon DEF LocalOk, Fields, ClientsOk
    <3> QED
      BY <2>2, <3>1, OneClient, Zenon
  <2> QED
    BY <1>9, <2>3, <2>4, <2>5, Zenon DEF RefreshSession
<1>10. ASSUME NEW ok \in BOOLEAN, FetchKeys(ok) PROVE ClientsOk'
  <2> DEFINE fetched == [kids |-> published, fetched_at |-> now]
             After(l) == IF ok THEN [l EXCEPT !.pc = "found", !.found = fetched] ELSE AfterError(l, "transport")
  <2>1. ASSUME NEW c \in Clients, client[c].pc = "fetch" PROVE LocalOk(After(client[c]))
    <3>1. LocalOk(client[c]) /\ client[c].pc # "idle"
      BY <2>1, Zenon DEF ClientsOk
    <3>2. CASE ok
      BY <3>1, <3>2, Zenon DEF LocalOk, Fields
    <3>3. CASE ~ok
      BY <3>1, <3>3, AfterErrorOk, Zenon
    <3> QED
      BY <3>2, <3>3, Zenon
  <2>2. client' = [c \in Clients |-> IF client[c].pc = "fetch" THEN After(client[c]) ELSE client[c]]
    BY <1>10, Zenon DEF FetchKeys
  <2>3. UNCHANGED <<now, mix>>
    BY <1>10, Zenon DEF FetchKeys, runVars
  <2> HIDE DEF After
  <2> QED
    BY <2>1, <2>2, <2>3, Zenon DEF ClientsOk
<1>11. ASSUME NEW t \in RefreshTokens, NEW o \in {"ok", "transport", "refused"}, RefreshAnswered(t, o) PROVE ClientsOk'
  <2> DEFINE Answered(c) == client[c].pc = "refreshing" /\ client[c].tokens.refresh = t
             After(l) == [l EXCEPT !.pc = "refresh"]
  <2>1. ASSUME NEW c \in Clients, Answered(c) PROVE LocalOk(After(client[c]))
    BY <2>1, MovedOk, Zenon DEF ClientsOk
  <2>2. client' = [c \in Clients |-> IF Answered(c) THEN After(client[c]) ELSE client[c]]
    BY <1>11, Zenon DEF RefreshAnswered
  <2>3. UNCHANGED <<now, mix>>
    BY <1>11, Zenon DEF RefreshAnswered, runVars
  <2> HIDE DEF After, Answered
  <2> QED
    BY <2>1, <2>2, <2>3, Zenon DEF ClientsOk
<1>12. ASSUME now' \in Nat, UNCHANGED <<client, mix>> PROVE ClientsOk'
  BY <1>12, Zenon DEF ClientsOk, LocalOk
<1>13. CASE Pass \/ Rotate \/ Forget \/ UNCHANGED authVars
  BY <1>12, <1>13 DEF Pass, Rotate, Forget, authVars, runVars, ClientsOk
<1> QED
  BY <1>1, <1>2, <1>3, <1>4, <1>5, <1>6, <1>7, <1>8, <1>9, <1>10, <1>11, <1>13, Zenon DEF AuthNext

(* What an insert does to a table of numbers, and a count to its entry. *)
LEMMA EntryPut == ASSUME NEW S, NEW f \in [S -> Nat], NEW x \in S, NEW n \in Nat
                  PROVE  [f EXCEPT ![x] = n] \in [S -> Nat]
  BY Zenon

LEMMA EntryBumped == ASSUME NEW S, NEW f \in [S -> Nat], NEW x \in S
                     PROVE  [f EXCEPT ![x] = @ + 1] \in [S -> Nat] /\ [f EXCEPT ![x] = @ + 1][x] = f[x] + 1
  OBVIOUS

(* A record free at a clock before its end was neither written with that end  *)
(* nor swept past it.                                                         *)
LEMMA FreeBeforeEnd == ASSUME NEW r \in Nat, NEW s \in Nat, NEW at \in Nat, NEW e \in Nat,
                              r <= at, ~(at < s), at < e
                       PROVE  r # e /\ ~(s >= e)
  OBVIOUS

LEMMA NoneOrOne == ASSUME NEW n \in Nat, n <= 1, n # 1 PROVE n = 0 /\ n + 1 = 1
  OBVIOUS

(* The record of a proof outlives its freshness: whoever comes to it with a    *)
(* fresh clock finds an accepted proof taken, unless a sweep with a later clock *)
(* has run.                                                                    *)
LEMMA RecordStep == ASSUME AuthInv, NEW c \in Clients, Record(c) PROVE ReplayOk'
<1> DEFINE local == client[c]
           proof == Attempts[local.attempt].proof
<1>1. /\ local.attempt \in DOMAIN Attempts /\ local.at \in Nat /\ proof.id \in Proofs
      /\ proof.iat \in Nat /\ local.at < ExpiresAt(proof.iat) /\ ExpiresAt(proof.iat) \in Nat
  <2>1. local.pc = "record"
    BY Zenon DEF Record
  <2>2. local.attempt \in DOMAIN Attempts /\ local.at \in Nat /\ is_fresh(proof.iat, local.at)
    BY <2>1, Zenon DEF AuthInv, ClientsOk, LocalOk
  <2>3. proof.id \in Proofs
    BY <2>2, Zenon DEF Proofs
  <2>4. proof.iat \in Nat
    BY <2>2, AuthAssumption, Zenon
  <2> QED
    BY <2>2, <2>3, <2>4, AuthAssumption DEF is_fresh, ExpiresAt
<1>2. CASE UNCHANGED <<replay, accepted, stale>>
  BY <1>2, Zenon DEF AuthInv, ReplayOk, Remembered, Record
<1>3. CASE /\ replay[proof.id] <= local.at
           /\ replay' = [replay EXCEPT ![proof.id] = ExpiresAt(proof.iat)]
           /\ accepted' = [accepted EXCEPT ![proof.id] = @ + 1]
           /\ stale' = (stale \/ local.at < swept)
  <2>1. swept' = swept
    BY Zenon DEF Record
  <2>2. replay' \in [Proofs -> Nat] /\ accepted' \in [Proofs -> Nat] /\ swept' \in Nat /\ stale' \in BOOLEAN
    <3>1. replay \in [Proofs -> Nat] /\ accepted \in [Proofs -> Nat] /\ swept \in Nat
      BY Zenon DEF AuthInv, ReplayOk
    <3>2. replay' \in [Proofs -> Nat] /\ accepted' \in [Proofs -> Nat] /\ swept' \in Nat
      <4>1. replay' \in [Proofs -> Nat]
        BY <1>1, <1>3, <3>1, EntryPut, Zenon
      <4>2. accepted' \in [Proofs -> Nat]
        BY <1>1, <1>3, <3>1, EntryBumped, Zenon
      <4> QED
        BY <2>1, <3>1, <4>1, <4>2, Zenon
    <3>3. stale' \in BOOLEAN
      BY <1>3, Zenon
    <3> QED
      BY <3>2, <3>3, Zenon
  <2>3. ASSUME ~stale', NEW p \in Proofs PROVE accepted'[p] <= 1 /\ (accepted'[p] = 1 => Remembered(p)')
    <3>1. CASE p # proof.id
      BY <1>1, <1>3, <2>1, <2>3, <3>1, Zenon DEF AuthInv, ReplayOk, Remembered
    <3>2. CASE p = proof.id
      <4>1. \A i \in DOMAIN Attempts : Attempts[i].proof.id = p => Attempts[i].proof.iat = proof.iat
        BY <1>1, <3>2, AuthAssumption, Zenon
      <4>2. ~stale /\ ~(local.at < swept)
        BY <1>3, <2>3, Zenon
      <4>3. accepted[p] # 1
        <5>1. replay[p] \in Nat /\ swept \in Nat
          BY <1>1, <3>2, Zenon DEF AuthInv, ReplayOk
        <5>2. replay[p] # ExpiresAt(proof.iat) /\ ~(swept >= ExpiresAt(proof.iat))
          BY <1>1, <1>3, <3>2, <4>2, <5>1, FreeBeforeEnd, ZenonT(30)
        <5> QED
          BY <1>1, <1>3, <3>2, <4>2, <5>2, Zenon DEF AuthInv, ReplayOk, Remembered
      <4>4. accepted[p] \in Nat /\ accepted[p] <= 1
        BY <1>1, <3>2, <4>2, Zenon DEF AuthInv, ReplayOk
      <4>5. accepted'[p] = 1
        <5>1. accepted'[p] = accepted[p] + 1
          <6>1. accepted \in [Proofs -> Nat] /\ proof.id \in Proofs
            BY <1>1, Zenon DEF AuthInv, ReplayOk
          <6>2. [accepted EXCEPT ![proof.id] = @ + 1][proof.id] = accepted[proof.id] + 1
            BY <6>1, EntryBumped, Zenon
          <6> QED
            BY <1>3, <3>2, <6>2, Zenon
        <5> QED
          BY <4>3, <4>4, <5>1, NoneOrOne, Zenon
      <4>6. Remembered(p)'
        BY <1>1, <1>3, <3>2, <4>1, Zenon DEF Remembered, AuthInv, ReplayOk
      <4> QED
        BY <4>5, <4>6
    <3> QED
      BY <3>1, <3>2, Zenon
  <2> QED
    BY <2>2, <2>3, Zenon DEF ReplayOk
<1> QED
  BY <1>2, <1>3, Zenon DEF Record

(* A sweep drops a record only when its own clock is past the record's life. *)
LEMMA SweepStep == ASSUME AuthInv, NEW c \in Clients, Sweep(c) PROVE ReplayOk'
<1> DEFINE at == client[c].at
<1>1. at \in Nat
  BY Zenon DEF AuthInv, ClientsOk, LocalOk, Sweep
<1>2. UNCHANGED <<accepted, stale>>
  BY Zenon DEF Sweep
<1>3. CASE UNCHANGED <<replay, swept>>
  BY <1>2, <1>3, Zenon DEF AuthInv, ReplayOk, Remembered
<1>4. CASE /\ replay' = [p \in Proofs |-> IF replay[p] > at THEN replay[p] ELSE 0]
           /\ swept' = IF at > swept THEN at ELSE swept
  <2>1. replay' \in [Proofs -> Nat] /\ swept' \in Nat /\ swept' >= at /\ swept' >= swept
    BY <1>1, <1>4 DEF AuthInv, ReplayOk
  <2>2. ASSUME NEW p \in Proofs, Remembered(p) PROVE Remembered(p)'
    <3> SUFFICES ASSUME NEW i \in DOMAIN Attempts, Attempts[i].proof.id = p
                 PROVE  replay'[p] = ExpiresAt(Attempts[i].proof.iat) \/ swept' >= ExpiresAt(Attempts[i].proof.iat)
      BY Zenon DEF Remembered
    <3>1. ExpiresAt(Attempts[i].proof.iat) \in Nat
      BY AuthAssumption DEF ExpiresAt
    <3> QED
      BY <1>1, <1>4, <2>1, <2>2, <3>1 DEF Remembered, AuthInv, ReplayOk
  <2> QED
    BY <1>2, <2>1, <2>2, Zenon DEF AuthInv, ReplayOk
<1> QED
  BY <1>3, <1>4, Zenon DEF Sweep

(* No other step touches the replay record. *)
LEMMA ReplayStep == AuthInv /\ [AuthNext]_authVars => ReplayOk'
<1> SUFFICES ASSUME AuthInv, [AuthNext]_authVars PROVE ReplayOk'
  BY Zenon
<1>1. CASE UNCHANGED replayVars
  BY <1>1, Zenon DEF AuthInv, ReplayOk, Remembered, replayVars
<1>2. CASE \E c \in Clients : Sweep(c) \/ Record(c)
  BY <1>2, SweepStep, RecordStep, Zenon
<1>3. UNCHANGED replayVars \/ \E c \in Clients : Sweep(c) \/ Record(c)
  BY ZenonT(30) DEF AuthNext, Begin, DecodeHeader, LookUpKeys, FindKey, DropKeys, Verify, RefreshSession, FetchKeys,
         RefreshAnswered, Pass, Rotate, Forget, authVars
<1> QED
  BY <1>1, <1>2, <1>3, Zenon

(* ReplayCache admits a proof once: AuthInv is inductive, and while no request *)
(* has been checked with a clock older than a sweep it bounds the acceptances  *)
(* of every proof by one.                                                      *)
THEOREM ProofOnceSafety == AuthSpec => []ProofOnce
<1>1. AuthInv => ProofOnce
  BY Zenon DEF AuthInv, ReplayOk, ProofOnce
<1>2. AuthInv /\ [AuthNext]_authVars => AuthInv'
  BY ClientsStep, ReplayStep, Zenon DEF AuthInv
<1> QED
  BY <1>1, <1>2, AuthInvInit, PTL DEF AuthSpec

-----------------------------------------------------------------------------
(* The key set.  A request that has claimed a refetch drops the set later, and *)
(* the fetch that an empty cache calls for comes later still: both are owed.   *)
Dropping == {c \in Clients : client[c].pc = "drop"}
Fetching == {c \in Clients : client[c].pc = "fetch"}
Needed == IF key_set = NoKeySet /\ ~fetch_fails THEN 1 ELSE 0
Owed == extra + Needed + Cardinality(Dropping)

(* At most one fetch is owed or made for every cooldown up to the last claim. *)
Bounded(owed, last) == IF last = Never THEN owed <= 0 ELSE (owed - 1) * KEY_REFETCH_COOLDOWN <= last - 1

FetchInv ==
  /\ now \in Nat /\ now >= 1 /\ extra \in Int
  /\ refetches = Never \/ (refetches \in Nat /\ refetches <= now)
  /\ Fetching # {} => key_set = NoKeySet /\ ~fetch_fails
  /\ Bounded(Owed, refetches)

LEMMA FewerOwed ==
  ASSUME NEW a \in Int, NEW b \in Int, b <= a, NEW last \in Int, Bounded(a, last)
  PROVE  Bounded(b, last)
<1> DEFINE C == KEY_REFETCH_COOLDOWN
<1>1. C \in Nat
  BY AuthAssumption, Zenon
<1> HIDE DEF C
<1>2. (b - 1) * C <= (a - 1) * C
  <2> DEFINE x == a - 1
             y == b - 1
  <2>1. x \in Int /\ y \in Int /\ x - y \in Nat
    OBVIOUS
  <2> HIDE DEF x, y
  <2>2. x * C = y * C + (x - y) * C
    BY <1>1, <2>1
  <2>3. (x - y) * C \in Nat
    BY <1>1, <2>1
  <2>4. y * C \in Int /\ x * C \in Int
    BY <1>1, <2>1
  <2>5. y * C <= x * C
    BY <2>2, <2>3, <2>4
  <2> QED
    BY <2>5, Zenon DEF x, y
<1>3. (b - 1) * C \in Int /\ (a - 1) * C \in Int
  BY <1>1
<1>4. CASE last = Never
  BY <1>4 DEF Bounded
<1>5. CASE last # Never
  <2>1. (a - 1) * C <= last - 1
    BY <1>5, Zenon DEF Bounded, C
  <2>2. (b - 1) * C <= last - 1
    BY <1>2, <1>3, <2>1
  <2> QED
    BY <1>5, <2>2, Zenon DEF Bounded, C
<1> QED
  BY <1>4, <1>5, Zenon

LEMMA OneMoreOwed ==
  ASSUME NEW a \in Int, NEW last \in Int, NEW at \in Nat, at >= 1, Bounded(a, last),
         last = Never \/ at - last >= KEY_REFETCH_COOLDOWN
  PROVE  Bounded(a + 1, at)
<1> DEFINE C == KEY_REFETCH_COOLDOWN
<1>1. C \in Nat
  BY AuthAssumption, Zenon
<1>2. at # Never /\ a + 1 - 1 = a /\ a + 1 \in Int
  BY DEF Never
<1>3. CASE last = Never
  <2>1. a <= 0
    BY <1>3, Zenon DEF Bounded
  <2>2. Bounded(1, at)
    <3>1. (1 - 1) * C <= at - 1
      BY <1>1
    <3> QED
      BY <1>2, <3>1, Zenon DEF Bounded
  <2>3. a + 1 <= 1
    BY <2>1
  <2> QED
    BY <1>2, <2>2, <2>3, FewerOwed
<1>4. CASE last # Never
  <2>1. (a - 1) * C <= last - 1 /\ at - last >= C
    BY <1>4, Zenon DEF Bounded
  <2> HIDE DEF C
  <2>2. a * C = (a - 1) * C + C /\ (a - 1) * C \in Int
    BY <1>1
  <2>3. a * C <= at - 1
    BY <1>1, <2>1, <2>2
  <2>4. (a + 1 - 1) * C <= at - 1
    BY <1>2, <2>3, Zenon
  <2> QED
    BY <1>2, <2>4 DEF Bounded, C
<1> QED
  BY <1>3, <1>4, Zenon

LEMMA DroppingCount == IsFiniteSet(Dropping) /\ Cardinality(Dropping) \in Nat
<1>1. IsFiniteSet(Dropping)
  BY AuthAssumption, FS_Subset, Zenon DEF Dropping
<1> QED
  BY <1>1, FS_CardinalityType, Zenon

LEMMA FetchTypes == FetchInv => Needed \in {0, 1} /\ Owed \in Int /\ extra <= Owed /\ refetches \in Int
<1> SUFFICES ASSUME FetchInv PROVE Needed \in {0, 1} /\ Owed \in Int /\ extra <= Owed /\ refetches \in Int
  BY Zenon
<1>1. Needed \in {0, 1}
  BY Zenon DEF Needed
<1>2. extra \in Int /\ Cardinality(Dropping) \in Nat
  BY DroppingCount, Zenon DEF FetchInv
<1>3. Owed \in Int /\ extra <= Owed
  BY <1>1, <1>2 DEF Owed
<1>4. refetches \in Int
  BY DEF FetchInv, Never
<1> QED
  BY <1>1, <1>3, <1>4, Zenon

(* A step that neither claims, drops, fetches nor forgets. *)
LEMMA FetchKept ==
  ASSUME FetchInv, Dropping' = Dropping, UNCHANGED <<key_set, fetch_fails, refetches, extra>>,
         now' = now \/ now' = now + 1,
         Fetching' # {} => Fetching # {} \/ (key_set = NoKeySet /\ ~fetch_fails)
  PROVE  FetchInv'
<1>1. Needed' = Needed /\ Owed' = Owed
  BY Zenon DEF Needed, Owed
<1>2. now' \in Nat /\ now' >= 1 /\ (refetches = Never \/ (refetches \in Nat /\ refetches <= now'))
  BY DEF FetchInv
<1>3. Bounded(Owed', refetches')
  BY <1>1, Zenon DEF FetchInv
<1>4. Fetching' # {} => key_set' = NoKeySet /\ ~fetch_fails'
  BY Zenon DEF FetchInv
<1>5. extra' \in Int
  BY Zenon DEF FetchInv
<1>6. refetches' = Never \/ (refetches' \in Nat /\ refetches' <= now')
  BY <1>2, Zenon
<1>7. Bounded(Owed, refetches)'
  BY <1>3, Zenon DEF Bounded, Never
<1> QED
  BY <1>2, <1>4, <1>5, <1>6, <1>7, Zenon DEF FetchInv, Never

LEMMA OneMoves ==
  ASSUME ClientsOk, NEW c \in Clients, client[c].pc # "drop", NEW l, l.pc # "drop", client' = [client EXCEPT ![c] = l]
  PROVE  Dropping' = Dropping /\ (l.pc # "fetch" => Fetching' \subseteq Fetching)
<1>1. client'[c] = l /\ \A d \in Clients \ {c} : client'[d] = client[d]
  BY Zenon DEF ClientsOk
<1> QED
  BY <1>1, Zenon DEF Dropping, Fetching

(* Where a request goes. *)
LEMMA MovedPc == ASSUME NEW l, LocalOk(l), l.pc # "idle", NEW step PROVE [l EXCEPT !.pc = step].pc = step
  BY Zenon DEF LocalOk, Fields

LEMMA EndedPc == \A o : Ended(o).pc = "idle"
  BY Zenon DEF Ended

LEMMA AfterErrorPc ==
  ASSUME NEW l, LocalOk(l), l.pc # "idle", NEW err
  PROVE  AfterError(l, err).pc \in {"idle", "refresh"}
<1>1. AfterError(l, err) \in {Ended(refresh_status(err)), [l EXCEPT !.pc = "refresh"], Ended(status_code(err))}
  BY Zenon DEF AfterError
<1> QED
  <2>1. [l EXCEPT !.pc = "refresh"].pc = "refresh"
    BY MovedPc, Zenon
  <2>2. \/ AfterError(l, err) = Ended(refresh_status(err)) \/ AfterError(l, err) = Ended(status_code(err))
        \/ AfterError(l, err) = [l EXCEPT !.pc = "refresh"]
    BY <1>1, Zenon
  <2>3. AfterError(l, err).pc = "idle" \/ AfterError(l, err).pc = "refresh"
    BY <2>1, <2>2, EndedPc, Zenon
  <2> QED
    BY <2>3, Zenon

(* A request that takes a step other than the claim, the drop and the fetch. *)
Elsewhere(step) == step # "drop" /\ step # "fetch"
GoesElsewhere(c) == \E l : Elsewhere(l.pc) /\ client' = [client EXCEPT ![c] = l]

LEMMA GoesOn ==
  ASSUME ClientsOk, NEW c \in Clients,
         \/ \E i \in mix.of : Begin(c, i)
         \/ DecodeHeader(c) \/ Verify(c) \/ Sweep(c) \/ Record(c) \/ RefreshSession(c)
  PROVE  GoesElsewhere(c) /\ client[c].pc # "drop" /\ UNCHANGED <<now, keyVars>>
<1>1. ASSUME NEW i \in mix.of, Begin(c, i) PROVE GoesElsewhere(c) /\ client[c].pc # "drop" /\ UNCHANGED <<now, keyVars>>
  <2>1. \A t : Begun(i, t, "refresh").pc = "refresh" /\ Begun(i, t, "header").pc = "header"
    BY Zenon DEF Begun
  <2>2. Elsewhere(FirstStep(i).pc)
    <3> DEFINE tokens == extract_request_tokens(Attempts[i], AuthConfigs[Attempts[i].conf])
    <3>1. \/ FirstStep(i) = Ended(0) \/ FirstStep(i) = Ended(401)
          \/ FirstStep(i) = Begun(i, tokens, "refresh") \/ FirstStep(i) = Begun(i, tokens, "header")
      BY ZenonT(30) DEF FirstStep
    <3> HIDE DEF tokens
    <3>2. FirstStep(i).pc = "idle" \/ FirstStep(i).pc = "refresh" \/ FirstStep(i).pc = "header"
      BY <2>1, <3>1, EndedPc, ZenonT(30)
    <3> QED
      BY <3>2, Zenon DEF Elsewhere
  <2> QED
    BY <1>1, <2>2, Zenon DEF Begin, GoesElsewhere
<1>2. ASSUME client[c].pc # "idle" PROVE LocalOk(client[c])
  BY Zenon DEF ClientsOk
<1>3. ASSUME client[c].pc # "idle", NEW err, Fails(c, err) PROVE GoesElsewhere(c)
  <2>1. AfterError(client[c], err).pc \in {"idle", "refresh"}
    BY <1>2, <1>3, AfterErrorPc, Zenon
  <2>2. Elsewhere(AfterError(client[c], err).pc)
    BY <2>1, Zenon DEF Elsewhere
  <2>3. client' = [client EXCEPT ![c] = AfterError(client[c], err)]
    BY <1>3, Zenon DEF Fails
  <2> QED
    BY <2>2, <2>3, Zenon DEF GoesElsewhere
<1>4. ASSUME NEW o, Ends(c, o) PROVE GoesElsewhere(c)
  <2>1. Elsewhere(Ended(o).pc)
    BY EndedPc, Zenon DEF Elsewhere
  <2> QED
    BY <1>4, <2>1, Zenon DEF Ends, GoesElsewhere
<1>5. ASSUME client[c].pc # "idle", NEW step, Elsewhere(step), Moves(c, step) PROVE GoesElsewhere(c)
  BY <1>2, <1>5, MovedPc, ZenonT(30) DEF Moves, GoesElsewhere
<1>6. ASSUME DecodeHeader(c) PROVE GoesElsewhere(c) /\ client[c].pc # "drop" /\ UNCHANGED <<now, keyVars>>
  <2>1. client[c].pc = "header" /\ UNCHANGED <<now, keyVars>>
    BY <1>6, Zenon DEF DecodeHeader
  <2>2. (\E err : Fails(c, err)) \/ Moves(c, "verify") \/ Moves(c, "keys")
    BY <1>6, Zenon DEF DecodeHeader
  <2>3. Elsewhere("verify") /\ Elsewhere("keys")
    BY Zenon DEF Elsewhere
  <2> QED
    BY <1>3, <1>5, <2>1, <2>2, <2>3, Zenon
<1>7. ASSUME Verify(c) PROVE GoesElsewhere(c) /\ client[c].pc # "drop" /\ UNCHANGED <<now, keyVars>>
  <2>1. client[c].pc = "verify" /\ UNCHANGED <<now, keyVars>>
    BY <1>7, Zenon DEF Verify
  <2>2. (\E err : Fails(c, err)) \/ (\E o : Ends(c, o)) \/ client' = [client EXCEPT ![c].pc = "sweep", ![c].at = now]
    BY <1>7, Zenon DEF Verify
  <2>3. CASE client' = [client EXCEPT ![c].pc = "sweep", ![c].at = now]
    <3> DEFINE l == [client[c] EXCEPT !.pc = "sweep", !.at = now]
    <3>1. client' = [client EXCEPT ![c] = l]
      BY <2>3, Zenon DEF ClientsOk
    <3>2. l.pc = "sweep"
      BY <1>2, <2>1, Zenon DEF LocalOk, Fields
    <3> HIDE DEF l
    <3>3. Elsewhere(l.pc)
      BY <3>2, Zenon DEF Elsewhere
    <3> QED
      BY <2>1, <3>1, <3>3, Zenon DEF GoesElsewhere
  <2> QED
    BY <1>3, <1>4, <2>1, <2>2, <2>3, Zenon
<1>8. ASSUME Sweep(c) PROVE GoesElsewhere(c) /\ client[c].pc # "drop" /\ UNCHANGED <<now, keyVars>>
  <2>1. client[c].pc = "sweep" /\ UNCHANGED <<now, keyVars>>
    BY <1>8, Zenon DEF Sweep
  <2>2. GoesElsewhere(c)
    <3> DEFINE l == [client[c] EXCEPT !.pc = "record", !.full = Live >= ReplayCapacity]
    <3>1. client' = [client EXCEPT ![c] = l]
      BY <1>8, Zenon DEF Sweep, ClientsOk
    <3>2. l.pc = "record"
      BY <1>2, <2>1, Zenon DEF LocalOk, Fields
    <3> HIDE DEF l
    <3>3. Elsewhere(l.pc)
      BY <3>2, Zenon DEF Elsewhere
    <3> QED
      BY <3>1, <3>3, Zenon DEF GoesElsewhere
  <2> QED
    BY <2>1, <2>2, Zenon
<1>9. ASSUME Record(c) PROVE GoesElsewhere(c) /\ client[c].pc # "drop" /\ UNCHANGED <<now, keyVars>>
  BY <1>4, <1>9, Zenon DEF Record
<1>10. ASSUME RefreshSession(c) PROVE GoesElsewhere(c) /\ client[c].pc # "drop" /\ UNCHANGED <<now, keyVars>>
  <2>1. client[c].pc = "refresh" /\ UNCHANGED <<now, keyVars>>
    BY <1>10, Zenon DEF RefreshSession
  <2>2. \/ \E o : Ends(c, o)
        \/ Moves(c, "refreshing")
        \/ \E t : client' = [client EXCEPT ![c].pc = "header", ![c].refreshed = TRUE, ![c].second = FALSE, ![c].token = t]
    BY <1>10, Zenon DEF RefreshSession
  <2>3. ASSUME NEW t, client' = [client EXCEPT ![c].pc = "header", ![c].refreshed = TRUE, ![c].second = FALSE, ![c].token = t]
        PROVE  GoesElsewhere(c)
    <3> DEFINE l == [client[c] EXCEPT !.pc = "header", !.refreshed = TRUE, !.second = FALSE, !.token = t]
    <3>1. client' = [client EXCEPT ![c] = l]
      BY <2>3, Zenon DEF ClientsOk
    <3>2. l.pc = "header"
      BY <1>2, <2>1, Zenon DEF LocalOk, Fields
    <3> HIDE DEF l
    <3>3. Elsewhere(l.pc)
      BY <3>2, Zenon DEF Elsewhere
    <3> QED
      BY <3>1, <3>3, Zenon DEF GoesElsewhere
  <2>4. Elsewhere("refreshing")
    BY Zenon DEF Elsewhere
  <2> QED
    BY <1>4, <1>5, <2>1, <2>2, <2>3, <2>4, Zenon
<1> QED
  BY <1>1, <1>6, <1>7, <1>8, <1>9, <1>10, Zenon

LEMMA QuietStep ==
  ASSUME FetchInv, ClientsOk, NEW c \in Clients, GoesElsewhere(c), client[c].pc # "drop",
         UNCHANGED <<now, key_set, fetch_fails, refetches, extra>>
  PROVE  FetchInv'
<1>1. PICK l : Elsewhere(l.pc) /\ client' = [client EXCEPT ![c] = l]
  BY Zenon DEF GoesElsewhere
<1>2. l.pc # "drop" /\ l.pc # "fetch"
  BY <1>1, Zenon DEF Elsewhere
<1>3. Dropping' = Dropping /\ Fetching' \subseteq Fetching
  BY <1>1, <1>2, OneMoves, Zenon
<1>4. Fetching' # {} => Fetching # {}
  BY <1>3, Zenon
<1> QED
  BY <1>3, <1>4, FetchKept, Zenon

(* The steps that concern the key set. *)
LEMMA LookUpStep == ASSUME FetchInv, ClientsOk, NEW c \in Clients, LookUpKeys(c) PROVE FetchInv'
<1>1. client[c].pc = "keys" /\ LocalOk(client[c]) /\ UNCHANGED <<now, key_set, fetch_fails, refetches, extra>>
  BY Zenon DEF LookUpKeys, ClientsOk, keyVars
<1>2. client[c].pc # "idle" /\ client[c].pc # "drop"
  BY <1>1, Zenon
<1>3. \/ client' = [client EXCEPT ![c] = [client[c] EXCEPT !.pc = "found", !.found = key_set]]
      \/ client' = [client EXCEPT ![c] = AfterError(client[c], "transport")]
      \/ key_set = NoKeySet /\ ~fetch_fails /\ client' = [client EXCEPT ![c] = [client[c] EXCEPT !.pc = "fetch"]]
  BY Zenon DEF LookUpKeys, Fails, Moves, ClientsOk
<1>4. CASE client' = [client EXCEPT ![c] = [client[c] EXCEPT !.pc = "found", !.found = key_set]]
  <2>1. [client[c] EXCEPT !.pc = "found", !.found = key_set].pc = "found"
    BY <1>1, <1>2, Zenon DEF LocalOk, Fields
  <2>2. Elsewhere([client[c] EXCEPT !.pc = "found", !.found = key_set].pc)
    BY <2>1, Zenon DEF Elsewhere
  <2> QED
    BY <1>1, <1>2, <1>4, <2>2, QuietStep, Zenon DEF GoesElsewhere
<1>5. CASE client' = [client EXCEPT ![c] = AfterError(client[c], "transport")]
  <2>1. Elsewhere(AfterError(client[c], "transport").pc)
    BY <1>1, <1>2, AfterErrorPc, Zenon DEF Elsewhere
  <2> QED
    BY <1>1, <1>2, <1>5, <2>1, QuietStep, Zenon DEF GoesElsewhere
<1>6. CASE key_set = NoKeySet /\ ~fetch_fails /\ client' = [client EXCEPT ![c] = [client[c] EXCEPT !.pc = "fetch"]]
  <2>1. [client[c] EXCEPT !.pc = "fetch"].pc = "fetch"
    BY <1>1, <1>2, MovedPc, Zenon
  <2>2. Dropping' = Dropping
    BY <1>2, <1>6, <2>1, OneMoves, Zenon
  <2> QED
    BY <1>1, <1>6, <2>2, FetchKept, Zenon
<1> QED
  BY <1>3, <1>4, <1>5, <1>6, Zenon

LEMMA FindStep == ASSUME FetchInv, ClientsOk, NEW c \in Clients, FindKey(c) PROVE FetchInv'
<1>1. client[c].pc = "found" /\ LocalOk(client[c]) /\ UNCHANGED <<now, key_set, fetch_fails, extra>>
  BY Zenon DEF FindKey, ClientsOk
<1>2. client[c].pc # "idle" /\ client[c].pc # "drop" /\ client[c].pc # "fetch"
  BY <1>1, Zenon
<1>3. \/ claim_refetch /\ refetches' = now /\ client' = [client EXCEPT ![c].pc = "drop", ![c].second = TRUE]
      \/ refetches' = refetches /\ ((\E err : Fails(c, err)) \/ Moves(c, "verify"))
  BY Zenon DEF FindKey
<1>4. CASE refetches' = refetches /\ \E err : Fails(c, err)
  <2>1. PICK err : client' = [client EXCEPT ![c] = AfterError(client[c], err)]
    BY <1>4, Zenon DEF Fails
  <2>2. Elsewhere(AfterError(client[c], err).pc)
    BY <1>1, <1>2, AfterErrorPc, Zenon DEF Elsewhere
  <2> QED
    BY <1>1, <1>2, <1>4, <2>1, <2>2, QuietStep, Zenon DEF GoesElsewhere
<1>5. CASE refetches' = refetches /\ Moves(c, "verify")
  <2>1. client' = [client EXCEPT ![c] = [client[c] EXCEPT !.pc = "verify"]]
    BY <1>5, Zenon DEF Moves
  <2>2. Elsewhere([client[c] EXCEPT !.pc = "verify"].pc)
    BY <1>1, <1>2, MovedPc, Zenon DEF Elsewhere
  <2> QED
    BY <1>1, <1>2, <1>5, <2>1, <2>2, QuietStep, Zenon DEF GoesElsewhere
<1>6. CASE claim_refetch /\ refetches' = now /\ client' = [client EXCEPT ![c].pc = "drop", ![c].second = TRUE]
  <2> DEFINE l == [client[c] EXCEPT !.pc = "drop", !.second = TRUE]
  <2>1. client' = [client EXCEPT ![c] = l]
    BY <1>6, Zenon DEF ClientsOk
  <2>2. l.pc = "drop"
    BY <1>1, <1>2, Zenon DEF LocalOk, Fields
  <2> HIDE DEF l
  <2>3. client'[c] = l /\ \A d \in Clients \ {c} : client'[d] = client[d]
    BY <2>1, Zenon DEF ClientsOk
  <2>4. Dropping' = Dropping \cup {c} /\ c \notin Dropping /\ Fetching' \subseteq Fetching
    BY <1>2, <2>2, <2>3, Zenon DEF Dropping, Fetching
  <2>5. Cardinality(Dropping') = Cardinality(Dropping) + 1 /\ Cardinality(Dropping) \in Nat
    BY <2>4, DroppingCount, FS_AddElement, Zenon
  <2>6. Needed' = Needed /\ Needed \in {0, 1} /\ Owed \in Int /\ refetches \in Int /\ extra \in Int
    BY <1>1, FetchTypes, Zenon DEF Needed, FetchInv
  <2>7. Owed' = Owed + 1
    BY <1>1, <2>5, <2>6 DEF Owed
  <2>8. refetches = Never \/ now - refetches >= KEY_REFETCH_COOLDOWN
    BY <1>6, Zenon DEF claim_refetch
  <2>9. now \in Nat /\ now >= 1 /\ Bounded(Owed, refetches)
    BY Zenon DEF FetchInv
  <2>10. Bounded(Owed + 1, now)
    BY <2>6, <2>8, <2>9, OneMoreOwed, Zenon
  <2>11. Bounded(Owed, refetches)'
    BY <1>6, <2>7, <2>10, Zenon DEF Bounded, Never
  <2>12. refetches' \in Nat /\ refetches' <= now'
    BY <1>1, <1>6, <2>9
  <2>13. Fetching' # {} => key_set' = NoKeySet /\ ~fetch_fails'
    BY <1>1, <2>4, Zenon DEF FetchInv
  <2> QED
    BY <1>1, <2>6, <2>9, <2>11, <2>12, <2>13, Zenon DEF FetchInv, Never
<1> QED
  BY <1>3, <1>4, <1>5, <1>6, Zenon

(* What is owed does not grow, and the stamp stays. *)
LEMMA NotMoreOwed ==
  ASSUME FetchInv, UNCHANGED <<now, refetches>>, extra' \in Int, Owed' \in Int, Owed' <= Owed,
         Fetching' # {} => key_set' = NoKeySet /\ ~fetch_fails'
  PROVE  FetchInv'
<1>1. Owed \in Int /\ refetches \in Int /\ Bounded(Owed, refetches)
  BY FetchTypes, Zenon DEF FetchInv
<1>2. Bounded(Owed', refetches)
  BY <1>1, FewerOwed, Zenon
<1>3. Bounded(Owed, refetches)'
  BY <1>2, Zenon DEF Bounded, Never
<1> QED
  BY <1>3, Zenon DEF FetchInv, Never

LEMMA DropStep == ASSUME FetchInv, ClientsOk, NEW c \in Clients, DropKeys(c) PROVE FetchInv'
<1>1. /\ client[c].pc = "drop" /\ LocalOk(client[c]) /\ key_set' = NoKeySet
      /\ UNCHANGED <<now, fetch_fails, refetches, extra>>
      /\ client' = [client EXCEPT ![c] = [client[c] EXCEPT !.pc = "keys"]]
  BY Zenon DEF DropKeys, Moves, ClientsOk
<1>2. [client[c] EXCEPT !.pc = "keys"].pc = "keys"
  BY <1>1, MovedPc, Zenon
<1>3. client'[c].pc = "keys" /\ \A d \in Clients \ {c} : client'[d] = client[d]
  BY <1>1, <1>2, Zenon DEF ClientsOk
<1>4. Dropping' = Dropping \ {c} /\ c \in Dropping /\ Fetching' \subseteq Fetching
  BY <1>1, <1>3, Zenon DEF Dropping, Fetching
<1>5. Cardinality(Dropping') = Cardinality(Dropping) - 1 /\ Cardinality(Dropping) \in Nat
  BY <1>4, DroppingCount, FS_RemoveElement, Zenon
<1>6. Needed \in {0, 1} /\ Needed' \in {0, 1} /\ extra \in Int
  BY FetchTypes, Zenon DEF Needed, FetchInv
<1>7. Owed' \in Int /\ Owed' <= Owed
  BY <1>1, <1>5, <1>6 DEF Owed
<1>8. Fetching' # {} => key_set' = NoKeySet /\ ~fetch_fails'
  BY <1>1, <1>4, Zenon DEF FetchInv
<1> QED
  BY <1>1, <1>6, <1>7, <1>8, NotMoreOwed, Zenon

LEMMA FetchStep == ASSUME FetchInv, ClientsOk, NEW ok \in BOOLEAN, FetchKeys(ok) PROVE FetchInv'
<1> DEFINE fetched == [kids |-> published, fetched_at |-> now]
           After(l) == IF ok THEN [l EXCEPT !.pc = "found", !.found = fetched] ELSE AfterError(l, "transport")
<1>1. /\ Fetching # {} /\ UNCHANGED <<now, refetches>> /\ extra' = extra + 1
      /\ key_set' = (IF ok THEN fetched ELSE key_set) /\ fetch_fails' = ~ok
      /\ client' = [c \in Clients |-> IF client[c].pc = "fetch" THEN After(client[c]) ELSE client[c]]
  BY Zenon DEF FetchKeys, Fetching
<1>2. key_set = NoKeySet /\ ~fetch_fails /\ now \in Nat /\ extra \in Int
  BY <1>1, Zenon DEF FetchInv
<1>3. fetched # NoKeySet
  <2>1. fetched.fetched_at # NoKeySet.fetched_at
    BY <1>2 DEF NoKeySet, Never
  <2> QED
    BY <2>1, Zenon
<1>4. ASSUME NEW c \in Clients, client[c].pc = "fetch" PROVE Elsewhere(After(client[c]).pc)
  <2>1. LocalOk(client[c]) /\ client[c].pc # "idle"
    BY <1>4, Zenon DEF ClientsOk
  <2>2. CASE ok
    <3>1. [client[c] EXCEPT !.pc = "found", !.found = fetched].pc = "found"
      BY <2>1, Zenon DEF LocalOk, Fields
    <3> QED
      BY <2>2, <3>1, Zenon DEF Elsewhere
  <2>3. CASE ~ok
    BY <2>1, <2>3, AfterErrorPc, Zenon DEF Elsewhere
  <2> QED
    BY <2>2, <2>3, Zenon
<1> HIDE DEF After
<1>5. Fetching' = {}
  BY <1>1, <1>4, Zenon DEF Fetching, Elsewhere
<1>6. Dropping' = Dropping
  BY <1>1, <1>4, Zenon DEF Dropping, Elsewhere
<1>7. Needed = 1 /\ Needed' = 0
  BY <1>1, <1>2, <1>3, Zenon DEF Needed
<1>8. Owed' \in Int /\ Owed' <= Owed
  BY <1>1, <1>2, <1>6, <1>7, DroppingCount DEF Owed
<1>9. extra' \in Int
  BY <1>1, <1>2
<1> QED
  BY <1>1, <1>5, <1>8, <1>9, NotMoreOwed, Zenon

LEMMA ForgetStep == ASSUME FetchInv, Forget PROVE FetchInv'
<1>1. UNCHANGED <<now, refetches>> /\ Dropping' = Dropping /\ Fetching' = Fetching
  BY Zenon DEF Forget, Dropping, Fetching
<1>2. Needed \in {0, 1} /\ Needed' \in {0, 1} /\ extra \in Int /\ Cardinality(Dropping) \in Nat
  BY DroppingCount, Zenon DEF Needed, FetchInv
<1>3. CASE UNCHANGED <<key_set, fetch_fails, extra>>
  BY <1>1, <1>3, FetchKept, Zenon
<1>4. CASE extra' = extra - 1 /\ (key_set' = NoKeySet \/ UNCHANGED key_set) /\ (~fetch_fails' \/ UNCHANGED fetch_fails)
  <2>1. Owed' \in Int /\ Owed' <= Owed /\ extra' \in Int
    BY <1>1, <1>2, <1>4 DEF Owed
  <2>2. Fetching' # {} => key_set' = NoKeySet /\ ~fetch_fails'
    BY <1>1, <1>4, Zenon DEF FetchInv
  <2> QED
    BY <1>1, <2>1, <2>2, NotMoreOwed, Zenon
<1> QED
  BY <1>3, <1>4, Zenon DEF Forget

LEMMA AnsweredStep == ASSUME FetchInv, ClientsOk, NEW t, NEW o, RefreshAnswered(t, o) PROVE FetchInv'
<1> DEFINE Answered(c) == client[c].pc = "refreshing" /\ client[c].tokens.refresh = t
           After(l) == [l EXCEPT !.pc = "refresh"]
<1>1. /\ client' = [c \in Clients |-> IF Answered(c) THEN After(client[c]) ELSE client[c]]
      /\ UNCHANGED <<now, key_set, fetch_fails, refetches, extra>>
  BY Zenon DEF RefreshAnswered, keyVars
<1>2. ASSUME NEW c \in Clients, Answered(c) PROVE client[c].pc = "refreshing" /\ After(client[c]).pc = "refresh"
  BY <1>2, MovedPc, Zenon DEF ClientsOk
<1> HIDE DEF After, Answered
<1>3. Dropping' = Dropping /\ Fetching' = Fetching
  BY <1>1, <1>2, Zenon DEF Dropping, Fetching
<1> QED
  BY <1>1, <1>3, FetchKept, Zenon

LEMMA FetchInvInit == AuthInit => FetchInv
<1> SUFFICES ASSUME AuthInit PROVE FetchInv
  BY Zenon
<1>1. \A c \in Clients : client[c].pc = "idle"
  BY Zenon DEF AuthInit, Waiting
<1>2. Dropping = {} /\ Fetching = {}
  BY <1>1, Zenon DEF Dropping, Fetching
<1>3. Cardinality(Dropping) = 0
  BY <1>2, FS_EmptySet, Zenon
<1>4. extra \in Int /\ extra + Needed = 0
  <2>1. CASE key_set = NoKeySet
    BY <2>1 DEF AuthInit, Needed
  <2>2. CASE key_set # NoKeySet
    BY <2>2 DEF AuthInit, Needed
  <2> QED
    BY <2>1, <2>2, Zenon
<1>5. Owed = 0
  BY <1>3, <1>4 DEF Owed
<1>6. now \in Nat /\ now >= 1 /\ refetches = Never
  BY DEF AuthInit
<1>7. Bounded(Owed, refetches)
  BY <1>5, <1>6 DEF Bounded
<1> QED
  BY <1>2, <1>4, <1>6, <1>7, Zenon DEF FetchInv

LEMMA FetchInvStep == AuthInv /\ FetchInv /\ [AuthNext]_authVars => FetchInv'
<1> SUFFICES ASSUME ClientsOk, FetchInv, [AuthNext]_authVars PROVE FetchInv'
  BY Zenon DEF AuthInv
<1>1. ASSUME NEW c \in Clients,
             \/ \E i \in mix.of : Begin(c, i)
             \/ DecodeHeader(c) \/ Verify(c) \/ Sweep(c) \/ Record(c) \/ RefreshSession(c)
      PROVE  FetchInv'
  <2>1. GoesElsewhere(c) /\ client[c].pc # "drop" /\ UNCHANGED <<now, keyVars>>
    BY <1>1, GoesOn, Zenon
  <2> QED
    BY <2>1, QuietStep, Zenon DEF keyVars
<1>2. CASE Pass
  <2>1. Dropping' = Dropping /\ Fetching' = Fetching
    BY <1>2, Zenon DEF Pass, Dropping, Fetching
  <2> QED
    BY <1>2, <2>1, FetchKept, Zenon DEF Pass, keyVars
<1>3. CASE Rotate \/ UNCHANGED authVars
  <2>1. UNCHANGED <<now, client, key_set, fetch_fails, refetches, extra>>
    BY <1>3, Zenon DEF Rotate, authVars, keyVars
  <2>2. Dropping' = Dropping /\ Fetching' = Fetching
    BY <2>1, Zenon DEF Dropping, Fetching
  <2> QED
    BY <2>1, <2>2, FetchKept, Zenon
<1> QED
  BY <1>1, <1>2, <1>3, LookUpStep, FindStep, DropStep, FetchStep, AnsweredStep, ForgetStep, Zenon DEF AuthNext

(* OAuthClient fetches the key set for unknown key ids at most once in every   *)
(* cooldown: a claim adds one fetch to those that are owed or made, and stamps *)
(* the clock that the next claim has to be a cooldown away from.               *)
THEOREM FetchSafety == AuthSpec => []FetchesBounded
<1>1. FetchInv => FetchesBounded
  <2> SUFFICES ASSUME FetchInv PROVE FetchesBounded
    BY Zenon
  <2> DEFINE C == KEY_REFETCH_COOLDOWN
  <2>1. extra \in Int /\ Owed \in Int /\ extra <= Owed /\ refetches \in Int /\ Bounded(Owed, refetches) /\ C \in Nat
    BY FetchTypes, AuthAssumption, Zenon DEF FetchInv
  <2>2. Bounded(extra, refetches)
    BY <2>1, FewerOwed, Zenon
  <2>3. now \in Nat /\ now >= 1
    BY Zenon DEF FetchInv
  <2>4. CASE refetches = Never
    <3>1. extra <= 1
      BY <2>1, <2>2, <2>4 DEF Bounded
    <3>2. Bounded(1, now)
      <4>1. (1 - 1) * C <= now - 1 /\ now # Never
        BY <2>1, <2>3 DEF Never
      <4> QED
        BY <4>1, Zenon DEF Bounded
    <3>3. Bounded(extra, now) /\ now # Never
      BY <2>1, <2>3, <3>1, <3>2, FewerOwed DEF Never
    <3> QED
      BY <3>3, Zenon DEF Bounded, FetchesBounded
  <2>5. CASE refetches # Never
    <3>1. (extra - 1) * C <= refetches - 1 /\ refetches <= now
      BY <2>2, <2>5, Zenon DEF Bounded, FetchInv
    <3>2. (extra - 1) * C \in Int
      BY <2>1
    <3> HIDE DEF C
    <3>3. (extra - 1) * C <= now - 1
      BY <2>1, <2>3, <3>1, <3>2
    <3> QED
      BY <3>3, Zenon DEF FetchesBounded, C
  <2> QED
    BY <2>4, <2>5, Zenon
<1>2. AuthInv /\ [AuthNext]_authVars => AuthInv'
  BY ClientsStep, ReplayStep, Zenon DEF AuthInv
<1> QED
  BY <1>1, <1>2, AuthInvInit, FetchInvInit, FetchInvStep, PTL DEF AuthSpec
=============================================================================
