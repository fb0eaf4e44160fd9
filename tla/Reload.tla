------------------------------- MODULE Reload -------------------------------
(***************************************************************************)
(* AppState::reload (ophan/src/state.rs) with load_config                  *)
(* (ophan/src/config/dsl/loader.rs) and the files' modification times      *)
(* (ConfigFileTracker, config/dsl/mod.rs), while an operator edits the     *)
(* files.  SIGHUPs are handled one at a time (sys/unix_signal.rs).  Every  *)
(* read of a file and every stat is a step.                                *)
(*                                                                         *)
(* The master file includes every gateway file that exists; a gateway file *)
(* defines one gateway.  What matters of a file's content: whether it      *)
(* parses and compiles, whether AppContext::build accepts it, the sockets  *)
(* it needs (listeners of a gateway, the metrics block of the master) and  *)
(* the weight of a server.                                                 *)
(***************************************************************************)
EXTENDS Integers, FiniteSets

CONSTANTS
  Gateways,        \* gateway files
  Contents,        \* contents a file may get
  MaxMtime         \* bound on modification times: changes of files

Content == [parses : BOOLEAN, builds : BOOLEAN, sockets : Nat, weight : Nat]

Master == "master"
Files == Gateways \cup {Master}

Absent == [parses |-> FALSE, builds |-> FALSE, sockets |-> 0, weight |-> 0]
NoTracker == -1

ASSUME ReloadAssumption ==
  /\ Master \notin Gateways
  /\ IsFiniteSet(Gateways)
  /\ Contents \subseteq Content \ {Absent}
  /\ MaxMtime \in Nat

VARIABLES
  disk,      \* disk[f]: content of file f, or Absent
  clock,     \* the modification time of the last change
  mtime,     \* mtime[f]: the modification time of f
  config,    \* AppState.config: config[f] is the content f was loaded with
  tracker,   \* tracker[f]: last_mtime of f's tracker, or NoTracker
  context,   \* context[g]: the content the gateway's current context was built from
  weight,    \* weight[g]: Backend.weight of g's server, shared by its contexts
  pc,        \* step of reload_inner
  left,      \* files or gateways the current loop still has to visit
  draft,     \* draft[f]: what load_config read, Absent if not included
  drafted,   \* drafted[f]: the trackers load_config made
  outcome,   \* ReloadOutcome of the last reload
  quiet,     \* history: no file changed since the last reload began
  hazards    \* history: "racing", a file changed while a reload read the files;
             \*   "added" and "removed", a gateway file was created or removed;
             \*   "restored", one was put back with an old modification time and
             \*   none has been edited since

files == <<disk, clock, mtime, quiet, hazards>>
vars == <<files, config, tracker, context, weight, pc, left, draft, drafted, outcome>>

Steps == {"idle", "changed", "readMaster", "statMaster", "include", "read", "stat",
          "build", "swap"}

Included(c) == {g \in Gateways : c[g] # Absent}

TypeOK ==
  /\ disk \in [Files -> Contents \cup {Absent}]
  /\ clock \in 0 .. MaxMtime
  /\ mtime \in [Files -> 0 .. MaxMtime]
  /\ config \in [Files -> Contents \cup {Absent}]
  /\ tracker \in [Files -> {NoTracker} \cup 0 .. MaxMtime]
  /\ context \in [Gateways -> Contents \cup {Absent}]
  /\ weight \in [Gateways -> Nat]
  /\ pc \in Steps
  /\ left \in SUBSET Gateways
  /\ draft \in [Files -> Contents \cup {Absent}]
  /\ drafted \in [Files -> {NoTracker} \cup 0 .. MaxMtime]
  /\ outcome \in {"NoChange", "Swapped", "NeedsUpgrade"}
  /\ quiet \in BOOLEAN
  /\ hazards \subseteq {"racing", "added", "removed", "restored"}

NoDraft == [f \in Files |-> Absent]
NoTrackers == [f \in Files |-> NoTracker]

(* The process started from files that load and build. *)
Init ==
  /\ disk \in [Files -> {c \in Contents : c.parses /\ c.builds} \cup {Absent}]
  /\ disk[Master] # Absent
  /\ clock = 0
  /\ mtime = [f \in Files |-> 0]
  /\ config = disk
  /\ tracker = [f \in Files |-> IF disk[f] = Absent THEN NoTracker ELSE 0]
  /\ context = [g \in Gateways |-> disk[g]]
  /\ weight = [g \in Gateways |-> disk[g].weight]
  /\ pc = "idle"
  /\ left = {}
  /\ draft = NoDraft
  /\ drafted = NoTrackers
  /\ outcome = "NoChange"
  /\ quiet = TRUE
  /\ hazards = {}
-----------------------------------------------------------------------------
(* The operator edits a file in place, creates or removes a gateway file.  A *)
(* write gives the file a later modification time than any had.              *)
Change(f, c, time, seen) ==
  /\ clock < MaxMtime
  /\ disk' = [disk EXCEPT ![f] = c]
  /\ clock' = clock + 1
  /\ mtime' = [mtime EXCEPT ![f] = time]
  /\ quiet' = FALSE
  /\ hazards' = seen \cup (IF pc = "idle" THEN {} ELSE {"racing"})
  /\ UNCHANGED <<config, tracker, context, weight, pc, left, draft, drafted, outcome>>

Edit(f) ==
  /\ disk[f] # Absent
  /\ \E c \in Contents \ {disk[f]} : Change(f, c, clock + 1, hazards \ {"restored"})

(* A file put back with the modification time it had at the start. *)
Restore(f) ==
  /\ disk[f] # Absent
  /\ \E c \in Contents \ {disk[f]} : Change(f, c, 0, hazards \cup {"restored"})

Create(g) ==
  /\ disk[g] = Absent
  /\ \E c \in Contents : Change(g, c, clock + 1, hazards \cup {"added"})

Remove(g) == disk[g] # Absent /\ Change(g, Absent, clock + 1, hazards \cup {"removed"})

-----------------------------------------------------------------------------
HasChanged(f) == tracker[f] # NoTracker /\ disk[f] # Absent /\ mtime[f] > tracker[f]

(* Slip: only the gateway files are looked at. *)
AnyGatewayChanged == \E g \in Gateways : HasChanged(g)

AnyFileChanged == \E f \in Files : HasChanged(f)

Loading == UNCHANGED <<files, config, tracker, context, weight, outcome>>

(* Every return of reload_inner: the parsed configuration is dropped. *)
Return(o) ==
  /\ pc' = "idle"
  /\ outcome' = o
  /\ left' = {}
  /\ draft' = NoDraft
  /\ drafted' = NoTrackers
  /\ UNCHANGED files

(* SIGHUP starts a reload. *)
Hangup ==
  /\ pc = "idle"
  /\ pc' = "changed"
  /\ quiet' = TRUE
  /\ UNCHANGED <<disk, clock, mtime, hazards, config, tracker, context, weight, left, draft, drafted, outcome>>

NoFileChanged ==
  /\ pc = "changed"
  /\ ~AnyFileChanged
  /\ Return("NoChange")
  /\ UNCHANGED <<config, tracker, context, weight>>

SomeFileChanged ==
  /\ pc = "changed"
  /\ AnyFileChanged
  /\ pc' = "readMaster"
  /\ Loading
  /\ UNCHANGED <<left, draft, drafted>>

ReadMaster ==
  /\ pc = "readMaster"
  /\ disk[Master].parses
  /\ pc' = "statMaster"
  /\ draft' = [draft EXCEPT ![Master] = disk[Master]]
  /\ Loading
  /\ UNCHANGED <<left, drafted>>

StatMaster ==
  /\ pc = "statMaster"
  /\ pc' = "include"
  /\ drafted' = [drafted EXCEPT ![Master] = mtime[Master]]
  /\ Loading
  /\ UNCHANGED <<left, draft>>

ResolveIncludes ==
  /\ pc = "include"
  /\ pc' = "read"
  /\ left' = Included(disk)
  /\ Loading
  /\ UNCHANGED <<draft, drafted>>

ReadGateway(g) ==
  /\ pc = "read"
  /\ g \in left
  /\ disk[g] # Absent
  /\ draft' = [draft EXCEPT ![g] = disk[g]]
  /\ left' = left \ {g}
  /\ Loading
  /\ UNCHANGED <<pc, drafted>>

(* parse_raw_gateway of every file read, then compile. *)
Compile ==
  /\ pc = "read"
  /\ left = {}
  /\ \A g \in Included(draft) : draft[g].parses
  /\ pc' = "stat"
  /\ left' = Included(draft)
  /\ Loading
  /\ UNCHANGED <<draft, drafted>>

(* A file that does not exist any more gets no tracker. *)
StatGateway(g) ==
  /\ pc = "stat"
  /\ g \in left
  /\ left' = left \ {g}
  /\ drafted' = [drafted EXCEPT ![g] = IF disk[g] = Absent THEN NoTracker ELSE mtime[g]]
  /\ Loading
  /\ UNCHANGED <<pc, draft>>

(* load_config fails: a file is gone, or does not parse or compile. *)
LoadFails ==
  /\ \/ pc = "readMaster" /\ ~disk[Master].parses
     \/ pc = "read" /\ \E g \in left : disk[g] = Absent
     \/ pc = "read" /\ left = {} /\ \E g \in Included(draft) : ~draft[g].parses
  /\ Return("NoChange")
  /\ UNCHANGED <<config, tracker, context, weight>>

(* Gateways, listeners and the metrics block cannot change in place. *)
NeedsUpgrade(old, new) ==
  \/ Included(old) # Included(new)
  \/ \E f \in Included(new) \cup {Master} : old[f].sockets # new[f].sockets

AskForUpgrade ==
  /\ pc = "stat"
  /\ left = {}
  /\ NeedsUpgrade(config, draft)
  /\ Return("NeedsUpgrade")
  /\ UNCHANGED <<config, tracker, context, weight>>

(* Slip: the configuration is stored before the contexts are built. *)
StartBuildStored ==
  /\ pc = "stat"
  /\ left = {}
  /\ ~NeedsUpgrade(config, draft)
  /\ pc' = "build"
  /\ left' = Included(draft)
  /\ config' = draft
  /\ UNCHANGED <<files, tracker, context, weight, draft, drafted, outcome>>

StartBuild ==
  /\ pc = "stat"
  /\ left = {}
  /\ ~NeedsUpgrade(config, draft)
  /\ pc' = "build"
  /\ left' = Included(draft)
  /\ Loading
  /\ UNCHANGED <<draft, drafted>>

(* AppContext::build carries the server's Backend over and sets its weight. *)
Build(g) ==
  /\ pc = "build"
  /\ g \in left
  /\ draft[g].builds
  /\ left' = left \ {g}
  /\ weight' = [weight EXCEPT ![g] = draft[g].weight]
  /\ UNCHANGED <<files, config, tracker, context, pc, draft, drafted, outcome>>

BuildFails(g) ==
  /\ pc = "build"
  /\ g \in left
  /\ ~draft[g].builds
  /\ Return("NoChange")
  /\ UNCHANGED <<config, tracker, context, weight>>

StoreConfig ==
  /\ pc = "build"
  /\ left = {}
  /\ config' = draft
  /\ tracker' = drafted
  /\ pc' = "swap"
  /\ left' = Included(draft)
  /\ UNCHANGED <<files, context, weight, draft, drafted, outcome>>

SwapContext(g) ==
  /\ pc = "swap"
  /\ g \in left
  /\ context' = [context EXCEPT ![g] = draft[g]]
  /\ left' = left \ {g}
  /\ UNCHANGED <<files, config, tracker, weight, pc, draft, drafted, outcome>>

Swapped ==
  /\ pc = "swap"
  /\ left = {}
  /\ Return("Swapped")
  /\ UNCHANGED <<config, tracker, context, weight>>

Next ==
  \/ \E f \in Files : Edit(f) \/ Restore(f)
  \/ \E g \in Gateways :
       \/ Create(g) \/ Remove(g)
       \/ ReadGateway(g) \/ StatGateway(g)
       \/ Build(g) \/ BuildFails(g) \/ SwapContext(g)
  \/ Hangup \/ NoFileChanged \/ SomeFileChanged
  \/ ReadMaster \/ StatMaster \/ ResolveIncludes \/ Compile \/ LoadFails
  \/ AskForUpgrade \/ StartBuild \/ StoreConfig \/ Swapped

Spec == Init /\ [][Next]_vars
-----------------------------------------------------------------------------
Loads(c) ==
  /\ c[Master].parses
  /\ \A g \in Included(c) : c[g].parses /\ c[g].builds

(* Once a reload has returned and no file changed since the SIGHUP, the files *)
(* that load are what runs, or the reload asked for a new process (state.rs,  *)
(* reload: "Re-parse config files and apply changes if safe"), whatever earlier *)
(* reloads failed on, and although a file's time went back (config/dsl/mod.rs, *)
(* has_changed), once a file has been edited after that.  Not so after a file *)
(* changed while a reload read it, or after a gateway file was created or     *)
(* removed: see the README.                                                   *)
ReloadApplies ==
  pc = "idle" /\ quiet /\ hazards = {} /\ Loads(disk) =>
    IF NeedsUpgrade(config, disk) THEN outcome = "NeedsUpgrade" ELSE config = disk

(* Outside the swap itself the stored configuration is the one every gateway's *)
(* context was built from, however a reload ended and whatever the operator did *)
(* meanwhile (reload_inner: "Build all new contexts first"); and once a reload  *)
(* has swapped, the backends have the weights of that configuration.            *)
ContextsMatchConfig ==
  pc # "swap" =>
    \A g \in Gateways :
      /\ context[g] = config[g]
      /\ pc = "idle" /\ outcome = "Swapped" => weight[g] = context[g].weight
=============================================================================
