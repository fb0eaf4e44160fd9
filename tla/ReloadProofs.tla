---------------------------- MODULE ReloadProofs ----------------------------
(***************************************************************************)
(* ReloadApplies and ContextsMatchConfig of module Reload for any gateway  *)
(* files and contents and any number of changes and reloads.               *)
(***************************************************************************)
EXTENDS Reload, TLAPS

(* No modification time is of the future. *)
Timely ==
  \A f \in Files : mtime[f] <= clock /\ tracker[f] <= clock /\ drafted[f] <= clock

(* What load_config has not read or looked at yet. *)
Unread ==
  /\ pc \in {"idle", "changed", "readMaster", "statMaster", "include"} =>
       \A g \in Gateways : draft[g] = Absent
  /\ pc \in {"idle", "changed", "readMaster", "statMaster", "include", "read"} =>
       \A g \in Gateways : drafted[g] = NoTracker
  /\ pc \in {"stat", "build", "swap"} => left \subseteq Included(draft)

(* The tracker load_config makes for f. *)
Mark(f) == IF disk[f] = Absent THEN NoTracker ELSE mtime[f]

(* What it has, as long as no file changed during a reload. *)
ReadSoFar ==
  "racing" \notin hazards =>
    /\ pc \in {"statMaster", "include", "read", "stat", "build", "swap"} => draft[Master] = disk[Master]
    /\ pc \in {"include", "read", "stat", "build", "swap"} => drafted[Master] = mtime[Master]
    /\ pc = "read" => left \subseteq Included(disk) /\ \A g \in Gateways \ left : draft[g] = disk[g]
    /\ pc \in {"stat", "build", "swap"} => \A g \in Gateways : draft[g] = disk[g]
    /\ pc = "stat" => \A g \in Gateways \ left : drafted[g] = Mark(g)
    /\ pc \in {"build", "swap"} => \A g \in Gateways : drafted[g] = Mark(g)
    /\ pc = "swap" => config = disk

(* The trackers are those of the files, and show it when the files are not *)
(* the ones that run.                                                      *)
Noticed ==
  /\ hazards \subseteq {"restored"} =>
       \A f \in Files : tracker[f] = NoTracker <=> disk[f] = Absent
  /\ hazards = {} => AnyFileChanged \/ config = disk

(* The contexts and the weights follow the configuration.                  *)
SwapsWhole ==
  /\ \A g \in Gateways : config[g] = Absent => weight[g] = 0
  /\ pc = "build" =>
       /\ Included(config) = Included(draft)
       /\ \A g \in Gateways \ left : weight[g] = draft[g].weight
  /\ pc = "swap" =>
       /\ config = draft
       /\ \A g \in Gateways : weight[g] = draft[g].weight
       /\ \A g \in Gateways \ left : context[g] = draft[g]

ReloadInv ==
  /\ TypeOK /\ disk[Master] # Absent
  /\ Timely /\ Unread /\ ReadSoFar /\ Noticed /\ SwapsWhole
  /\ ReloadApplies /\ ContextsMatchConfig

(* The process starts with what it loaded. *)
LEMMA ReloadInvInit == Init => ReloadInv
<1> SUFFICES ASSUME Init PROVE ReloadInv
  BY Zenon
<1>1. TypeOK
  BY ReloadAssumption DEF Init, TypeOK, Content, Absent, Files, NoDraft, NoTrackers, Steps
<1>2. Timely
  BY ReloadAssumption DEF Init, Timely, Files, NoTracker, NoTrackers
<1>3. Unread /\ ReadSoFar
  BY Zenon DEF Init, Unread, ReadSoFar, NoDraft, NoTrackers, Files
<1>4. Noticed
  BY DEF Init, Noticed, Files, NoTracker
<1>5. SwapsWhole /\ ContextsMatchConfig
  BY DEF Init, SwapsWhole, ContextsMatchConfig, Absent, Files
<1>6. ReloadApplies
  BY Zenon DEF Init, ReloadApplies, NeedsUpgrade
<1> QED
  BY <1>1, <1>2, <1>3, <1>4, <1>5, <1>6, Zenon DEF Init, ReloadInv

(* A change of a file: its new time is at most the clock's. *)
LEMMA Changed ==
  ASSUME ReloadInv, NEW f \in Files, NEW c \in Contents \cup {Absent}, NEW time \in 0 .. clock + 1,
         NEW seen \in SUBSET {"racing", "added", "removed", "restored"}, Change(f, c, time, seen)
  PROVE  TypeOK' /\ Timely'
<1>1. clock' = clock + 1 /\ clock' \in 0 .. MaxMtime
  BY ReloadAssumption DEF ReloadInv, TypeOK, Change
<1>2. mtime' \in [Files -> 0 .. MaxMtime]
  BY <1>1, ReloadAssumption DEF ReloadInv, TypeOK, Change
<1>3. TypeOK'
  BY <1>1, <1>2, Zenon DEF ReloadInv, TypeOK, Change
<1>4. \A h \in Files : mtime'[h] <= clock + 1 /\ tracker[h] <= clock + 1 /\ drafted[h] <= clock + 1
  <2>1. mtime'[f] = time /\ \A h \in Files \ {f} : mtime'[h] = mtime[h]
    BY Zenon DEF ReloadInv, TypeOK, Change
  <2>2. \A h \in Files : tracker[h] \in Int /\ drafted[h] \in Int /\ mtime[h] \in Int /\ clock \in Int
    BY ReloadAssumption DEF ReloadInv, TypeOK, NoTracker
  <2> QED
    BY <2>1, <2>2 DEF ReloadInv, Timely
<1> QED
  BY <1>1, <1>3, <1>4, Zenon DEF Timely, Change

(* From the stat of the files on the draft is what is on disk. *)
LEMMA AllRead ==
  ASSUME ReloadInv, "racing" \notin hazards, pc \in {"stat", "build", "swap"}
  PROVE  draft = disk
  BY DEF ReloadInv, ReadSoFar, TypeOK, Files

(* Nothing has to change for the configuration that runs. *)
LEMMA Settled == ASSUME NEW c PROVE ~NeedsUpgrade(c, c)
  BY Zenon DEF NeedsUpgrade

(* Every change of a file and every step of a reload keeps ReloadInv. *)
LEMMA ReloadInvStep == ReloadInv /\ [Next]_vars => ReloadInv'
<1> SUFFICES ASSUME ReloadInv, [Next]_vars PROVE ReloadInv'
  BY Zenon
<1>1. ASSUME NEW f \in Files, Edit(f) PROVE ReloadInv'
  <2>1. TypeOK'
    BY <1>1, Changed, ReloadAssumption DEF ReloadInv, TypeOK, Edit, Files
  <2>2. disk'[Master] # Absent
    BY <1>1, ReloadAssumption DEF ReloadInv, Edit, Change, TypeOK, Files
  <2>3. Timely'
    BY <1>1, Changed, ReloadAssumption DEF ReloadInv, TypeOK, Edit, Files
  <2>4. Unread'
    BY <1>1, ReloadAssumption, Zenon DEF ReloadInv, Edit, Change, TypeOK, Unread, Included
  <2>5. ReadSoFar'
    BY <1>1, ReloadAssumption, Zenon DEF ReloadInv, Edit, Change, TypeOK, Unread, ReadSoFar, Included, Mark, Files
  <2>6. Noticed'
    BY <1>1, ReloadAssumption DEF ReloadInv, Edit, Change, TypeOK, Timely, ReadSoFar, Noticed, AnyFileChanged, HasChanged, Files, Mark
  <2>7. SwapsWhole'
    BY <1>1, ReloadAssumption DEF ReloadInv, Edit, Change, TypeOK, Unread, SwapsWhole, Included
  <2>8. ReloadApplies'
    BY <1>1, ReloadAssumption, Zenon DEF ReloadInv, Edit, Change, TypeOK, ReloadApplies, Noticed, ReadSoFar
  <2>9. ContextsMatchConfig'
    BY <1>1, ReloadAssumption, Zenon DEF ReloadInv, Edit, Change, TypeOK, ContextsMatchConfig, SwapsWhole
  <2> QED
    BY <2>1, <2>2, <2>3, <2>4, <2>5, <2>6, <2>7, <2>8, <2>9, Zenon DEF ReloadInv
<1>2. ASSUME NEW f \in Files, Restore(f) PROVE ReloadInv'
  <2>1. TypeOK'
    BY <1>2, Changed, ReloadAssumption DEF ReloadInv, TypeOK, Restore, Files
  <2>2. disk'[Master] # Absent
    BY <1>2, ReloadAssumption DEF ReloadInv, Restore, Change, TypeOK, Files
  <2>3. Timely'
    BY <1>2, Changed, ReloadAssumption DEF ReloadInv, TypeOK, Restore, Files
  <2>4. Unread'
    BY <1>2, ReloadAssumption, Zenon DEF ReloadInv, Restore, Change, TypeOK, Unread, Included
  <2>5. ReadSoFar'
    BY <1>2, ReloadAssumption, Zenon DEF ReloadInv, Restore, Change, TypeOK, Unread, ReadSoFar, Included, Mark, Files
  <2>6. Noticed'
    BY <1>2, ReloadAssumption DEF ReloadInv, Restore, Change, TypeOK, Timely, ReadSoFar, Noticed, AnyFileChanged, HasChanged, Files, Mark
  <2>7. SwapsWhole'
    BY <1>2, ReloadAssumption DEF ReloadInv, Restore, Change, TypeOK, Unread, SwapsWhole, Included
  <2>8. ReloadApplies'
    BY <1>2, ReloadAssumption, Zenon DEF ReloadInv, Restore, Change, TypeOK, ReloadApplies, Noticed, ReadSoFar
  <2>9. ContextsMatchConfig'
    BY <1>2, ReloadAssumption, Zenon DEF ReloadInv, Restore, Change, TypeOK, ContextsMatchConfig, SwapsWhole
  <2> QED
    BY <2>1, <2>2, <2>3, <2>4, <2>5, <2>6, <2>7, <2>8, <2>9, Zenon DEF ReloadInv
<1>3. ASSUME NEW g \in Gateways, Create(g) PROVE ReloadInv'
  <2>1. TypeOK'
    <3>1. g \in Files /\ clock + 1 \in 0 .. clock + 1
          /\ hazards \cup {"added"} \in SUBSET {"racing", "added", "removed", "restored"}
      BY ReloadAssumption DEF ReloadInv, TypeOK, Files
    <3> QED
      BY <1>3, <3>1, Changed, Zenon DEF Create
  <2>2. disk'[Master] # Absent
    BY <1>3, ReloadAssumption, Zenon DEF ReloadInv, Create, Change, TypeOK, Files
  <2>3. Timely'
    <3>1. g \in Files /\ clock + 1 \in 0 .. clock + 1
          /\ hazards \cup {"added"} \in SUBSET {"racing", "added", "removed", "restored"}
      BY ReloadAssumption DEF ReloadInv, TypeOK, Files
    <3> QED
      BY <1>3, <3>1, Changed, Zenon DEF Create
  <2>4. Unread'
    BY <1>3, ReloadAssumption, Zenon DEF ReloadInv, Create, Change, TypeOK, Unread, Included
  <2>5. ReadSoFar'
    BY <1>3, ReloadAssumption, Zenon DEF ReloadInv, Create, Change, TypeOK, Unread, ReadSoFar, Included, Mark, Files
  <2>6. Noticed'
    BY <1>3, ReloadAssumption DEF ReloadInv, Create, Change, TypeOK, Timely, ReadSoFar, Noticed, AnyFileChanged, HasChanged, Files, Mark
  <2>7. SwapsWhole'
    BY <1>3, ReloadAssumption DEF ReloadInv, Create, Change, TypeOK, Unread, SwapsWhole, Included
  <2>8. ReloadApplies'
    BY <1>3, ReloadAssumption, Zenon DEF ReloadInv, Create, Change, TypeOK, ReloadApplies, Noticed, ReadSoFar
  <2>9. ContextsMatchConfig'
    BY <1>3, ReloadAssumption, Zenon DEF ReloadInv, Create, Change, TypeOK, ContextsMatchConfig, SwapsWhole
  <2> QED
    BY <2>1, <2>2, <2>3, <2>4, <2>5, <2>6, <2>7, <2>8, <2>9, Zenon DEF ReloadInv
<1>4. ASSUME NEW g \in Gateways, Remove(g) PROVE ReloadInv'
  <2>1. TypeOK'
    <3>1. g \in Files /\ clock + 1 \in 0 .. clock + 1
          /\ hazards \cup {"removed"} \in SUBSET {"racing", "added", "removed", "restored"}
      BY ReloadAssumption DEF ReloadInv, TypeOK, Files
    <3> QED
      BY <1>4, <3>1, Changed, Zenon DEF Remove
  <2>2. disk'[Master] # Absent
    BY <1>4, ReloadAssumption, Zenon DEF ReloadInv, Remove, Change, TypeOK, Files
  <2>3. Timely'
    <3>1. g \in Files /\ clock + 1 \in 0 .. clock + 1
          /\ hazards \cup {"removed"} \in SUBSET {"racing", "added", "removed", "restored"}
      BY ReloadAssumption DEF ReloadInv, TypeOK, Files
    <3> QED
      BY <1>4, <3>1, Changed, Zenon DEF Remove
  <2>4. Unread'
    BY <1>4, ReloadAssumption, Zenon DEF ReloadInv, Remove, Change, TypeOK, Unread, Included
  <2>5. ReadSoFar'
    BY <1>4, ReloadAssumption, Zenon DEF ReloadInv, Remove, Change, TypeOK, Unread, ReadSoFar, Included, Mark, Files
  <2>6. Noticed'
    BY <1>4, ReloadAssumption, Zenon DEF ReloadInv, Remove, Change, TypeOK, Timely, ReadSoFar, Noticed, AnyFileChanged, HasChanged, Files, Mark
  <2>7. SwapsWhole'
    BY <1>4, ReloadAssumption DEF ReloadInv, Remove, Change, TypeOK, Unread, SwapsWhole, Included
  <2>8. ReloadApplies'
    BY <1>4, ReloadAssumption, Zenon DEF ReloadInv, Remove, Change, TypeOK, ReloadApplies, Noticed, ReadSoFar
  <2>9. ContextsMatchConfig'
    BY <1>4, ReloadAssumption, Zenon DEF ReloadInv, Remove, Change, TypeOK, ContextsMatchConfig, SwapsWhole
  <2> QED
    BY <2>1, <2>2, <2>3, <2>4, <2>5, <2>6, <2>7, <2>8, <2>9, Zenon DEF ReloadInv
<1>5. ASSUME NEW g \in Gateways, ReadGateway(g) PROVE ReloadInv'
  <2>1. TypeOK'
    BY <1>5, ReloadAssumption, Zenon DEF ReloadInv, ReadGateway, Loading, files, TypeOK, Steps, Files
  <2>2. disk'[Master] # Absent
    BY <1>5, ReloadAssumption, Zenon DEF ReloadInv, ReadGateway, Loading, files, TypeOK, Files
  <2>3. Timely'
    BY <1>5, ReloadAssumption, Zenon DEF ReloadInv, ReadGateway, Loading, files, TypeOK, Timely, Files
  <2>4. Unread'
    BY <1>5, ReloadAssumption, Zenon DEF ReloadInv, ReadGateway, Loading, files, TypeOK, Unread, Included
  <2>5. ReadSoFar'
    BY <1>5, ReloadAssumption, Zenon DEF ReloadInv, ReadGateway, Loading, files, TypeOK, Unread, ReadSoFar, Included, Mark, Files
  <2>6. Noticed'
    BY <1>5, ReloadAssumption, Zenon DEF ReloadInv, ReadGateway, Loading, files, TypeOK, Timely, ReadSoFar, Noticed, AnyFileChanged, HasChanged, Files, Mark
  <2>7. SwapsWhole'
    BY <1>5, ReloadAssumption, Zenon DEF ReloadInv, ReadGateway, Loading, files, TypeOK, Unread, SwapsWhole, Included
  <2>8. ReloadApplies'
    BY <1>5, ReloadAssumption, Zenon DEF ReloadInv, ReadGateway, Loading, files, TypeOK, ReloadApplies, Noticed, ReadSoFar
  <2>9. ContextsMatchConfig'
    BY <1>5, ReloadAssumption, Zenon DEF ReloadInv, ReadGateway, Loading, files, TypeOK, ContextsMatchConfig, SwapsWhole
  <2> QED
    BY <2>1, <2>2, <2>3, <2>4, <2>5, <2>6, <2>7, <2>8, <2>9, Zenon DEF ReloadInv
<1>6. ASSUME NEW g \in Gateways, StatGateway(g) PROVE ReloadInv'
  <2>1. TypeOK'
    BY <1>6, ReloadAssumption, Zenon DEF ReloadInv, StatGateway, Loading, files, TypeOK, Steps, Files
  <2>2. disk'[Master] # Absent
    BY <1>6, ReloadAssumption, Zenon DEF ReloadInv, StatGateway, Loading, files, TypeOK, Files
  <2>3. Timely'
    <3>1. drafted'[g] <= clock /\ UNCHANGED <<clock, mtime, tracker>> /\ \A f \in Files \ {g} : drafted'[f] = drafted[f]
      BY <1>6, ReloadAssumption DEF ReloadInv, TypeOK, Timely, StatGateway, Loading, files, Files, NoTracker
    <3> QED
      BY <3>1, Zenon DEF ReloadInv, Timely
  <2>4. Unread'
    BY <1>6, ReloadAssumption, Zenon DEF ReloadInv, StatGateway, Loading, files, TypeOK, Unread, Included
  <2>5. ReadSoFar'
    BY <1>6, ReloadAssumption, Zenon DEF ReloadInv, StatGateway, Loading, files, TypeOK, Unread, ReadSoFar, Included, Mark, Files
  <2>6. Noticed'
    BY <1>6, ReloadAssumption, Zenon DEF ReloadInv, StatGateway, Loading, files, TypeOK, Timely, ReadSoFar, Noticed, AnyFileChanged, HasChanged, Files, Mark
  <2>7. SwapsWhole'
    BY <1>6, ReloadAssumption, Zenon DEF ReloadInv, StatGateway, Loading, files, TypeOK, Unread, SwapsWhole, Included
  <2>8. ReloadApplies'
    BY <1>6, ReloadAssumption, Zenon DEF ReloadInv, StatGateway, Loading, files, TypeOK, ReloadApplies, Noticed, ReadSoFar
  <2>9. ContextsMatchConfig'
    BY <1>6, ReloadAssumption, Zenon DEF ReloadInv, StatGateway, Loading, files, TypeOK, ContextsMatchConfig, SwapsWhole
  <2> QED
    BY <2>1, <2>2, <2>3, <2>4, <2>5, <2>6, <2>7, <2>8, <2>9, Zenon DEF ReloadInv
<1>7. ASSUME NEW g \in Gateways, Build(g) PROVE ReloadInv'
  <2>1. TypeOK'
    <3>1. draft[g].weight \in Nat
      BY ReloadAssumption DEF ReloadInv, TypeOK, Content, Absent, Files
    <3> QED
      BY <1>7, <3>1, Zenon DEF ReloadInv, TypeOK, Build, files
  <2>2. disk'[Master] # Absent
    BY <1>7, ReloadAssumption, Zenon DEF ReloadInv, Build, files, TypeOK, Files
  <2>3. Timely'
    BY <1>7, ReloadAssumption, Zenon DEF ReloadInv, Build, files, TypeOK, Timely, Files
  <2>4. Unread'
    BY <1>7, ReloadAssumption, Zenon DEF ReloadInv, Build, files, TypeOK, Unread, Included
  <2>5. ReadSoFar'
    BY <1>7, ReloadAssumption, Zenon DEF ReloadInv, Build, files, TypeOK, Unread, ReadSoFar, Included, Mark, Files
  <2>6. Noticed'
    BY <1>7, ReloadAssumption, Zenon DEF ReloadInv, Build, files, TypeOK, Timely, ReadSoFar, Noticed, AnyFileChanged, HasChanged, Files, Mark
  <2>7. SwapsWhole'
    BY <1>7, ReloadAssumption DEF ReloadInv, Build, files, TypeOK, Unread, SwapsWhole, Included
  <2>8. ReloadApplies'
    BY <1>7, ReloadAssumption, Zenon DEF ReloadInv, Build, files, TypeOK, ReloadApplies, Noticed, ReadSoFar
  <2>9. ContextsMatchConfig'
    BY <1>7, ReloadAssumption, Zenon DEF ReloadInv, Build, files, TypeOK, ContextsMatchConfig, SwapsWhole
  <2> QED
    BY <2>1, <2>2, <2>3, <2>4, <2>5, <2>6, <2>7, <2>8, <2>9, Zenon DEF ReloadInv
<1>8. ASSUME NEW g \in Gateways, BuildFails(g) PROVE ReloadInv'
  <2>1. TypeOK'
    BY <1>8, ReloadAssumption, Zenon DEF ReloadInv, BuildFails, Return, files, TypeOK, NoDraft, NoTrackers, Files, Steps
  <2>2. disk'[Master] # Absent
    BY <1>8, ReloadAssumption, Zenon DEF ReloadInv, BuildFails, Return, files, TypeOK, Files
  <2>3. Timely'
    BY <1>8, ReloadAssumption DEF ReloadInv, BuildFails, Return, files, TypeOK, Timely, Files, NoTrackers, NoTracker
  <2>4. Unread'
    BY <1>8, Zenon DEF BuildFails, Return, Unread, NoDraft, NoTrackers, Files
  <2>5. ReadSoFar'
    BY <1>8, ReloadAssumption, Zenon DEF ReloadInv, BuildFails, Return, files, TypeOK, Unread, ReadSoFar, Included, Mark, Files, NoDraft, NoTrackers
  <2>6. Noticed'
    BY <1>8, ReloadAssumption, Zenon DEF ReloadInv, BuildFails, Return, files, TypeOK, Timely, ReadSoFar, Noticed, AnyFileChanged, HasChanged, Files, Mark
  <2>7. SwapsWhole'
    BY <1>8, ReloadAssumption, Zenon DEF ReloadInv, BuildFails, Return, files, TypeOK, Unread, SwapsWhole, Included
  <2>8. ReloadApplies'
    <3>1. UNCHANGED <<config, disk, hazards>>
      BY <1>8, Zenon DEF BuildFails, Return, files
    <3>2. hazards = {} => draft = disk
      BY <1>8, AllRead, Zenon DEF BuildFails
    <3>3. g \in Included(draft) /\ ~draft[g].builds
      BY <1>8, Zenon DEF ReloadInv, Unread, BuildFails
    <3> QED
      BY <3>1, <3>2, <3>3, Zenon DEF ReloadApplies, Loads
  <2>9. ContextsMatchConfig'
    BY <1>8, ReloadAssumption, Zenon DEF ReloadInv, BuildFails, Return, files, TypeOK, ContextsMatchConfig, SwapsWhole
  <2> QED
    BY <2>1, <2>2, <2>3, <2>4, <2>5, <2>6, <2>7, <2>8, <2>9, Zenon DEF ReloadInv
<1>9. ASSUME NEW g \in Gateways, SwapContext(g) PROVE ReloadInv'
  <2>1. TypeOK'
    BY <1>9, ReloadAssumption, Zenon DEF ReloadInv, SwapContext, files, TypeOK, Steps, Files
  <2>2. disk'[Master] # Absent
    BY <1>9, ReloadAssumption, Zenon DEF ReloadInv, SwapContext, files, TypeOK, Files
  <2>3. Timely'
    BY <1>9, ReloadAssumption, Zenon DEF ReloadInv, SwapContext, files, TypeOK, Timely, Files
  <2>4. Unread'
    BY <1>9, ReloadAssumption, Zenon DEF ReloadInv, SwapContext, files, TypeOK, Unread, Included
  <2>5. ReadSoFar'
    BY <1>9, ReloadAssumption, Zenon DEF ReloadInv, SwapContext, files, TypeOK, Unread, ReadSoFar, Included, Mark, Files
  <2>6. Noticed'
    BY <1>9, ReloadAssumption, Zenon DEF ReloadInv, SwapContext, files, TypeOK, Timely, ReadSoFar, Noticed, AnyFileChanged, HasChanged, Files, Mark
  <2>7. SwapsWhole'
    BY <1>9, ReloadAssumption, Zenon DEF ReloadInv, SwapContext, files, TypeOK, Unread, SwapsWhole, Included
  <2>8. ReloadApplies'
    BY <1>9, ReloadAssumption, Zenon DEF ReloadInv, SwapContext, files, TypeOK, ReloadApplies, Noticed, ReadSoFar
  <2>9. ContextsMatchConfig'
    BY <1>9, ReloadAssumption, Zenon DEF ReloadInv, SwapContext, files, TypeOK, ContextsMatchConfig, SwapsWhole
  <2> QED
    BY <2>1, <2>2, <2>3, <2>4, <2>5, <2>6, <2>7, <2>8, <2>9, Zenon DEF ReloadInv
<1>10. ASSUME Hangup PROVE ReloadInv'
  <2>1. TypeOK'
    BY <1>10, ReloadAssumption, Zenon DEF ReloadInv, Hangup, TypeOK, Steps
  <2>2. disk'[Master] # Absent
    BY <1>10, ReloadAssumption, Zenon DEF ReloadInv, Hangup, TypeOK, Files
  <2>3. Timely'
    BY <1>10, ReloadAssumption, Zenon DEF ReloadInv, Hangup, TypeOK, Timely, Files
  <2>4. Unread'
    BY <1>10, ReloadAssumption, Zenon DEF ReloadInv, Hangup, TypeOK, Unread, Included
  <2>5. ReadSoFar'
    BY <1>10, ReloadAssumption, Zenon DEF ReloadInv, Hangup, TypeOK, Unread, ReadSoFar, Included, Mark, Files
  <2>6. Noticed'
    BY <1>10, ReloadAssumption, Zenon DEF ReloadInv, Hangup, TypeOK, Timely, ReadSoFar, Noticed, AnyFileChanged, HasChanged, Files, Mark
  <2>7. SwapsWhole'
    BY <1>10, ReloadAssumption, Zenon DEF ReloadInv, Hangup, TypeOK, Unread, SwapsWhole, Included
  <2>8. ReloadApplies'
    BY <1>10, ReloadAssumption, Zenon DEF ReloadInv, Hangup, TypeOK, ReloadApplies, Noticed, ReadSoFar
  <2>9. ContextsMatchConfig'
    BY <1>10, ReloadAssumption, Zenon DEF ReloadInv, Hangup, TypeOK, ContextsMatchConfig, SwapsWhole
  <2> QED
    BY <2>1, <2>2, <2>3, <2>4, <2>5, <2>6, <2>7, <2>8, <2>9, Zenon DEF ReloadInv
<1>11. ASSUME NoFileChanged PROVE ReloadInv'
  <2>1. TypeOK'
    BY <1>11, ReloadAssumption, Zenon DEF ReloadInv, NoFileChanged, Return, files, TypeOK, NoDraft, NoTrackers, Files, Steps
  <2>2. disk'[Master] # Absent
    BY <1>11, ReloadAssumption, Zenon DEF ReloadInv, NoFileChanged, Return, files, TypeOK, Files
  <2>3. Timely'
    BY <1>11, ReloadAssumption DEF ReloadInv, NoFileChanged, Return, files, TypeOK, Timely, Files, NoTrackers, NoTracker
  <2>4. Unread'
    BY <1>11, Zenon DEF NoFileChanged, Return, Unread, NoDraft, NoTrackers, Files
  <2>5. ReadSoFar'
    BY <1>11, ReloadAssumption, Zenon DEF ReloadInv, NoFileChanged, Return, files, TypeOK, Unread, ReadSoFar, Included, Mark, Files, NoDraft, NoTrackers
  <2>6. Noticed'
    BY <1>11, ReloadAssumption, Zenon DEF ReloadInv, NoFileChanged, Return, files, TypeOK, Timely, ReadSoFar, Noticed, AnyFileChanged, HasChanged, Files, Mark
  <2>7. SwapsWhole'
    BY <1>11, ReloadAssumption, Zenon DEF ReloadInv, NoFileChanged, Return, files, TypeOK, Unread, SwapsWhole, Included
  <2>8. ReloadApplies'
    <3>1. UNCHANGED <<config, disk, hazards>>
      BY <1>11, Zenon DEF NoFileChanged, Return, files
    <3>2. hazards = {} => config = disk
      BY <1>11, Zenon DEF ReloadInv, Noticed, NoFileChanged
    <3> QED
      BY <3>1, <3>2, Settled, Zenon DEF ReloadApplies
  <2>9. ContextsMatchConfig'
    BY <1>11, ReloadAssumption, Zenon DEF ReloadInv, NoFileChanged, Return, files, TypeOK, ContextsMatchConfig, SwapsWhole
  <2> QED
    BY <2>1, <2>2, <2>3, <2>4, <2>5, <2>6, <2>7, <2>8, <2>9, Zenon DEF ReloadInv
<1>12. ASSUME SomeFileChanged PROVE ReloadInv'
  <2>1. TypeOK'
    BY <1>12, ReloadAssumption, Zenon DEF ReloadInv, SomeFileChanged, Loading, files, TypeOK, Steps
  <2>2. disk'[Master] # Absent
    BY <1>12, ReloadAssumption, Zenon DEF ReloadInv, SomeFileChanged, Loading, files, TypeOK, Files
  <2>3. Timely'
    BY <1>12, ReloadAssumption, Zenon DEF ReloadInv, SomeFileChanged, Loading, files, TypeOK, Timely, Files
  <2>4. Unread'
    BY <1>12, ReloadAssumption, Zenon DEF ReloadInv, SomeFileChanged, Loading, files, TypeOK, Unread, Included
  <2>5. ReadSoFar'
    BY <1>12, ReloadAssumption, Zenon DEF ReloadInv, SomeFileChanged, Loading, files, TypeOK, Unread, ReadSoFar, Included, Mark, Files
  <2>6. Noticed'
    BY <1>12, ReloadAssumption, Zenon DEF ReloadInv, SomeFileChanged, Loading, files, TypeOK, Timely, ReadSoFar, Noticed, AnyFileChanged, HasChanged, Files, Mark
  <2>7. SwapsWhole'
    BY <1>12, ReloadAssumption, Zenon DEF ReloadInv, SomeFileChanged, Loading, files, TypeOK, Unread, SwapsWhole, Included
  <2>8. ReloadApplies'
    BY <1>12, ReloadAssumption, Zenon DEF ReloadInv, SomeFileChanged, Loading, files, TypeOK, ReloadApplies, Noticed, ReadSoFar
  <2>9. ContextsMatchConfig'
    BY <1>12, ReloadAssumption, Zenon DEF ReloadInv, SomeFileChanged, Loading, files, TypeOK, ContextsMatchConfig, SwapsWhole
  <2> QED
    BY <2>1, <2>2, <2>3, <2>4, <2>5, <2>6, <2>7, <2>8, <2>9, Zenon DEF ReloadInv
<1>13. ASSUME ReadMaster PROVE ReloadInv'
  <2>1. TypeOK'
    BY <1>13, ReloadAssumption, Zenon DEF ReloadInv, ReadMaster, Loading, files, TypeOK, Steps, Files
  <2>2. disk'[Master] # Absent
    BY <1>13, ReloadAssumption, Zenon DEF ReloadInv, ReadMaster, Loading, files, TypeOK, Files
  <2>3. Timely'
    BY <1>13, ReloadAssumption, Zenon DEF ReloadInv, ReadMaster, Loading, files, TypeOK, Timely, Files
  <2>4. Unread'
    BY <1>13, ReloadAssumption DEF ReloadInv, ReadMaster, Loading, files, TypeOK, Unread, Included
  <2>5. ReadSoFar'
    BY <1>13, ReloadAssumption, Zenon DEF ReloadInv, ReadMaster, Loading, files, TypeOK, Unread, ReadSoFar, Included, Mark, Files
  <2>6. Noticed'
    BY <1>13, ReloadAssumption, Zenon DEF ReloadInv, ReadMaster, Loading, files, TypeOK, Timely, ReadSoFar, Noticed, AnyFileChanged, HasChanged, Files, Mark
  <2>7. SwapsWhole'
    BY <1>13, ReloadAssumption, Zenon DEF ReloadInv, ReadMaster, Loading, files, TypeOK, Unread, SwapsWhole, Included
  <2>8. ReloadApplies'
    BY <1>13, ReloadAssumption, Zenon DEF ReloadInv, ReadMaster, Loading, files, TypeOK, ReloadApplies, Noticed, ReadSoFar
  <2>9. ContextsMatchConfig'
    BY <1>13, ReloadAssumption, Zenon DEF ReloadInv, ReadMaster, Loading, files, TypeOK, ContextsMatchConfig, SwapsWhole
  <2> QED
    BY <2>1, <2>2, <2>3, <2>4, <2>5, <2>6, <2>7, <2>8, <2>9, Zenon DEF ReloadInv
<1>14. ASSUME StatMaster PROVE ReloadInv'
  <2>1. TypeOK'
    BY <1>14, ReloadAssumption, Zenon DEF ReloadInv, StatMaster, Loading, files, TypeOK, Steps, Files
  <2>2. disk'[Master] # Absent
    BY <1>14, ReloadAssumption, Zenon DEF ReloadInv, StatMaster, Loading, files, TypeOK, Files
  <2>3. Timely'
    BY <1>14, ReloadAssumption, Zenon DEF ReloadInv, StatMaster, Loading, files, TypeOK, Timely, Files
  <2>4. Unread'
    BY <1>14, ReloadAssumption DEF ReloadInv, StatMaster, Loading, files, TypeOK, Unread, Included
  <2>5. ReadSoFar'
    BY <1>14, ReloadAssumption, Zenon DEF ReloadInv, StatMaster, Loading, files, TypeOK, Unread, ReadSoFar, Included, Mark, Files
  <2>6. Noticed'
    BY <1>14, ReloadAssumption, Zenon DEF ReloadInv, StatMaster, Loading, files, TypeOK, Timely, ReadSoFar, Noticed, AnyFileChanged, HasChanged, Files, Mark
  <2>7. SwapsWhole'
    BY <1>14, ReloadAssumption, Zenon DEF ReloadInv, StatMaster, Loading, files, TypeOK, Unread, SwapsWhole, Included
  <2>8. ReloadApplies'
    BY <1>14, ReloadAssumption, Zenon DEF ReloadInv, StatMaster, Loading, files, TypeOK, ReloadApplies, Noticed, ReadSoFar
  <2>9. ContextsMatchConfig'
    BY <1>14, ReloadAssumption, Zenon DEF ReloadInv, StatMaster, Loading, files, TypeOK, ContextsMatchConfig, SwapsWhole
  <2> QED
    BY <2>1, <2>2, <2>3, <2>4, <2>5, <2>6, <2>7, <2>8, <2>9, Zenon DEF ReloadInv
<1>15. ASSUME ResolveIncludes PROVE ReloadInv'
  <2>1. TypeOK'
    BY <1>15, Zenon DEF ReloadInv, TypeOK, ResolveIncludes, Loading, files, Steps, Included
  <2>2. disk'[Master] # Absent
    BY <1>15, ReloadAssumption, Zenon DEF ReloadInv, ResolveIncludes, Loading, files, TypeOK, Files
  <2>3. Timely'
    BY <1>15, ReloadAssumption, Zenon DEF ReloadInv, ResolveIncludes, Loading, files, TypeOK, Timely, Files
  <2>4. Unread'
    BY <1>15, ReloadAssumption, Zenon DEF ReloadInv, ResolveIncludes, Loading, files, TypeOK, Unread, Included
  <2>5. ReadSoFar'
    BY <1>15, ReloadAssumption, Zenon DEF ReloadInv, ResolveIncludes, Loading, files, TypeOK, Unread, ReadSoFar, Included, Mark, Files
  <2>6. Noticed'
    BY <1>15, ReloadAssumption, Zenon DEF ReloadInv, ResolveIncludes, Loading, files, TypeOK, Timely, ReadSoFar, Noticed, AnyFileChanged, HasChanged, Files, Mark
  <2>7. SwapsWhole'
    BY <1>15, ReloadAssumption, Zenon DEF ReloadInv, ResolveIncludes, Loading, files, TypeOK, Unread, SwapsWhole, Included
  <2>8. ReloadApplies'
    BY <1>15, ReloadAssumption, Zenon DEF ReloadInv, ResolveIncludes, Loading, files, TypeOK, ReloadApplies, Noticed, ReadSoFar
  <2>9. ContextsMatchConfig'
    BY <1>15, ReloadAssumption, Zenon DEF ReloadInv, ResolveIncludes, Loading, files, TypeOK, ContextsMatchConfig, SwapsWhole
  <2> QED
    BY <2>1, <2>2, <2>3, <2>4, <2>5, <2>6, <2>7, <2>8, <2>9, Zenon DEF ReloadInv
<1>16. ASSUME Compile PROVE ReloadInv'
  <2>1. TypeOK'
    BY <1>16, Zenon DEF ReloadInv, TypeOK, Compile, Loading, files, Steps, Included
  <2>2. disk'[Master] # Absent
    BY <1>16, ReloadAssumption, Zenon DEF ReloadInv, Compile, Loading, files, TypeOK, Files
  <2>3. Timely'
    BY <1>16, ReloadAssumption, Zenon DEF ReloadInv, Compile, Loading, files, TypeOK, Timely, Files
  <2>4. Unread'
    BY <1>16, ReloadAssumption, Zenon DEF ReloadInv, Compile, Loading, files, TypeOK, Unread, Included
  <2>5. ReadSoFar'
    BY <1>16, ReloadAssumption, Zenon DEF ReloadInv, Compile, Loading, files, TypeOK, Unread, ReadSoFar, Included, Mark, Files
  <2>6. Noticed'
    BY <1>16, ReloadAssumption, Zenon DEF ReloadInv, Compile, Loading, files, TypeOK, Timely, ReadSoFar, Noticed, AnyFileChanged, HasChanged, Files, Mark
  <2>7. SwapsWhole'
    BY <1>16, ReloadAssumption, Zenon DEF ReloadInv, Compile, Loading, files, TypeOK, Unread, SwapsWhole, Included
  <2>8. ReloadApplies'
    BY <1>16, ReloadAssumption, Zenon DEF ReloadInv, Compile, Loading, files, TypeOK, ReloadApplies, Noticed, ReadSoFar
  <2>9. ContextsMatchConfig'
    BY <1>16, ReloadAssumption, Zenon DEF ReloadInv, Compile, Loading, files, TypeOK, ContextsMatchConfig, SwapsWhole
  <2> QED
    BY <2>1, <2>2, <2>3, <2>4, <2>5, <2>6, <2>7, <2>8, <2>9, Zenon DEF ReloadInv
<1>17. ASSUME LoadFails PROVE ReloadInv'
  <2>1. TypeOK'
    BY <1>17, ReloadAssumption, Zenon DEF ReloadInv, LoadFails, Return, files, TypeOK, NoDraft, NoTrackers, Files, Steps
  <2>2. disk'[Master] # Absent
    BY <1>17, ReloadAssumption, Zenon DEF ReloadInv, LoadFails, Return, files, TypeOK, Files
  <2>3. Timely'
    BY <1>17, ReloadAssumption DEF ReloadInv, LoadFails, Return, files, TypeOK, Timely, Files, NoTrackers, NoTracker
  <2>4. Unread'
    BY <1>17, Zenon DEF LoadFails, Return, Unread, NoDraft, NoTrackers, Files
  <2>5. ReadSoFar'
    BY <1>17, ReloadAssumption, Zenon DEF ReloadInv, LoadFails, Return, files, TypeOK, Unread, ReadSoFar, Included, Mark, Files, NoDraft, NoTrackers
  <2>6. Noticed'
    BY <1>17, ReloadAssumption, Zenon DEF ReloadInv, LoadFails, Return, files, TypeOK, Timely, ReadSoFar, Noticed, AnyFileChanged, HasChanged, Files, Mark
  <2>7. SwapsWhole'
    BY <1>17, ReloadAssumption, Zenon DEF ReloadInv, LoadFails, Return, files, TypeOK, Unread, SwapsWhole, Included
  <2>8. ReloadApplies'
    <3>1. UNCHANGED <<config, disk, hazards>>
      BY <1>17, Zenon DEF LoadFails, Return, files
    <3>2. hazards = {} => ~Loads(disk)
      BY <1>17, Zenon DEF ReloadInv, ReadSoFar, LoadFails, Loads, Included
    <3> QED
      BY <3>1, <3>2, Zenon DEF ReloadApplies
  <2>9. ContextsMatchConfig'
    BY <1>17, ReloadAssumption, Zenon DEF ReloadInv, LoadFails, Return, files, TypeOK, ContextsMatchConfig, SwapsWhole
  <2> QED
    BY <2>1, <2>2, <2>3, <2>4, <2>5, <2>6, <2>7, <2>8, <2>9, Zenon DEF ReloadInv
<1>18. ASSUME AskForUpgrade PROVE ReloadInv'
  <2>1. TypeOK'
    BY <1>18, ReloadAssumption, Zenon DEF ReloadInv, AskForUpgrade, Return, files, TypeOK, NoDraft, NoTrackers, Files, Steps
  <2>2. disk'[Master] # Absent
    BY <1>18, ReloadAssumption, Zenon DEF ReloadInv, AskForUpgrade, Return, files, TypeOK, Files
  <2>3. Timely'
    BY <1>18, ReloadAssumption DEF ReloadInv, AskForUpgrade, Return, files, TypeOK, Timely, Files, NoTrackers, NoTracker
  <2>4. Unread'
    BY <1>18, Zenon DEF AskForUpgrade, Return, Unread, NoDraft, NoTrackers, Files
  <2>5. ReadSoFar'
    BY <1>18, ReloadAssumption, Zenon DEF ReloadInv, AskForUpgrade, Return, files, TypeOK, Unread, ReadSoFar, Included, Mark, Files, NoDraft, NoTrackers
  <2>6. Noticed'
    BY <1>18, ReloadAssumption, Zenon DEF ReloadInv, AskForUpgrade, Return, files, TypeOK, Timely, ReadSoFar, Noticed, AnyFileChanged, HasChanged, Files, Mark
  <2>7. SwapsWhole'
    BY <1>18, ReloadAssumption, Zenon DEF ReloadInv, AskForUpgrade, Return, files, TypeOK, Unread, SwapsWhole, Included
  <2>8. ReloadApplies'
    <3>1. UNCHANGED <<config, disk, hazards>>
      BY <1>18, Zenon DEF AskForUpgrade, Return, files
    <3>2. hazards = {} => draft = disk
      BY <1>18, AllRead, Zenon DEF AskForUpgrade
    <3>3. NeedsUpgrade(config, draft) /\ outcome' = "NeedsUpgrade"
      BY <1>18, Zenon DEF AskForUpgrade, Return
    <3> QED
      BY <3>1, <3>2, <3>3, Zenon DEF ReloadApplies
  <2>9. ContextsMatchConfig'
    BY <1>18, ReloadAssumption, Zenon DEF ReloadInv, AskForUpgrade, Return, files, TypeOK, ContextsMatchConfig, SwapsWhole
  <2> QED
    BY <2>1, <2>2, <2>3, <2>4, <2>5, <2>6, <2>7, <2>8, <2>9, Zenon DEF ReloadInv
<1>19. ASSUME StartBuild PROVE ReloadInv'
  <2>1. TypeOK'
    BY <1>19, Zenon DEF ReloadInv, TypeOK, StartBuild, Loading, files, Steps, Included
  <2>2. disk'[Master] # Absent
    BY <1>19, ReloadAssumption, Zenon DEF ReloadInv, StartBuild, Loading, files, TypeOK, Files
  <2>3. Timely'
    BY <1>19, ReloadAssumption, Zenon DEF ReloadInv, StartBuild, Loading, files, TypeOK, Timely, Files
  <2>4. Unread'
    BY <1>19, ReloadAssumption, Zenon DEF ReloadInv, StartBuild, Loading, files, TypeOK, Unread, Included
  <2>5. ReadSoFar'
    BY <1>19, ReloadAssumption, Zenon DEF ReloadInv, StartBuild, Loading, files, TypeOK, Unread, ReadSoFar, Included, Mark, Files
  <2>6. Noticed'
    BY <1>19, ReloadAssumption, Zenon DEF ReloadInv, StartBuild, Loading, files, TypeOK, Timely, ReadSoFar, Noticed, AnyFileChanged, HasChanged, Files, Mark
  <2>7. SwapsWhole'
    <3>1. Included(config) = Included(draft) /\ left' = Included(draft) /\ UNCHANGED <<config, weight, draft>>
      BY <1>19, Zenon DEF StartBuild, Loading, NeedsUpgrade
    <3>2. \A g \in Gateways \ left' : weight[g] = draft[g].weight
      BY <3>1 DEF ReloadInv, SwapsWhole, Included, Absent
    <3> QED
      BY <1>19, <3>1, <3>2, Zenon DEF ReloadInv, SwapsWhole, StartBuild
  <2>8. ReloadApplies'
    BY <1>19, ReloadAssumption, Zenon DEF ReloadInv, StartBuild, Loading, files, TypeOK, ReloadApplies, Noticed, ReadSoFar
  <2>9. ContextsMatchConfig'
    BY <1>19, ReloadAssumption, Zenon DEF ReloadInv, StartBuild, Loading, files, TypeOK, ContextsMatchConfig, SwapsWhole
  <2> QED
    BY <2>1, <2>2, <2>3, <2>4, <2>5, <2>6, <2>7, <2>8, <2>9, Zenon DEF ReloadInv
<1>20. ASSUME StoreConfig PROVE ReloadInv'
  <2>1. TypeOK'
    BY <1>20, Zenon DEF ReloadInv, TypeOK, StoreConfig, files, Steps, Included
  <2>2. disk'[Master] # Absent
    BY <1>20, ReloadAssumption, Zenon DEF ReloadInv, StoreConfig, files, TypeOK, Files
  <2>3. Timely'
    BY <1>20, ReloadAssumption, Zenon DEF ReloadInv, StoreConfig, files, TypeOK, Timely, Files
  <2>4. Unread'
    BY <1>20, ReloadAssumption, Zenon DEF ReloadInv, StoreConfig, files, TypeOK, Unread, Included
  <2>5. ReadSoFar'
    <3>1. /\ pc = "build" /\ pc' = "swap" /\ config' = draft
          /\ UNCHANGED <<disk, mtime, draft, drafted, hazards>>
      BY <1>20, Zenon DEF StoreConfig, files
    <3>2. "racing" \notin hazards => draft = disk
      BY <1>20, AllRead, Zenon DEF ReloadInv, ReadSoFar, StoreConfig
    <3>3. "racing" \notin hazards =>
            /\ draft[Master] = disk[Master] /\ drafted[Master] = mtime[Master]
            /\ \A g \in Gateways : draft[g] = disk[g] /\ drafted[g] = Mark(g)
      BY <3>1, Zenon DEF ReloadInv, ReadSoFar
    <3>4. \A g : Mark(g)' = Mark(g)
      BY <3>1, Zenon DEF Mark
    <3> QED BY <3>1, <3>2, <3>3, <3>4, Zenon DEF ReadSoFar
  <2>6. Noticed'
    <3>1. "racing" \notin hazards => draft = disk /\ \A f \in Files : drafted[f] = Mark(f)
      BY <1>20, AllRead, Zenon DEF ReloadInv, ReadSoFar, StoreConfig, Files, Mark
    <3>2. \A f \in Files : mtime[f] # NoTracker
      BY DEF ReloadInv, TypeOK, NoTracker
    <3>3. config' = draft /\ tracker' = drafted /\ UNCHANGED <<disk, mtime, hazards>>
      BY <1>20, Zenon DEF StoreConfig, files
    <3> QED
      BY <3>1, <3>2, <3>3, Zenon DEF Noticed, Mark
  <2>7. SwapsWhole'
    <3>1. config' = draft /\ left' = Included(draft) /\ UNCHANGED <<weight, context, draft>> /\ pc' = "swap"
      BY <1>20, Zenon DEF StoreConfig
    <3>2. \A g \in Gateways : weight[g] = draft[g].weight
      BY <1>20, Zenon DEF ReloadInv, SwapsWhole, StoreConfig
    <3>3. \A g \in Gateways : draft[g] = Absent => weight[g] = 0 /\ context[g] = draft[g]
      BY <1>20, <3>2, Zenon DEF ReloadInv, SwapsWhole, ContextsMatchConfig, StoreConfig, Included, Absent
    <3> QED
      BY <3>1, <3>2, <3>3, Zenon DEF SwapsWhole, Included
  <2>8. ReloadApplies'
    BY <1>20, ReloadAssumption, Zenon DEF ReloadInv, StoreConfig, files, TypeOK, ReloadApplies, Noticed, ReadSoFar
  <2>9. ContextsMatchConfig'
    BY <1>20, ReloadAssumption, Zenon DEF ReloadInv, StoreConfig, files, TypeOK, ContextsMatchConfig, SwapsWhole
  <2> QED
    BY <2>1, <2>2, <2>3, <2>4, <2>5, <2>6, <2>7, <2>8, <2>9, Zenon DEF ReloadInv
<1>21. ASSUME Swapped PROVE ReloadInv'
  <2>1. TypeOK'
    BY <1>21, ReloadAssumption, Zenon DEF ReloadInv, Swapped, Return, files, TypeOK, NoDraft, NoTrackers, Files, Steps
  <2>2. disk'[Master] # Absent
    BY <1>21, ReloadAssumption, Zenon DEF ReloadInv, Swapped, Return, files, TypeOK, Files
  <2>3. Timely'
    BY <1>21, ReloadAssumption DEF ReloadInv, Swapped, Return, files, TypeOK, Timely, Files, NoTrackers, NoTracker
  <2>4. Unread'
    BY <1>21, Zenon DEF Swapped, Return, Unread, NoDraft, NoTrackers, Files
  <2>5. ReadSoFar'
    BY <1>21, ReloadAssumption, Zenon DEF ReloadInv, Swapped, Return, files, TypeOK, Unread, ReadSoFar, Included, Mark, Files, NoDraft, NoTrackers
  <2>6. Noticed'
    BY <1>21, ReloadAssumption, Zenon DEF ReloadInv, Swapped, Return, files, TypeOK, Timely, ReadSoFar, Noticed, AnyFileChanged, HasChanged, Files, Mark
  <2>7. SwapsWhole'
    BY <1>21, ReloadAssumption, Zenon DEF ReloadInv, Swapped, Return, files, TypeOK, Unread, SwapsWhole, Included
  <2>8. ReloadApplies'
    <3>1. UNCHANGED <<config, disk, hazards>>
      BY <1>21, Zenon DEF Swapped, Return, files
    <3>2. hazards = {} => config = disk
      BY <1>21, Zenon DEF ReloadInv, ReadSoFar, Swapped
    <3> QED
      BY <3>1, <3>2, Settled, Zenon DEF ReloadApplies
  <2>9. ContextsMatchConfig'
    BY <1>21, ReloadAssumption, Zenon DEF ReloadInv, Swapped, Return, files, TypeOK, ContextsMatchConfig, SwapsWhole
  <2> QED
    BY <2>1, <2>2, <2>3, <2>4, <2>5, <2>6, <2>7, <2>8, <2>9, Zenon DEF ReloadInv
<1>22. ASSUME UNCHANGED vars PROVE ReloadInv'
  <2>1. TypeOK'
    BY <1>22, ReloadAssumption, Zenon DEF ReloadInv, vars, files, TypeOK, Steps
  <2>2. disk'[Master] # Absent
    BY <1>22, ReloadAssumption, Zenon DEF ReloadInv, vars, files, TypeOK, Files
  <2>3. Timely'
    BY <1>22, ReloadAssumption, Zenon DEF ReloadInv, vars, files, TypeOK, Timely, Files
  <2>4. Unread'
    BY <1>22, ReloadAssumption, Zenon DEF ReloadInv, vars, files, TypeOK, Unread, Included
  <2>5. ReadSoFar'
    BY <1>22, ReloadAssumption, Zenon DEF ReloadInv, vars, files, TypeOK, Unread, ReadSoFar, Included, Mark, Files
  <2>6. Noticed'
    BY <1>22, ReloadAssumption, Zenon DEF ReloadInv, vars, files, TypeOK, Timely, ReadSoFar, Noticed, AnyFileChanged, HasChanged, Files, Mark
  <2>7. SwapsWhole'
    BY <1>22, ReloadAssumption DEF ReloadInv, vars, files, TypeOK, Unread, SwapsWhole, Included
  <2>8. ReloadApplies'
    BY <1>22, ReloadAssumption, Zenon DEF ReloadInv, vars, files, TypeOK, ReloadApplies, Noticed, ReadSoFar
  <2>9. ContextsMatchConfig'
    BY <1>22, ReloadAssumption, Zenon DEF ReloadInv, vars, files, TypeOK, ContextsMatchConfig, SwapsWhole
  <2> QED
    BY <2>1, <2>2, <2>3, <2>4, <2>5, <2>6, <2>7, <2>8, <2>9, Zenon DEF ReloadInv
<1> QED
  BY <1>1, <1>2, <1>3, <1>4, <1>5, <1>6, <1>7, <1>8, <1>9, <1>10, <1>11,
     <1>12, <1>13, <1>14, <1>15, <1>16, <1>17, <1>18, <1>19, <1>20, <1>21, <1>22, Zenon DEF Next

(* The invariant holds in every behaviour. *)
LEMMA ReloadInvHolds == Spec => []ReloadInv
  BY ReloadInvInit, ReloadInvStep, PTL DEF Spec

(* AppState::reload applies what is on disk, or asks for a new process, for *)
(* any files, contents and number of edits and reloads, failed ones too.    *)
THEOREM ReloadAppliesHolds == Spec => []ReloadApplies
<1>1. ReloadInv => ReloadApplies
  BY Zenon DEF ReloadInv
<1> QED
  BY <1>1, ReloadInvHolds, PTL

(* reload_inner swaps all contexts or none, whatever fails in between.      *)
THEOREM ContextsMatchConfigHolds == Spec => []ContextsMatchConfig
<1>1. ReloadInv => ContextsMatchConfig
  BY Zenon DEF ReloadInv
<1> QED
  BY <1>1, ReloadInvHolds, PTL
=============================================================================
