--------------------------- MODULE Commands_proofs ---------------------------
(***************************************************************************)
(* Proofs about the installation of the plugin, for any neighbours in the  *)
(* marketplace and any number of commands and of acts of others, and about *)
(* the commands together: each part of a project moves as its own          *)
(* specification says, so that what is proved of a part holds of all.      *)
(***************************************************************************)
EXTENDS MCCommands, Files_proofs, Delivery_proofs

(* The installation of the plugin. *)

\* A release is a whole tree, and only the old one has the retired file.
LEMMA ReleaseFacts ==
    ASSUME NEW r \in Releases
    PROVE  /\ Release(r) \in Trees /\ Release(r).there
           /\ ReleaseOf(Release(r)) = r /\ InventoryFits(Release(r))
           /\ "retired" \in PiecesOf(Release(r)) => r = "old"
           /\ r = "old" => PiecesOf(Release(r)) = Pieces
<1>1. r \in {"old", "new"}
  BY DEF Releases
<1>2. Release(r) = [there |-> TRUE, files |->
          [p \in Pieces |-> IF r = "new" /\ p = "retired" THEN "none" ELSE r]]
  BY DEF Release
<1>3. Release(r) \in Trees
  BY <1>1, <1>2 DEF Trees, Content, Releases
<1>4. ReleaseOf(Release(r)) = r
  BY <1>1, <1>2 DEF ReleaseOf, Pieces
<1>5. PiecesOf(Release(r)) = Listed(r)
  BY <1>1, <1>2 DEF PiecesOf, Listed, Pieces
<1>6. "retired" \in PiecesOf(Release(r)) => r = "old"
  BY <1>5 DEF Listed
<1>7. r # "none"
  BY <1>1
<1> QED BY <1>2, <1>3, <1>4, <1>5, <1>6, <1>7 DEF InventoryFits, Listed

\* How far a plugin command is tells what it found and made.
SetupInOrder ==
    /\ \E r \in Releases : checkout = Release(r)
    /\ setup.step = "making" => ~plugin.there /\ setup.kind # "uninstall"
    /\ setup.step = "copying" => plugin.there /\ ~setup.inPlace /\ setup.kind # "uninstall"
    /\ setup.step # "copying" => setup.left = {}
    /\ setup.removeFiles => setup.kind = "uninstall"
    /\ setup.step = "removing" /\ setup.kind = "uninstall" => setup.removeFiles

InstallSound == InstallTypeOK /\ SetupInOrder

SetupType ==
    [step : SetupSteps, kind : {"install", "upgrade", "uninstall"},
     inPlace : BOOLEAN, removeFiles : BOOLEAN, left : SUBSET Pieces,
     hurt : BOOLEAN, market : Markets, others : SUBSET Neighbours,
     alone : BOOLEAN, fate : {"unknown", "done", "failed"}]

InspectType ==
    [step : InspectSteps, again : BOOLEAN, left : SUBSET Pieces,
     seen : [Pieces -> Content], digest : [Pieces -> Content],
     registered : Content, sound : BOOLEAN]

DuringType ==
    [held : SUBSET [Pieces -> Content], replaced : 0 .. 2,
     verdict : {"none", "pending", "healthy"}]

RegistryType == [version : Content, second : BOOLEAN, cache : Trees]

\* What nothing is called has the types.
LEMMA ConstantsTyped ==
    /\ NoFiles \in [Pieces -> Content] /\ NoTree \in Trees /\ PiecesOf(NoTree) = {}
    /\ ~NoTree.there
    /\ NoMarket \in Markets /\ NoSetup \in SetupType /\ NoInspection \in InspectType
<1>1. NoFiles \in [Pieces -> Content]
  BY DEF NoFiles, Content
<1>2. NoMarket \in Markets
  BY DEF NoMarket, Markets
<1>3. NoTree \in Trees /\ PiecesOf(NoTree) = {} /\ ~NoTree.there
  BY <1>1 DEF NoTree, Trees, PiecesOf, NoFiles
<1> QED BY <1>1, <1>2, <1>3
        DEF NoSetup, NoInspection, SetupType, InspectType, SetupSteps, InspectSteps,
            DoctorSteps, ProjectSteps, Content

\* At the start no command has begun.
LEMMA InstallSoundInit == InstallInit => InstallSound
<1> SUFFICES ASSUME InstallInit PROVE InstallSound
  OBVIOUS
<1>1. /\ scope \in {"user", "repo"} /\ \E r \in Releases : checkout = Release(r)
      /\ setup = NoSetup /\ inspect = NoInspection /\ pluginActs = 0
      /\ during = [held |-> {}, replaced |-> 0, verdict |-> "none"]
  BY DEF InstallInit
<1>2. checkout \in Trees
  BY <1>1, ReleaseFacts
<1>3. plugin \in Trees /\ (~plugin.there => PiecesOf(plugin) = {})
  BY ReleaseFacts, ConstantsTyped DEF InstallInit
<1>4. market \in Markets
  BY ConstantsTyped DEF InstallInit, Markets
<1>5. registry \in RegistryType
  <2>1. CASE registry = [version |-> "none", second |-> FALSE, cache |-> NoTree]
    BY <2>1, ConstantsTyped DEF RegistryType, Content
  <2>2. ASSUME NEW r \in Releases, registry = [version |-> r, second |-> FALSE, cache |-> Release(r)]
        PROVE  registry \in RegistryType
    BY <2>2, ReleaseFacts DEF RegistryType, Content
  <2> QED BY <2>1, <2>2 DEF InstallInit
<1>6. during \in DuringType
  BY <1>1 DEF DuringType
<1>7. pluginActs \in 0 .. MaxPluginActs
  BY <1>1, PluginActsAssumption
<1>8. setup.step = "idle" /\ setup.left = {} /\ setup.removeFiles = FALSE
  BY <1>1 DEF NoSetup
<1>9. InstallTypeOK
  BY <1>1, <1>2, <1>3, <1>4, <1>5, <1>6, <1>7, ConstantsTyped
     DEF InstallTypeOK, RegistryType, DuringType, SetupType, InspectType
<1> QED BY <1>1, <1>8, <1>9 DEF InstallSound, SetupInOrder

\* The type invariant, by the types of the single variables.
LEMMA TypesOfInstall ==
    InstallTypeOK <=>
        /\ scope \in {"user", "repo"} /\ checkout \in Trees /\ plugin \in Trees
        /\ ~plugin.there => PiecesOf(plugin) = {}
        /\ market \in Markets /\ registry \in RegistryType /\ setup \in SetupType
        /\ inspect \in InspectType /\ during \in DuringType /\ pluginActs \in 0 .. MaxPluginActs
BY DEF InstallTypeOK, RegistryType, SetupType, InspectType, DuringType

\* What is noted keeps its type.
LEMMA NotesTyped ==
    ASSUME InstallTypeOK
    PROVE  /\ \A t \in Trees : ChangePlugin(t) => plugin' \in Trees /\ during' \in DuringType
           /\ \A m \in Markets : ChangeMarket(m) => market' \in Markets /\ during' \in DuringType
           /\ Replacement => during' \in DuringType
           /\ BeginWatch => during' \in DuringType
           /\ OneMoreAct => pluginActs' \in 0 .. MaxPluginActs
<1>1. during \in DuringType /\ pluginActs \in 0 .. MaxPluginActs /\ plugin \in Trees
  BY TypesOfInstall
<1>2. \A t \in Trees : t.files \in [Pieces -> Content]
  BY DEF Trees
<1>3. \A t \in Trees : ChangePlugin(t) => plugin' \in Trees /\ during' \in DuringType
  <2> SUFFICES ASSUME NEW t \in Trees, ChangePlugin(t)
               PROVE  plugin' \in Trees /\ during' \in DuringType
    OBVIOUS
  <2>1. during.held \cup {t.files} \in SUBSET [Pieces -> Content]
    BY <1>1, <1>2 DEF DuringType
  <2>2. during' = [during EXCEPT !.verdict = "none", !.held = during'.held]
        /\ during'.held \in {during.held, during.held \cup {t.files}}
    BY <1>1 DEF ChangePlugin, DuringType
  <2> QED BY <1>1, <2>1, <2>2 DEF ChangePlugin, DuringType
<1>4. \A m \in Markets : ChangeMarket(m) => market' \in Markets /\ during' \in DuringType
  BY <1>1 DEF ChangeMarket, DuringType
<1>5. OneMore(during.replaced) \in 0 .. 2
  BY <1>1 DEF OneMore, DuringType
<1>6. Replacement => during' \in DuringType
  BY <1>1, <1>5 DEF Replacement, DuringType
<1>7. BeginWatch => during' \in DuringType
  <2> SUFFICES ASSUME BeginWatch PROVE during' \in DuringType
    OBVIOUS
  <2>1. {plugin.files} \in SUBSET [Pieces -> Content]
    BY <1>1, <1>2
  <2>2. (IF InventoryFits(plugin) THEN {plugin.files} ELSE {}) \in SUBSET [Pieces -> Content]
    BY <2>1
  <2>3. PICK h \in SUBSET [Pieces -> Content], n \in {0, 1} :
            during' = [during EXCEPT !.held = h, !.replaced = n]
    BY <2>2 DEF BeginWatch
  <2>4. n \in 0 .. 2
    OBVIOUS
  <2> QED BY <1>1, <2>3, <2>4 DEF DuringType
<1>8. OneMoreAct => pluginActs' \in 0 .. MaxPluginActs
  BY <1>1, PluginActsAssumption DEF OneMoreAct
<1> QED BY <1>3, <1>4, <1>6, <1>7, <1>8

\* A plugin command that ends leaves no step behind.
LEMMA EndSetupTyped ==
    ASSUME setup \in SetupType, NEW f \in {"done", "failed"}, EndSetup(f)
    PROVE  /\ setup' \in SetupType /\ setup'.step = "idle" /\ setup'.left = {}
           /\ setup'.removeFiles => setup.removeFiles /\ setup'.kind = setup.kind
BY ConstantsTyped DEF EndSetup, SetupType, NoSetup, SetupSteps, NoMarket

\* Every step of a plugin command, of a reader and of others keeps the types
\* and the order of the plugin command.
LEMMA InstallSoundStep ==
    ASSUME InstallSound, [InstallNext]_pluginVars
    PROVE  InstallSound'
<1>0. /\ scope \in {"user", "repo"} /\ checkout \in Trees /\ plugin \in Trees
      /\ ~plugin.there => PiecesOf(plugin) = {}
      /\ market \in Markets /\ registry \in RegistryType /\ setup \in SetupType
      /\ inspect \in InspectType /\ during \in DuringType /\ pluginActs \in 0 .. MaxPluginActs
      /\ SetupInOrder
  BY TypesOfInstall DEF InstallSound
<1>t. InstallTypeOK
  BY DEF InstallSound
<1>w. /\ \A t \in Trees : ChangePlugin(t) => plugin' \in Trees /\ during' \in DuringType
      /\ \A m \in Markets : ChangeMarket(m) => market' \in Markets /\ during' \in DuringType
      /\ Replacement => during' \in DuringType
      /\ BeginWatch => during' \in DuringType
      /\ OneMoreAct => pluginActs' \in 0 .. MaxPluginActs
  BY <1>t, NotesTyped
<1>f. \A t \in Trees : t.files \in [Pieces -> Content] /\ t.there \in BOOLEAN /\ PiecesOf(t) \subseteq Pieces
  BY DEF Trees, PiecesOf
<1> SUFFICES /\ scope' \in {"user", "repo"} /\ checkout' \in Trees /\ plugin' \in Trees
             /\ ~plugin'.there => PiecesOf(plugin') = {}
             /\ market' \in Markets /\ registry' \in RegistryType /\ setup' \in SetupType
             /\ inspect' \in InspectType /\ during' \in DuringType /\ pluginActs' \in 0 .. MaxPluginActs
             /\ SetupInOrder'
  BY DEF InstallSound, InstallTypeOK, RegistryType, SetupType, InspectType, DuringType
<1>1. ASSUME NEW k \in {"install", "upgrade"}, NEW here \in BOOLEAN, BeginInstall(k, here)
      PROVE  /\ UNCHANGED <<scope, checkout, plugin, market, registry, inspect>>
             /\ setup' \in SetupType /\ during' \in DuringType /\ pluginActs' \in 0 .. MaxPluginActs
             /\ SetupInOrder'
  <2>1. /\ UNCHANGED <<scope, checkout, plugin, market, registry, inspect>> /\ OneMoreAct
        /\ Replacement \/ during' = during
    BY <1>1 DEF BeginInstall
  <2> DEFINE begun == [NoSetup EXCEPT !.kind = k, !.inPlace = here, !.others = market.others]
  <2>2. \/ setup' = [begun EXCEPT !.fate = "failed"]
        \/ setup' = [begun EXCEPT !.step = FirstStep]
        \/ setup' = [begun EXCEPT !.step = "reading"]
    BY <1>1 DEF BeginInstall
  <2>3. begun \in SetupType /\ begun.step = "idle" /\ begun.left = {} /\ begun.removeFiles = FALSE
        /\ begun.kind # "uninstall"
    <3>1. market.others \in SUBSET Neighbours
      BY <1>0 DEF Markets
    <3> QED BY <3>1, ConstantsTyped DEF SetupType, NoSetup
  <2> HIDE DEF begun
  <2>f. FirstStep \in {"removing", "making"} /\ (FirstStep = "making" => ~plugin.there)
    BY DEF FirstStep
  <2>4. setup' \in SetupType
    BY <2>2, <2>3, <2>f DEF SetupType, SetupSteps
  <2>s. /\ setup'.step \in {"idle", "removing", "making", "reading"} /\ setup'.left = {}
        /\ setup'.removeFiles = FALSE /\ setup'.kind # "uninstall"
        /\ setup'.step = "making" => ~plugin.there
    BY <2>2, <2>3, <2>f DEF SetupType
  <2>5. SetupInOrder'
    BY <2>1, <2>s, <1>0 DEF SetupInOrder
  <2> QED BY <2>1, <2>4, <2>5, <1>0, <1>w
<1>2. ASSUME NEW removeFiles \in BOOLEAN, BeginUninstall(removeFiles)
      PROVE  /\ UNCHANGED <<scope, checkout, plugin, market, registry, inspect, during>>
             /\ setup' \in SetupType /\ pluginActs' \in 0 .. MaxPluginActs
             /\ SetupInOrder'
  <2>1. market.others \in SUBSET Neighbours
    BY <1>0 DEF Markets
  <2>2. setup' \in SetupType
    BY <1>2, <2>1, ConstantsTyped DEF BeginUninstall, SetupType, SetupSteps
  <2>3. SetupInOrder'
    BY <1>2, <1>0 DEF BeginUninstall, SetupInOrder, NoSetup
  <2> QED BY <2>2, <2>3, <1>2, <1>w DEF BeginUninstall
<1>3. ASSUME NEW p \in Pieces, RemoveFile(p)
      PROVE  /\ UNCHANGED <<setup, market>> /\ SetupKeeps
             /\ plugin' \in Trees /\ during' \in DuringType
             /\ (~plugin'.there => PiecesOf(plugin') = {}) /\ SetupInOrder'
  <2>1. [plugin EXCEPT !.files[p] = "none"] \in Trees
    BY <1>0 DEF Trees, Content
  <2>2. ChangePlugin([plugin EXCEPT !.files[p] = "none"]) /\ UNCHANGED <<setup, market>> /\ SetupKeeps
    BY <1>3 DEF RemoveFile
  <2>3. plugin'.there = plugin.there /\ PiecesOf(plugin') \subseteq PiecesOf(plugin)
    BY <2>2, <1>0 DEF ChangePlugin, PiecesOf, Trees
  <2> QED BY <2>1, <2>2, <2>3, <1>0, <1>w, <1>3 DEF SetupKeeps, SetupInOrder, RemoveFile
<1>4. ASSUME NEW p \in Pieces, CopyFile(p)
      PROVE  /\ UNCHANGED <<market>> /\ SetupKeeps
             /\ plugin' \in Trees /\ during' \in DuringType /\ setup' \in SetupType
             /\ (~plugin'.there => PiecesOf(plugin') = {}) /\ SetupInOrder'
  <2>1. From \in Trees
    BY <1>0 DEF From
  <2>2. [plugin EXCEPT !.files[p] = From.files[p]] \in Trees
    BY <2>1, <1>0 DEF Trees
  <2>3. /\ ChangePlugin([plugin EXCEPT !.files[p] = From.files[p]]) /\ UNCHANGED market
        /\ SetupKeeps /\ setup.step = "copying"
        /\ setup' = [setup EXCEPT !.left = @ \ {p}, !.hurt = @ \/ p \notin PiecesOf(From)]
    BY <1>4 DEF CopyFile
  <2>4. plugin'.there = plugin.there /\ plugin.there
    BY <2>3, <1>0 DEF ChangePlugin, Trees, SetupInOrder
  <2>5. \E h \in BOOLEAN : setup' = [setup EXCEPT !.left = @ \ {p}, !.hurt = h]
    <3>1. (setup.hurt \/ p \notin PiecesOf(From)) \in BOOLEAN
      OBVIOUS
    <3> QED BY <2>3, <3>1
  <2>6. setup' \in SetupType /\ setup'.step = "copying" /\ setup'.inPlace = setup.inPlace
        /\ setup'.kind = setup.kind /\ setup'.removeFiles = setup.removeFiles
    BY <2>5, <2>3, <1>0 DEF SetupType
  <2>7. SetupInOrder'
    BY <2>3, <2>4, <2>6, <1>0 DEF SetupInOrder, SetupKeeps
  <2> QED BY <2>2, <2>3, <2>4, <2>6, <2>7, <1>w
<1>5. ASSUME RemoveDirectory
      PROVE  /\ UNCHANGED <<market>> /\ SetupKeeps
             /\ plugin' \in Trees /\ during' \in DuringType /\ setup' \in SetupType
             /\ (~plugin'.there => PiecesOf(plugin') = {}) /\ SetupInOrder'
  <2>1. ChangePlugin(NoTree) /\ UNCHANGED <<market>> /\ SetupKeeps /\ plugin' = NoTree
    BY <1>5 DEF RemoveDirectory, ChangePlugin
  <2>2. CASE setup.kind = "uninstall"
    <3>1. EndSetup("done")
      BY <1>5, <2>2 DEF RemoveDirectory
    <3>2. /\ setup' \in SetupType /\ setup'.step = "idle" /\ setup'.left = {}
          /\ setup'.removeFiles => setup.removeFiles /\ setup'.kind = setup.kind
      BY <3>1, <1>0, EndSetupTyped
    <3>3. SetupInOrder'
      BY <3>2, <2>1, <1>0 DEF SetupInOrder, SetupKeeps
    <3> QED BY <2>1, <3>2, <3>3, <1>w, ConstantsTyped
  <2>3. CASE setup.kind # "uninstall"
    <3>1. setup' = [setup EXCEPT !.step = "making"] /\ setup.step = "removing"
      BY <1>5, <2>3 DEF RemoveDirectory
    <3>2. setup' \in SetupType
      BY <3>1, <1>0 DEF SetupType, SetupSteps
    <3>3. SetupInOrder'
      BY <3>1, <2>1, <2>3, <1>0, ConstantsTyped DEF SetupInOrder, SetupKeeps, SetupType
    <3> QED BY <2>1, <3>2, <3>3, <1>w, ConstantsTyped
  <2> QED BY <2>2, <2>3
<1>6. ASSUME MakeDirectory
      PROVE  /\ UNCHANGED <<market>> /\ SetupKeeps
             /\ plugin' \in Trees /\ during' \in DuringType /\ setup' \in SetupType
             /\ (~plugin'.there => PiecesOf(plugin') = {}) /\ SetupInOrder'
  <2>1. UNCHANGED <<market>> /\ SetupKeeps /\ setup.step = "making" /\ setup.kind # "uninstall"
        /\ ~plugin.there
    BY <1>6, <1>0 DEF MakeDirectory, SetupInOrder
  <2>2. CASE From.there
    <3>1. /\ ChangePlugin([plugin EXCEPT !.there = TRUE])
          /\ setup' = [setup EXCEPT !.step = "copying", !.left = PiecesOf(From)]
      BY <1>6, <2>2 DEF MakeDirectory
    <3>2. ~setup.inPlace /\ From = checkout
      BY <2>1, <2>2 DEF From
    <3>3. [plugin EXCEPT !.there = TRUE] \in Trees
      BY <1>0 DEF Trees
    <3>4. plugin'.there
      BY <3>1, <1>0 DEF ChangePlugin, Trees
    <3>5. setup' \in SetupType
      BY <3>1, <3>2, <1>0, <1>f DEF SetupType, SetupSteps
    <3>6. SetupInOrder'
      BY <3>1, <3>2, <3>4, <2>1, <1>0 DEF SetupInOrder, SetupKeeps, SetupType
    <3> QED BY <3>1, <3>3, <3>4, <3>5, <3>6, <2>1, <1>w
  <2>3. CASE ~From.there
    <3>1. EndSetup("failed") /\ UNCHANGED <<plugin, during>>
      BY <1>6, <2>3 DEF MakeDirectory
    <3>2. /\ setup' \in SetupType /\ setup'.step = "idle" /\ setup'.left = {}
          /\ setup'.removeFiles => setup.removeFiles /\ setup'.kind = setup.kind
      BY <3>1, <1>0, EndSetupTyped
    <3>3. SetupInOrder'
      BY <3>1, <3>2, <2>1, <1>0 DEF SetupInOrder, SetupKeeps
    <3> QED BY <2>1, <3>1, <3>2, <3>3, <1>0
  <2> QED BY <2>2, <2>3
<1>7. ASSUME ReadMarket
      PROVE  /\ UNCHANGED <<plugin, market, during>> /\ SetupKeeps
             /\ setup' \in SetupType /\ SetupInOrder'
  <2>1. UNCHANGED <<plugin, market, during>> /\ SetupKeeps /\ setup.left = {}
    BY <1>7 DEF ReadMarket
  <2>2. CASE setup.hurt \/ market.file = "torn"
    <3>1. EndSetup("failed")
      BY <1>7, <2>2 DEF ReadMarket
    <3>2. /\ setup' \in SetupType /\ setup'.step = "idle" /\ setup'.left = {}
          /\ setup'.removeFiles => setup.removeFiles /\ setup'.kind = setup.kind
      BY <3>1, <1>0, EndSetupTyped
    <3> QED BY <2>1, <3>2, <1>0 DEF SetupInOrder, SetupKeeps
  <2>3. CASE ~(setup.hurt \/ market.file = "torn")
    <3>1. setup' = [setup EXCEPT !.step = "truncating", !.market = Upserted(market)]
      BY <1>7, <2>3 DEF ReadMarket
    <3>2. Upserted(market) \in Markets
      <4>1. \E n \in {0, 1} : Upserted(market) = [market EXCEPT !.file = "whole", !.ours = n]
        BY DEF Upserted
      <4>2. \A n \in {0, 1} : n \in 0 .. 2
        OBVIOUS
      <4> QED BY <4>1, <4>2, <1>0 DEF Markets
    <3>3. setup' \in SetupType
      BY <3>1, <3>2, <1>0 DEF SetupType, SetupSteps
    <3> QED BY <3>1, <3>3, <2>1, <1>0 DEF SetupInOrder, SetupKeeps, SetupType
  <2> QED BY <2>2, <2>3
<1>8. ASSUME Truncate
      PROVE  /\ UNCHANGED <<plugin>> /\ SetupKeeps /\ market' \in Markets /\ during' \in DuringType
             /\ setup' \in SetupType /\ SetupInOrder'
  <2>1. /\ UNCHANGED <<plugin>> /\ SetupKeeps /\ setup' = [setup EXCEPT !.step = "writing"]
        /\ setup.step = "truncating" /\ ChangeMarket([NoMarket EXCEPT !.file = "torn"])
    BY <1>8 DEF Truncate
  <2>2. [NoMarket EXCEPT !.file = "torn"] \in Markets
    BY DEF NoMarket, Markets
  <2>3. setup' \in SetupType
    BY <2>1, <1>0 DEF SetupType, SetupSteps
  <2> QED BY <2>1, <2>2, <2>3, <1>0, <1>w DEF SetupInOrder, SetupKeeps, SetupType
<1>9. ASSUME WriteMarket
      PROVE  /\ UNCHANGED <<plugin>> /\ SetupKeeps /\ market' \in Markets /\ during' \in DuringType
             /\ setup' \in SetupType /\ SetupInOrder'
  <2>1. /\ UNCHANGED <<plugin>> /\ SetupKeeps /\ market' = setup.market
    BY <1>9 DEF WriteMarket
  <2>2. market' \in Markets
    BY <2>1, <1>0 DEF SetupType
  <2>3. \E n \in 0 .. 2 : during' = [during EXCEPT !.verdict = "none", !.replaced = n]
    <3>1. OneMore(during.replaced) \in 0 .. 2 /\ during.replaced \in 0 .. 2
      BY <1>0 DEF OneMore, DuringType
    <3> QED BY <3>1, <1>9 DEF WriteMarket
  <2>4. during' \in DuringType
    BY <2>3, <1>0 DEF DuringType
  <2>5. \/ EndSetup("done") \/ EndSetup("failed")
        \/ setup' = [setup EXCEPT !.step = "removing"] /\ setup.removeFiles /\ setup.step = "writing"
    BY <1>9 DEF WriteMarket
  <2>6. CASE EndSetup("done") \/ EndSetup("failed")
    <3>2. /\ setup' \in SetupType /\ setup'.step = "idle" /\ setup'.left = {}
          /\ setup'.removeFiles => setup.removeFiles /\ setup'.kind = setup.kind
      BY <2>6, <1>0, EndSetupTyped
    <3> QED BY <2>1, <2>2, <2>4, <3>2, <1>0 DEF SetupInOrder, SetupKeeps
  <2>7. CASE setup' = [setup EXCEPT !.step = "removing"] /\ setup.removeFiles /\ setup.step = "writing"
    <3>1. setup' \in SetupType
      BY <2>7, <1>0 DEF SetupType, SetupSteps
    <3> QED BY <2>1, <2>2, <2>4, <2>7, <3>1, <1>0 DEF SetupInOrder, SetupKeeps, SetupType
  <2> QED BY <2>5, <2>6, <2>7
<1>10. ASSUME BreakOff
       PROVE  /\ UNCHANGED <<plugin, market, during>> /\ SetupKeeps
              /\ setup' \in SetupType /\ SetupInOrder'
  <2>1. UNCHANGED <<plugin, market, during>> /\ SetupKeeps /\ setup' = NoSetup
    BY <1>10 DEF BreakOff
  <2> QED BY <2>1, <1>0, ConstantsTyped DEF SetupInOrder, SetupKeeps, NoSetup
<1>11. CASE SetupNext
  BY <1>0, <1>1, <1>2, <1>3, <1>4, <1>5, <1>6, <1>7, <1>8, <1>9, <1>10, <1>11
     DEF SetupNext, SetupKeeps
<1>12. ASSUME InspectNext
       PROVE  InspectKeeps /\ inspect' \in InspectType /\ during' \in DuringType
              /\ pluginActs' \in 0 .. MaxPluginActs
  <2> USE <1>0, <1>w, <1>f, ConstantsTyped
  <2>1. CASE BeginDoctor
    BY <2>1 DEF BeginDoctor, InspectType, DuringType, InspectSteps, DoctorSteps
  <2>2. CASE LookAtSource
    <3>1. InventoryFits(DoctorSource) \in BOOLEAN
      BY DEF InventoryFits
    <3> QED BY <2>2, <3>1 DEF LookAtSource, InspectType, InspectSteps, DoctorSteps
  <2>e. \A h : EndDoctor(h) => inspect' \in InspectType /\ during' \in DuringType
    BY DEF EndDoctor, DuringType
  <2>3. CASE LookAtInstalled
    <3>1. CASE scope = "repo"
      BY <2>3, <3>1, <2>e DEF LookAtInstalled
    <3>2. CASE scope = "user"
      <4>1. PICK b \in BOOLEAN : inspect' = [inspect EXCEPT !.step = "registered", !.sound = b]
        <5>1. (inspect.sound /\ market.file = "whole" /\ market.ours = 1
                   /\ plugin.there /\ plugin = DoctorSource) \in BOOLEAN
          OBVIOUS
        <5> QED BY <2>3, <3>2, <5>1 DEF LookAtInstalled
      <4>2. inspect' \in InspectType
        BY <4>1 DEF InspectType, InspectSteps, DoctorSteps
      <4> QED BY <2>3, <3>2, <4>2 DEF LookAtInstalled
    <3> QED BY <3>1, <3>2
  <2>4. CASE LookAtRegistration
    BY <2>4, <2>e DEF LookAtRegistration
  <2>5. CASE BeginProject
    BY <2>5 DEF BeginProject, InspectType, InspectSteps, ProjectSteps, RegistryType
  <2>r. Refuse => InspectKeeps /\ inspect' \in InspectType /\ during' \in DuringType
                  /\ pluginActs' = pluginActs
    <3>1. [during EXCEPT !.held = {}, !.replaced = 0] \in DuringType
      <4>1. {} \in SUBSET [Pieces -> Content] /\ 0 \in 0 .. 2
        OBVIOUS
      <4> QED BY <4>1 DEF DuringType
    <3>2. [NoInspection EXCEPT !.step = "refused"] \in InspectType
      BY DEF InspectType, InspectSteps
    <3> QED BY <3>1, <3>2 DEF Refuse
  <2>g. \A i \in InspectType : InspectGoes(i) => InspectKeeps /\ inspect' \in InspectType
            /\ during' \in DuringType /\ pluginActs' = pluginActs
    BY DEF InspectGoes
  <2>6. CASE ListFiles
    <3>1. [inspect EXCEPT !.step = "read", !.left = PiecesOf(plugin), !.seen = NoFiles] \in InspectType
      BY DEF InspectType, InspectSteps, ProjectSteps
    <3> QED BY <2>6, <3>1, <2>r, <2>g DEF ListFiles
  <2>7. CASE CheckIdentity
    <3>1. [inspect EXCEPT !.step = "inventory", !.digest = inspect.seen] \in InspectType
      BY DEF InspectType, InspectSteps, ProjectSteps
    <3> QED BY <2>7, <3>1, <2>r, <2>g DEF CheckIdentity
  <2>8. CASE CheckInventory
    <3>1. InventoryFits(plugin) \in BOOLEAN
      BY DEF InventoryFits
    <3>2. [inspect EXCEPT !.step = "list", !.again = TRUE, !.sound = InventoryFits(plugin)] \in InspectType
      BY <3>1 DEF InspectType, InspectSteps, ProjectSteps
    <3> QED BY <2>8, <3>2, <2>g DEF CheckInventory
  <2>9. CASE Capture
    <3>1. [inspect EXCEPT !.step = "copy", !.digest = inspect.seen,
                          !.left = PiecesOf(plugin), !.seen = NoFiles] \in InspectType
      BY DEF InspectType, InspectSteps, ProjectSteps
    <3> QED BY <2>9, <3>1, <2>r, <2>g DEF Capture
  <2>10. CASE VerifyCapture
    <3>1. [inspect EXCEPT !.step = "captured"] \in InspectType
      BY DEF InspectType, InspectSteps, ProjectSteps
    <3> QED BY <2>10, <3>1, <2>r, <2>g DEF VerifyCapture, InspectTo
  <2>11. CASE RunCopy
    <3>1. [NoInspection EXCEPT !.step = "ran", !.seen = inspect.seen] \in InspectType
      BY DEF InspectType, InspectSteps, ProjectSteps
    <3> QED BY <2>11, <3>1, <2>r, <2>g DEF RunCopy
  <2>12. ASSUME NEW p \in Pieces, ReadFile(p) \/ CaptureFile(p)
         PROVE  InspectKeeps /\ inspect' \in InspectType /\ during' \in DuringType
                /\ pluginActs' \in 0 .. MaxPluginActs
    <3>1. [inspect EXCEPT !.left = @ \ {p}, !.seen[p] = plugin.files[p]] \in InspectType
      BY DEF InspectType, Trees
    <3> QED BY <2>12, <3>1, <2>r, <2>g DEF ReadFile, CaptureFile
  <2> QED BY <1>12, <2>1, <2>2, <2>3, <2>4, <2>5, <2>6, <2>7, <2>8, <2>9, <2>10, <2>11, <2>12
          DEF InspectNext, BeginDoctor, LookAtSource, LookAtInstalled, LookAtRegistration, BeginProject
<1>13. CASE InspectNext
  BY <1>12, <1>13, <1>0 DEF InspectKeeps, SetupInOrder
<1>14. ASSUME OutsideNext
       PROVE  /\ UNCHANGED <<scope, plugin>> /\ checkout' \in Trees /\ market' \in Markets
              /\ registry' \in RegistryType /\ setup' \in SetupType /\ inspect' \in InspectType
              /\ during' \in DuringType /\ pluginActs' \in 0 .. MaxPluginActs /\ SetupInOrder'
  <2>1. UNCHANGED <<scope, plugin>> /\ Disturb
    BY <1>14 DEF OutsideNext, SwitchCheckout, EditMarket, Register, RegisterElsewhere, TouchCopy,
                 Upheaval, Disturb
  <2>2. setup' \in SetupType /\ pluginActs' \in 0 .. MaxPluginActs
    BY <2>1, <1>0, <1>w, ConstantsTyped DEF Disturb, SetupType
  <2>3. \E r \in Releases : checkout' = Release(r)
    BY <1>14, <1>0 DEF OutsideNext, SwitchCheckout, EditMarket, Register, RegisterElsewhere, TouchCopy,
                       SetupInOrder
  <2>4. checkout' \in Trees
    BY <2>3, ReleaseFacts
  <2>5. SetupInOrder'
    <3>1. /\ setup'.step = "making" \/ setup'.step = "copying" \/ setup'.step = "removing" =>
                /\ setup'.step = setup.step /\ setup'.kind = setup.kind /\ setup'.left = setup.left
                /\ setup'.inPlace = setup.inPlace /\ setup'.removeFiles = setup.removeFiles
          /\ setup'.step # "copying" => setup'.left = {}
          /\ setup'.removeFiles => setup'.kind = "uninstall"
      BY <2>1, <1>0 DEF Disturb, SetupType, NoSetup, SetupInOrder
    <3> QED BY <3>1, <2>1, <2>3, <1>0 DEF SetupInOrder
  <2>6. during' \in DuringType
    <3>1. OneMore(during.replaced) \in 0 .. 2
      BY <1>0 DEF OneMore, DuringType
    <3>2. CASE SwitchCheckout
      BY <3>1, <3>2, <1>0 DEF SwitchCheckout, DuringType
    <3>3. CASE Upheaval
      BY <3>3, <1>0 DEF Upheaval, DuringType
    <3> QED BY <1>14, <3>2, <3>3 DEF OutsideNext, EditMarket, Register, RegisterElsewhere, TouchCopy
  <2>7. market' \in Markets
    <3>1. CASE EditMarket
      <4>1. CASE \E n \in Neighbours :
                    market' = [market EXCEPT !.file = "whole", !.others = @ \cup {n}]
        <5>1. PICK n \in Neighbours :
                  market' = [market EXCEPT !.file = "whole", !.others = @ \cup {n}]
          BY <4>1
        <5>2. market.others \cup {n} \in SUBSET Neighbours
          BY <1>0 DEF Markets
        <5> QED BY <5>1, <5>2, <1>0 DEF Markets
      <4>2. CASE market' = [market EXCEPT !.ours = 2]
        BY <4>2, <1>0 DEF Markets
      <4> QED BY <3>1, <4>1, <4>2 DEF EditMarket
    <3> QED BY <1>14, <3>1, <1>0 DEF OutsideNext, SwitchCheckout, Register, RegisterElsewhere, TouchCopy
  <2>8. registry' \in RegistryType
    <3>1. CASE Register
      BY <3>1, <1>0 DEF Register, RegistryType, ReleaseOf, Trees, Pieces
    <3>2. CASE RegisterElsewhere
      BY <3>2, <1>0 DEF RegisterElsewhere, RegistryType
    <3> QED BY <1>14, <3>1, <3>2, <1>0 DEF OutsideNext, SwitchCheckout, EditMarket, TouchCopy
  <2>9. inspect' \in InspectType
    <3>1. CASE TouchCopy
      BY <3>1, <1>0 DEF TouchCopy, InspectType
    <3> QED BY <1>14, <3>1, <1>0 DEF OutsideNext, SwitchCheckout, EditMarket, Register, RegisterElsewhere
  <2> QED BY <2>1, <2>2, <2>4, <2>5, <2>6, <2>7, <2>8, <2>9
<1>15. CASE OutsideNext
  BY <1>14, <1>15, <1>0
<1>16. CASE UNCHANGED pluginVars
  BY <1>16, <1>0 DEF pluginVars, SetupInOrder
<1> QED BY <1>11, <1>13, <1>15, <1>16 DEF InstallNext

(* What a project command has read, against what was done to the plugin.       *)

Of(p) == plugin.files[p]

\* The one replacement is over for this file.
Settled(p) ==
    /\ during.replaced = 1
    /\ setup.step \notin {"removing", "making"}
    /\ setup.step = "copying" => p \notin setup.left

\* The manifest is the old one, or about to be.
OldStays ==
    /\ Of("manifest") \in {"none", "old"}
    /\ Settled("manifest") \/ (setup.step = "copying" /\ checkout = Release("old"))

ReplacementIsSeen ==
    Projecting /\ during.replaced = 0 => setup.step \notin {"removing", "making", "copying"}

HeldIsKept ==
    Projecting /\ during.replaced <= 1 /\ InventoryFits(plugin) => plugin.files \in during.held

\* What was read is still there, was removed, or what replaced it is settled.
FollowsPlugin(p) ==
    \/ inspect.seen[p] = Of(p)
    \/ during.replaced = 1 /\ Of(p) = "none"
    \/ Settled(p)

\* The file that only the old release has comes back with the old manifest.
RetiredComesBack ==
    /\ inspect.seen["retired"] # "none" /\ Of("retired") = "none"
    /\ setup.step = "copying" /\ "retired" \in setup.left
    => checkout = Release("old") /\ Of("manifest") \in {"none", "old"}

FirstReading ==
    /\ inspect.step = "inventory" \/ (inspect.step = "read" /\ ~inspect.again)
    /\ during.replaced <= 1
    => /\ \A p \in Pieces \ inspect.left : FollowsPlugin(p)
       /\ "retired" \notin inspect.left => RetiredComesBack
       /\ inspect.step = "inventory" =>
             /\ inspect.left = {} /\ inspect.digest = inspect.seen
             /\ \/ inspect.digest["manifest"] = "new"
                \/ Of("manifest") = "new" /\ Settled("manifest")

\* While the plugin is read again: the file will not be other than it is.
Stays(p) ==
    /\ Settled(p) /\ Of(p) # "none"
    /\ inspect.step = "read" => p \in inspect.left \/ inspect.seen[p] = Of(p)

\* The file that only the old release has was there, and will not be read
\* again, or not together with the manifest that was there.
RetiredIsLost ==
    /\ inspect.digest["retired"] # "none"
    /\ \/ /\ inspect.step = "read"
          /\ "retired" \notin inspect.left /\ inspect.seen["retired"] = "none"
       \/ /\ inspect.step = "list" /\ Of("retired") = "none"
          /\ \/ Settled("retired")
             \/ setup.step \in {"removing", "making"} /\ inspect.digest["manifest"] = "new"
       \/ /\ inspect.digest["manifest"] = "new" /\ OldStays
          /\ inspect.step = "read" =>
                "manifest" \in inspect.left \/ inspect.seen["manifest"] # "new"

\* What the digest says was the whole plugin, or the second one will be another.
Agrees(p, F) ==
    \/ inspect.digest[p] = F[p]
    \/ F[p] = Of(p) /\ Stays(p)
    \/ p = "retired" /\ RetiredIsLost

SecondReading ==
    /\ inspect.step \in {"list", "read"} /\ inspect.again /\ during.replaced <= 1
    => /\ \/ inspect.digest["manifest"] = "new"
          \/ Of("manifest") = "new" /\ Stays("manifest")
       /\ inspect.sound => \E F \in during.held : \A p \in Pieces : Agrees(p, F)

DigestIsHeld ==
    inspect.step \in {"copy", "captured"} /\ during.replaced <= 1 =>
        inspect.digest \in during.held /\ inspect.digest["manifest"] = "new"

ReadingInv ==
    /\ ReplacementIsSeen /\ HeldIsKept /\ FirstReading /\ SecondReading /\ DigestIsHeld
    /\ WhatRunsWasInstalled

\* What a step of others does to the plugin while it is replaced at most once.
Disturbed ==
    /\ during'.replaced \in {during.replaced, during.replaced + 1} /\ during'.replaced <= 1
    /\ during.held \subseteq during'.held
    /\ during'.replaced = 0 => setup'.step \notin {"removing", "making", "copying"}
    /\ InventoryFits(plugin)' => plugin'.files \in during'.held
    /\ \A p \in Pieces : Settled(p) => Settled(p)' /\ Of(p)' = Of(p)
    /\ \A p \in Pieces :
          \/ Of(p)' = Of(p)
          \/ during'.replaced = 1 /\ Of(p)' = "none"
          \/ Settled(p)'
    /\ OldStays => OldStays'
    /\ /\ Of("retired")' = "none" /\ setup'.step = "copying" /\ "retired" \in setup'.left
       => \/ checkout' = Release("old") /\ Of("manifest")' = "none"
          \/ /\ Of("retired") = "none" /\ setup.step = "copying" /\ "retired" \in setup.left
             /\ checkout' = checkout
             /\ Of("manifest")' \in {Of("manifest"), checkout.files["manifest"]}
    /\ Of("retired") = "none" /\ setup.step \in {"removing", "making"} =>
          /\ Of("retired")' = "none"
          /\ setup'.step \in {"removing", "making"} \/ Settled("retired")' \/ OldStays'

InstallFacts ==
    /\ InstallSound
    /\ scope \in {"user", "repo"} /\ checkout \in Trees /\ plugin \in Trees
    /\ ~plugin.there => PiecesOf(plugin) = {}
    /\ market \in Markets /\ registry \in RegistryType /\ setup \in SetupType
    /\ inspect \in InspectType /\ during \in DuringType
    /\ SetupInOrder

\* What the steps need of the types.
LEMMA InstallIsSoundFacts == InstallSound => InstallFacts
BY TypesOfInstall DEF InstallFacts, InstallSound

\* A step that leaves the plugin as it is, and begins no replacement.
LEMMA QuietStep ==
    ASSUME InstallFacts, Projecting, ReplacementIsSeen, HeldIsKept, during'.replaced <= 1,
           UNCHANGED <<plugin>>, during'.held = during.held,
           during'.replaced = during.replaced,
           setup'.step \notin {"removing", "making", "copying"}
               \/ (setup'.step = setup.step /\ setup'.left = setup.left /\ checkout' = checkout)
    PROVE  Disturbed
<1> USE DEF InstallFacts, ReplacementIsSeen, HeldIsKept, Of, Settled
<1>1. \A p \in Pieces : Of(p)' = Of(p) /\ (Settled(p) => Settled(p)')
  OBVIOUS
<1>2. OldStays => OldStays'
  <2>1. "manifest" \in Pieces /\ during.replaced \in 0 .. 2
    BY DEF Pieces, DuringType
  <2> QED BY <1>1, <2>1 DEF OldStays
<1>3. InventoryFits(plugin)' => plugin'.files \in during'.held
  BY DEF InventoryFits, ReleaseOf, PiecesOf
<1>4. "retired" \in Pieces /\ "manifest" \in Pieces
  BY DEF Pieces
<1>5. during.replaced \in 0 .. 2
  BY DEF DuringType
<1>6. during.replaced = 0 => setup'.step \notin {"removing", "making", "copying"}
  OBVIOUS
<1>7. Of("retired") = "none" /\ setup.step \in {"removing", "making"} =>
          /\ Of("retired")' = "none"
          /\ setup'.step \in {"removing", "making"} \/ Settled("retired")'
  BY <1>5
<1> QED BY <1>1, <1>2, <1>3, <1>4, <1>5, <1>6, <1>7 DEF Disturbed

\* What a change of the plugin notes.
LEMMA ChangeFacts ==
    ASSUME InstallFacts, Projecting, NEW t \in Trees, ChangePlugin(t)
    PROVE  /\ plugin' = t /\ during'.replaced = during.replaced
           /\ during.held \subseteq during'.held
           /\ InventoryFits(t) => t.files \in during'.held
BY DEF InstallFacts, ChangePlugin, DuringType

\* A plugin command leaves a file, removes it or settles it, as long as it is
\* the only replacement that the reader meets.
LEMMA SetupDisturbs ==
    ASSUME InstallFacts, Projecting, ReplacementIsSeen, HeldIsKept, SetupNext, during'.replaced <= 1
    PROVE  Disturbed /\ UNCHANGED inspect
<1>0. /\ checkout \in Trees /\ plugin \in Trees /\ setup \in SetupType /\ during \in DuringType
      /\ SetupInOrder /\ market \in Markets
      /\ during.replaced \in 0 .. 2
      /\ during.replaced = 0 => setup.step \notin {"removing", "making", "copying"}
      /\ ~plugin.there => PiecesOf(plugin) = {}
      /\ plugin.files \in [Pieces -> Content]
  BY DEF InstallFacts, ReplacementIsSeen, DuringType, Trees
<1>p. "retired" \in Pieces /\ "manifest" \in Pieces
  BY DEF Pieces
<1>1. ASSUME NEW k \in {"install", "upgrade"}, NEW here \in BOOLEAN, BeginInstall(k, here)
      PROVE  Disturbed
  <2>1. UNCHANGED <<scope, checkout, plugin, inspect>>
    BY <1>1 DEF BeginInstall
  <2> DEFINE begun == [NoSetup EXCEPT !.kind = k, !.inPlace = here, !.others = market.others]
  <2>2. CASE ~Replacement
    <3>1. during' = during
          /\ (setup' = [begun EXCEPT !.fate = "failed"] \/ setup' = [begun EXCEPT !.step = "reading"])
      BY <1>1, <2>2 DEF BeginInstall
    <3>2. setup'.step \in {"idle", "reading"}
      BY <3>1 DEF NoSetup
    <3> QED BY <2>1, <3>1, <3>2, QuietStep
  <2>3. CASE Replacement
    <3>1. during.replaced = 0 /\ during'.replaced = 1 /\ during'.held = during.held
      BY <2>3, <1>0 DEF Replacement, OneMore, DuringType
    <3>2. setup'.step \in {"removing", "making", "reading", "idle"}
      BY <1>1 DEF BeginInstall, FirstStep, NoSetup
    <3>3. setup.step \notin {"removing", "making", "copying"}
      BY <3>1, <1>0
    <3>4. \A p : Of(p)' = Of(p)
      BY <2>1 DEF Of
    <3>5. InventoryFits(plugin)' => plugin'.files \in during'.held
      BY <2>1, <3>1 DEF HeldIsKept, InventoryFits, ReleaseOf, PiecesOf
    <3> QED BY <3>1, <3>2, <3>3, <3>4, <3>5 DEF Disturbed, Settled, OldStays
  <2> QED BY <1>1, <2>2, <2>3 DEF BeginInstall
<1>2. ASSUME NEW removeFiles \in BOOLEAN, BeginUninstall(removeFiles)
      PROVE  Disturbed
  <2>1. UNCHANGED <<plugin, during>> /\ setup'.step = "reading"
    BY <1>2 DEF BeginUninstall, NoSetup
  <2> QED BY <2>1, QuietStep
<1>3. ASSUME NEW p \in Pieces, RemoveFile(p)
      PROVE  Disturbed
  <2> DEFINE t == [plugin EXCEPT !.files[p] = "none"]
  <2>1. t \in Trees /\ t.files = [plugin.files EXCEPT ![p] = "none"]
    BY <1>0 DEF Trees, Content
  <2>2. ChangePlugin(t) /\ UNCHANGED <<setup, checkout>> /\ setup.step = "removing"
    BY <1>3 DEF RemoveFile, SetupKeeps
  <2>3. /\ plugin' = t /\ during'.replaced = during.replaced
        /\ during.held \subseteq during'.held /\ (InventoryFits(t) => t.files \in during'.held)
    BY <2>1, <2>2, ChangeFacts
  <2>4. InventoryFits(plugin)' => plugin'.files \in during'.held
    BY <2>3 DEF InventoryFits, ReleaseOf, PiecesOf
  <2>5. Of(p)' = "none" /\ \A q \in Pieces \ {p} : Of(q)' = Of(q)
    BY <2>1, <2>3, <1>0 DEF Of
  <2>6. during.replaced = 1
    BY <2>2, <2>3, <1>0
  <2> HIDE DEF t
  <2> QED BY <2>2, <2>3, <2>4, <2>5, <2>6, <1>p DEF Disturbed, Settled, OldStays
<1>4. ASSUME NEW p \in Pieces, CopyFile(p)
      PROVE  Disturbed
  <2> DEFINE t == [plugin EXCEPT !.files[p] = checkout.files[p]]
  <2>0. From = checkout /\ setup.step = "copying" /\ p \in setup.left
    BY <1>4, <1>0 DEF CopyFile, From, SetupInOrder
  <2>1. t \in Trees /\ t.files = [plugin.files EXCEPT ![p] = checkout.files[p]]
    BY <1>0 DEF Trees, Content
  <2>2. ChangePlugin(t) /\ UNCHANGED <<checkout>>
        /\ setup'.step = setup.step /\ setup'.left = setup.left \ {p}
    BY <1>4, <2>0, <1>0 DEF CopyFile, SetupKeeps, SetupType
  <2>3. /\ plugin' = t /\ during'.replaced = during.replaced
        /\ during.held \subseteq during'.held /\ (InventoryFits(t) => t.files \in during'.held)
    BY <2>1, <2>2, ChangeFacts
  <2>4. InventoryFits(plugin)' => plugin'.files \in during'.held
    BY <2>3 DEF InventoryFits, ReleaseOf, PiecesOf
  <2>5. Of(p)' = checkout.files[p] /\ \A q \in Pieces \ {p} : Of(q)' = Of(q)
    BY <2>1, <2>3, <1>0 DEF Of
  <2>6. during.replaced = 1
    BY <2>0, <2>3, <1>0
  <2>7. \A q \in Pieces : Settled(q) => q # p /\ Settled(q)'
    BY <2>0, <2>2, <2>3, <2>6 DEF Settled
  <2>8. Settled(p)'
    BY <2>0, <2>2, <2>3, <2>6 DEF Settled
  <2>9. Release("old").files["manifest"] = "old"
    BY DEF Release, Pieces
  <2>10. OldStays => OldStays'
    BY <2>0, <2>2, <2>5, <2>7, <2>9, <1>p DEF OldStays
  <2> HIDE DEF t
  <2>11. /\ Of("retired")' = "none" /\ setup'.step = "copying" /\ "retired" \in setup'.left
         => /\ Of("retired") = "none" /\ setup.step = "copying" /\ "retired" \in setup.left
            /\ checkout' = checkout
            /\ Of("manifest")' \in {Of("manifest"), checkout.files["manifest"]}
    BY <2>0, <2>2, <2>5, <1>p
  <2> QED BY <2>0, <2>2, <2>3, <2>4, <2>5, <2>6, <2>7, <2>8, <2>10, <2>11 DEF Disturbed
<1>5. ASSUME RemoveDirectory
      PROVE  Disturbed
  <2>1. ChangePlugin(NoTree) /\ setup.step = "removing" /\ UNCHANGED checkout
    BY <1>5 DEF RemoveDirectory, SetupKeeps
  <2>2. /\ plugin' = NoTree /\ during'.replaced = during.replaced
        /\ during.held \subseteq during'.held /\ (InventoryFits(NoTree) => NoTree.files \in during'.held)
    BY <2>1, ChangeFacts, ConstantsTyped
  <2>3. InventoryFits(plugin)' => plugin'.files \in during'.held
    BY <2>2 DEF InventoryFits, ReleaseOf, PiecesOf
  <2>4. \A q \in Pieces : Of(q)' = "none"
    BY <2>2 DEF Of, NoTree, NoFiles
  <2>5. during.replaced = 1
    BY <2>1, <2>2, <1>0
  <2>6. setup'.step \in {"making", "idle"}
    <3>1. EndSetup("done") \/ setup' = [setup EXCEPT !.step = "making"]
      BY <1>5 DEF RemoveDirectory
    <3>2. EndSetup("done") => setup'.step = "idle"
      BY <1>0, EndSetupTyped
    <3> QED BY <3>1, <3>2, <1>0 DEF SetupType
  <2> QED BY <2>1, <2>2, <2>3, <2>4, <2>5, <2>6, <1>p DEF Disturbed, Settled, OldStays
<1>6. ASSUME MakeDirectory
      PROVE  Disturbed
  <2>1. setup.step = "making" /\ UNCHANGED checkout /\ ~plugin.there
    BY <1>6, <1>0 DEF MakeDirectory, SetupKeeps, SetupInOrder
  <2>2. \A q \in Pieces : Of(q) = "none"
    BY <2>1, <1>0 DEF PiecesOf, Of
  <2>3. CASE From.there
    <3> DEFINE t == [plugin EXCEPT !.there = TRUE]
    <3>1. t \in Trees /\ t.files = plugin.files
      BY <1>0 DEF Trees
    <3>2. ChangePlugin(t) /\ From = checkout
          /\ setup'.step = "copying" /\ setup'.left = PiecesOf(checkout)
      BY <1>6, <2>1, <2>3, <1>0 DEF MakeDirectory, From, SetupType
    <3>3. /\ plugin' = t /\ during'.replaced = during.replaced
          /\ during.held \subseteq during'.held /\ (InventoryFits(t) => t.files \in during'.held)
      BY <3>1, <3>2, ChangeFacts
    <3>4. InventoryFits(plugin)' => plugin'.files \in during'.held
      BY <3>3 DEF InventoryFits, ReleaseOf, PiecesOf
    <3>5. \A q \in Pieces : Of(q)' = "none"
      BY <2>2, <3>1, <3>3 DEF Of
    <3>6. during.replaced = 1
      BY <2>1, <3>3, <1>0
    <3>7. "retired" \in setup'.left => checkout = Release("old")
      BY <3>2, <1>0, ReleaseFacts DEF SetupInOrder
    <3> HIDE DEF t
    <3>8. Settled("retired")' \/ OldStays'
      BY <2>1, <3>2, <3>3, <3>5, <3>6, <3>7, <1>p DEF Settled, OldStays
    <3> QED BY <2>1, <2>2, <3>2, <3>3, <3>4, <3>5, <3>6, <3>7, <3>8, <1>p
            DEF Disturbed, Settled, OldStays
  <2>4. CASE ~From.there
    <3>1. UNCHANGED <<plugin, during>> /\ setup'.step = "idle"
      BY <1>6, <2>4, <1>0, EndSetupTyped DEF MakeDirectory
    <3> QED BY <3>1, QuietStep
  <2> QED BY <2>3, <2>4
<1>7. ASSUME ReadMarket
      PROVE  Disturbed
  <2>1. UNCHANGED <<plugin, during>> /\ setup'.step \in {"idle", "truncating"}
    <3>1. EndSetup("failed") \/ setup' = [setup EXCEPT !.step = "truncating", !.market = Upserted(market)]
      BY <1>7 DEF ReadMarket
    <3>2. EndSetup("failed") => setup'.step = "idle"
      BY <1>0, EndSetupTyped
    <3> QED BY <3>1, <3>2, <1>0, <1>7 DEF SetupType, ReadMarket
  <2> QED BY <2>1, QuietStep
<1>8. ASSUME Truncate
      PROVE  Disturbed
  <2>1. UNCHANGED <<plugin>> /\ setup'.step = "writing"
        /\ during'.held = during.held /\ during'.replaced = during.replaced
    BY <1>8, <1>0 DEF Truncate, ChangeMarket, SetupType, DuringType
  <2> QED BY <2>1, QuietStep
<1>9. ASSUME WriteMarket
      PROVE  Disturbed
  <2>1. UNCHANGED <<plugin, checkout>> /\ during'.held = during.held /\ setup.step = "writing"
        /\ during'.replaced = IF setup'.step = "removing" THEN OneMore(during.replaced)
                               ELSE during.replaced
    BY <1>9, <1>0 DEF WriteMarket, DuringType, SetupKeeps
  <2>2. setup'.step \in {"idle", "removing"}
    <3>1. EndSetup("done") \/ EndSetup("failed") \/ setup' = [setup EXCEPT !.step = "removing"]
      BY <1>9 DEF WriteMarket
    <3>2. EndSetup("done") \/ EndSetup("failed") => setup'.step = "idle"
      BY <1>0, EndSetupTyped
    <3> QED BY <3>1, <3>2, <1>0 DEF SetupType
  <2>3. CASE setup'.step = "idle"
    BY <2>1, <2>3, QuietStep
  <2>4. CASE setup'.step = "removing"
    <3>1. during.replaced = 0 /\ during'.replaced = 1
      BY <2>1, <2>4, <1>0 DEF OneMore
    <3>2. \A p : Of(p)' = Of(p)
      BY <2>1 DEF Of
    <3>3. InventoryFits(plugin)' => plugin'.files \in during'.held
      BY <2>1, <3>1 DEF HeldIsKept, InventoryFits, ReleaseOf, PiecesOf
    <3> QED BY <2>1, <2>4, <3>1, <3>2, <3>3 DEF Disturbed, Settled, OldStays
  <2> QED BY <2>2, <2>3, <2>4
<1>10. ASSUME BreakOff
       PROVE  Disturbed
  <2>1. UNCHANGED <<plugin, during>> /\ setup'.step = "idle"
    BY <1>10 DEF BreakOff, NoSetup
  <2> QED BY <2>1, QuietStep
<1>11. UNCHANGED inspect
  BY DEF SetupNext, SetupKeeps, BeginInstall, BeginUninstall, RemoveFile, CopyFile, RemoveDirectory,
         MakeDirectory, ReadMarket, Truncate, WriteMarket, BreakOff
<1> QED BY <1>1, <1>2, <1>3, <1>4, <1>5, <1>6, <1>7, <1>8, <1>9, <1>10, <1>11 DEF SetupNext

\* So does everyone outside: a checkout that is switched while it is copied is
\* another replacement.
LEMMA OutsideDisturbs ==
    ASSUME InstallFacts, Projecting, ReplacementIsSeen, HeldIsKept, OutsideNext, during'.replaced <= 1
    PROVE  Disturbed /\ (UNCHANGED inspect \/ TouchCopy)
<1>0. setup \in SetupType /\ during \in DuringType /\ during.replaced \in 0 .. 2
      /\ (setup.step = "copying" => during.replaced # 0)
  BY DEF InstallFacts, DuringType, ReplacementIsSeen
<1>1. UNCHANGED <<scope, plugin>> /\ Disturb
  BY DEF OutsideNext, SwitchCheckout, EditMarket, Register, RegisterElsewhere, TouchCopy,
         Upheaval, Disturb
<1>1a. UNCHANGED plugin
  BY <1>1 DEF Disturb
<1>2. setup'.step \notin {"removing", "making", "copying"}
          \/ (setup'.step = setup.step /\ setup'.left = setup.left)
  BY <1>1, <1>0 DEF Disturb, NoSetup, SetupType
<1>3. CASE SwitchCheckout
  <2>1. /\ during'.held = during.held
        /\ during'.replaced = IF setup.step = "copying" THEN OneMore(during.replaced) ELSE during.replaced
    BY <1>3, <1>0 DEF SwitchCheckout, DuringType
  <2>2. setup.step # "copying" /\ during'.replaced = during.replaced
    BY <2>1, <1>0 DEF OneMore
  <2>3. setup'.step # "copying"
    BY <1>2, <2>2
  <2>4. \A p : Of(p)' = Of(p) /\ (Settled(p) => Settled(p)')
    BY <1>1a, <1>2, <2>2, <2>3 DEF Of, Settled
  <2>5. InventoryFits(plugin)' => plugin'.files \in during'.held
    BY <1>1a, <2>1, <2>2 DEF HeldIsKept, InventoryFits, ReleaseOf, PiecesOf
  <2>6. setup.step \in {"removing", "making"} => setup'.step = setup.step
    BY <1>1, <1>0 DEF Disturb, SetupType
  <2>7. during'.replaced = 0 => setup'.step \notin {"removing", "making", "copying"}
    BY <1>2, <2>2, <2>3 DEF ReplacementIsSeen
  <2> QED BY <1>0, <1>3, <2>1, <2>2, <2>3, <2>4, <2>5, <2>6, <2>7 DEF Disturbed, OldStays, SwitchCheckout
<1>4. CASE ~SwitchCheckout
  <2>1. UNCHANGED checkout /\ during'.held = during.held /\ during'.replaced = during.replaced
    BY <1>4, <1>0 DEF OutsideNext, EditMarket, Register, RegisterElsewhere, TouchCopy, Upheaval, DuringType
  <2>2. Disturbed
    BY <1>1a, <1>2, <2>1, QuietStep
  <2>3. UNCHANGED inspect \/ TouchCopy
    BY <1>4 DEF OutsideNext, EditMarket, Register, RegisterElsewhere
  <2> QED BY <2>2, <2>3
<1> QED BY <1>3, <1>4

\* What a project command knows of the plugin survives the one replacement.
LEMMA ReadingGoesOn ==
    ASSUME InstallFacts, ReadingInv, Projecting, Disturbed, UNCHANGED inspect
    PROVE  ReadingInv'
<1>0. /\ inspect.step \in ProjectSteps /\ inspect'.step \in ProjectSteps
      /\ during.replaced <= 1 /\ during'.replaced <= 1 /\ during.replaced \in 0 .. 2
  BY DEF Projecting, Disturbed, InstallFacts, DuringType
<1>p. "retired" \in Pieces /\ "manifest" \in Pieces
  BY DEF Pieces
<1>1. ReplacementIsSeen'
  BY DEF ReplacementIsSeen, Disturbed
<1>2. HeldIsKept'
  BY DEF HeldIsKept, Disturbed
<1>3. DigestIsHeld'
  BY <1>0 DEF DigestIsHeld, Disturbed, ReadingInv
<1>4. WhatRunsWasInstalled'
  BY <1>0 DEF WhatRunsWasInstalled, ProjectSteps
<1>5. FirstReading'
  <2> SUFFICES ASSUME inspect.step = "inventory" \/ (inspect.step = "read" /\ ~inspect.again)
               PROVE  /\ \A p \in Pieces \ inspect.left : FollowsPlugin(p)'
                      /\ "retired" \notin inspect.left => RetiredComesBack'
                      /\ inspect.step = "inventory" =>
                            /\ inspect.left = {} /\ inspect.digest = inspect.seen
                            /\ \/ inspect.digest["manifest"] = "new"
                               \/ Of("manifest")' = "new" /\ Settled("manifest")'
    BY DEF FirstReading
  <2>1. /\ \A p \in Pieces \ inspect.left : FollowsPlugin(p)
        /\ "retired" \notin inspect.left => RetiredComesBack
        /\ inspect.step = "inventory" =>
              /\ inspect.left = {} /\ inspect.digest = inspect.seen
              /\ \/ inspect.digest["manifest"] = "new"
                 \/ Of("manifest") = "new" /\ Settled("manifest")
    BY <1>0 DEF FirstReading, ReadingInv
  <2>2. ASSUME NEW p \in Pieces \ inspect.left PROVE FollowsPlugin(p)'
    <3>1. FollowsPlugin(p)
      BY <2>1
    <3>2. Settled(p) => Settled(p)'
      BY DEF Disturbed
    <3>3. during.replaced = 1 => during'.replaced = 1
      BY <1>0 DEF Disturbed
    <3>4. Of(p)' = Of(p) \/ (during'.replaced = 1 /\ Of(p)' = "none") \/ Settled(p)'
      BY DEF Disturbed
    <3> QED BY <3>1, <3>2, <3>3, <3>4 DEF FollowsPlugin
  <2>3. ASSUME "retired" \notin inspect.left PROVE RetiredComesBack'
    <3>1. Release("old").files["manifest"] = "old"
      BY DEF Release, Pieces
    <3> QED BY <2>1, <2>3, <3>1 DEF RetiredComesBack, Disturbed
  <2>4. Of("manifest") = "new" /\ Settled("manifest") => Of("manifest")' = "new" /\ Settled("manifest")'
    BY <1>p DEF Disturbed
  <2> QED BY <2>1, <2>2, <2>3, <2>4
<1>6. SecondReading'
  <2> SUFFICES ASSUME inspect.step \in {"list", "read"}, inspect.again
               PROVE  /\ \/ inspect.digest["manifest"] = "new"
                         \/ Of("manifest")' = "new" /\ Stays("manifest")'
                      /\ inspect.sound => \E F \in during'.held : \A p \in Pieces : Agrees(p, F)'
    BY DEF SecondReading
  <2>1. /\ \/ inspect.digest["manifest"] = "new"
           \/ Of("manifest") = "new" /\ Stays("manifest")
        /\ inspect.sound => \E F \in during.held : \A p \in Pieces : Agrees(p, F)
    BY <1>0 DEF SecondReading, ReadingInv
  <2>2. ASSUME NEW p \in Pieces, Stays(p) PROVE Stays(p)' /\ Of(p)' = Of(p)
    BY <2>2 DEF Stays, Disturbed
  <2>3. RetiredIsLost => RetiredIsLost'
    <3> SUFFICES ASSUME RetiredIsLost PROVE RetiredIsLost'
      OBVIOUS
    <3>0. inspect.digest["retired"] # "none"
      BY DEF RetiredIsLost
    <3>1. CASE /\ inspect.step = "read"
               /\ "retired" \notin inspect.left /\ inspect.seen["retired"] = "none"
      BY <3>0, <3>1 DEF RetiredIsLost
    <3>2. CASE inspect.step = "list" /\ Of("retired") = "none" /\ Settled("retired")
      BY <3>0, <3>2, <1>p DEF RetiredIsLost, Disturbed
    <3>3. CASE /\ inspect.step = "list" /\ Of("retired") = "none"
               /\ setup.step \in {"removing", "making"} /\ inspect.digest["manifest"] = "new"
      BY <3>0, <3>3, <1>p DEF RetiredIsLost, Disturbed
    <3>4. CASE /\ inspect.digest["manifest"] = "new" /\ OldStays
               /\ inspect.step = "read" =>
                     "manifest" \in inspect.left \/ inspect.seen["manifest"] # "new"
      BY <3>0, <3>4 DEF RetiredIsLost, Disturbed
    <3> QED BY <3>1, <3>2, <3>3, <3>4 DEF RetiredIsLost
  <2>4. ASSUME NEW F \in during.held, NEW p \in Pieces, Agrees(p, F)
        PROVE  Agrees(p, F)'
    BY <2>2, <2>3, <2>4 DEF Agrees
  <2>5. during.held \subseteq during'.held
    BY DEF Disturbed
  <2> QED BY <2>1, <2>2, <2>4, <2>5, <1>p
<1> QED BY <1>1, <1>2, <1>3, <1>4, <1>5, <1>6 DEF ReadingInv

\* A private copy that is touched has the digest it had.
LEMMA TouchedReading ==
    ASSUME InstallFacts, ReadingInv, Projecting, Disturbed, TouchCopy
    PROVE  ReadingInv'
<1>1. /\ inspect.step = "captured" /\ inspect'.step = "captured"
      /\ inspect'.digest = inspect.digest /\ during.replaced <= 1
  BY DEF TouchCopy, Disturbed, InstallFacts, InspectType, DuringType
<1>2. ReplacementIsSeen' /\ HeldIsKept'
  BY DEF ReplacementIsSeen, HeldIsKept, Disturbed
<1>3. DigestIsHeld'
  BY <1>1 DEF DigestIsHeld, Disturbed, ReadingInv
<1> QED BY <1>1, <1>2, <1>3 DEF ReadingInv, FirstReading, SecondReading, WhatRunsWasInstalled

\* Others are noted only while a project command is at work.
LEMMA UnnoticedStep ==
    ASSUME InstallFacts, ~Projecting, SetupNext \/ OutsideNext
    PROVE  /\ during'.held = during.held /\ during'.replaced = during.replaced
           /\ UNCHANGED inspect
<1>0. during \in DuringType /\ \A n : OneMore(n) = n
  BY DEF InstallFacts, OneMore
<1>1. \A t : ChangePlugin(t) => during'.held = during.held /\ during'.replaced = during.replaced
  BY <1>0 DEF ChangePlugin, DuringType
<1>2. CASE SetupNext
  <2>1. UNCHANGED inspect
    BY <1>2 DEF SetupNext, SetupKeeps, BeginInstall, BeginUninstall, RemoveFile, CopyFile, RemoveDirectory,
         MakeDirectory, ReadMarket, Truncate, WriteMarket, BreakOff
  <2>2. CASE \E k \in {"install", "upgrade"}, here \in BOOLEAN : BeginInstall(k, here)
    BY <2>1, <2>2, <1>0 DEF BeginInstall, Replacement, DuringType
  <2>3. CASE \E removeFiles \in BOOLEAN : BeginUninstall(removeFiles)
    BY <2>1, <2>3 DEF BeginUninstall
  <2>4. CASE \E p \in Pieces : RemoveFile(p) \/ CopyFile(p)
    BY <2>1, <2>4, <1>1 DEF RemoveFile, CopyFile
  <2>5. CASE RemoveDirectory \/ MakeDirectory
    BY <2>1, <2>5, <1>1 DEF RemoveDirectory, MakeDirectory
  <2>6. CASE ReadMarket \/ BreakOff
    BY <2>1, <2>6 DEF ReadMarket, BreakOff
  <2>7. CASE Truncate
    BY <2>1, <2>7, <1>0 DEF Truncate, ChangeMarket, DuringType
  <2>8. CASE WriteMarket
    BY <2>1, <2>8, <1>0 DEF WriteMarket, DuringType
  <2> QED BY <1>2, <2>1, <2>2, <2>3, <2>4, <2>5, <2>6, <2>7, <2>8 DEF SetupNext
<1>3. CASE OutsideNext
  <2>1. UNCHANGED inspect
    BY <1>3 DEF OutsideNext, SwitchCheckout, EditMarket, Register, RegisterElsewhere, TouchCopy,
                Projecting, ProjectSteps
  <2>2. CASE SwitchCheckout
    BY <2>1, <2>2, <1>0 DEF SwitchCheckout, DuringType
  <2>3. CASE Upheaval
    BY <2>1, <2>3, <1>0 DEF Upheaval, DuringType
  <2> QED BY <1>3, <2>1, <2>2, <2>3 DEF OutsideNext, EditMarket, Register, RegisterElsewhere, TouchCopy
<1> QED BY <1>2, <1>3

\* A command of others counts the replacements up, and leaves the reader alone.
LEMMA OthersKeepReading ==
    ASSUME InstallFacts, ReadingInv, SetupNext \/ OutsideNext, InstallFacts'
    PROVE  ReadingInv'
<1>1. CASE ~Projecting
  <2>1. /\ during'.held = during.held /\ during'.replaced = during.replaced /\ UNCHANGED inspect
    BY <1>1, UnnoticedStep
  <2> QED BY <2>1, <1>1 DEF ReadingInv, Projecting, ProjectSteps, ReplacementIsSeen, HeldIsKept,
             FirstReading, SecondReading, DigestIsHeld, WhatRunsWasInstalled
<1>2. CASE Projecting /\ during'.replaced <= 1
  BY <1>2, SetupDisturbs, OutsideDisturbs, ReadingGoesOn, TouchedReading DEF ReadingInv
<1>3. CASE Projecting /\ ~(during'.replaced <= 1)
  <2>1. during'.replaced \in 0 .. 2
    BY DEF InstallFacts, DuringType
  <2>2. during'.replaced = 2
    BY <2>1, <1>3
  <2> QED BY <2>2 DEF ReadingInv, ReplacementIsSeen, HeldIsKept,
             FirstReading, SecondReading, DigestIsHeld, WhatRunsWasInstalled
<1> QED BY <1>1, <1>2, <1>3

\* A project command that goes on looks at what is there.
LEMMA ReaderGoesOn ==
    ASSUME InstallFacts, ReadingInv, Projecting, NEW i \in InspectType, InspectGoes(i)
    PROVE  /\ inspect' = i /\ UNCHANGED during /\ \A p : Of(p)' = Of(p)
           /\ \A p : Settled(p) <=> Settled(p)'
           /\ OldStays <=> OldStays'
           /\ setup' = setup /\ checkout' = checkout /\ plugin' = plugin
           /\ ReplacementIsSeen' /\ HeldIsKept'
<1>1. /\ inspect' = i /\ UNCHANGED during
      /\ setup' = setup /\ checkout' = checkout /\ plugin' = plugin
  BY DEF InspectGoes, InspectKeeps
<1>2. /\ \A p : Of(p)' = Of(p)
      /\ \A p : Settled(p) <=> Settled(p)'
      /\ OldStays <=> OldStays'
  BY <1>1 DEF Of, Settled, OldStays
<1>3. InventoryFits(plugin)' <=> InventoryFits(plugin)
  BY <1>1 DEF InventoryFits, ReleaseOf, PiecesOf
<1>4. ReplacementIsSeen' /\ HeldIsKept'
  BY <1>1, <1>3 DEF ReadingInv, ReplacementIsSeen, HeldIsKept
<1> QED BY <1>1, <1>2, <1>4

\* A refused command has read nothing.
LEMMA RefusedReading ==
    ASSUME inspect'.step \notin ProjectSteps, inspect'.step # "ran"
    PROVE  ReadingInv'
BY DEF ReadingInv, ReplacementIsSeen, HeldIsKept, FirstReading, SecondReading, DigestIsHeld,
       WhatRunsWasInstalled, Projecting, ProjectSteps

\* A project command has read nothing yet.
LEMMA ProjectBegins ==
    ASSUME InstallFacts, BeginProject
    PROVE  ReadingInv'
<1>1. CASE inspect' = [NoInspection EXCEPT !.step = "refused"]
  BY <1>1, RefusedReading DEF NoInspection, ProjectSteps
<1>2. CASE BeginWatch /\ inspect'.step = "list" /\ ~inspect'.again
  <2>1. InspectKeeps /\ during \in DuringType
    BY DEF BeginProject, InstallFacts
  <2>2. /\ during'.held = IF InventoryFits(plugin) THEN {plugin.files} ELSE {}
        /\ during'.replaced = IF setup.step \in {"removing", "making", "copying"} THEN 1 ELSE 0
    BY <1>2, <2>1 DEF BeginWatch, DuringType
  <2>3. InventoryFits(plugin)' <=> InventoryFits(plugin)
    BY <2>1 DEF InspectKeeps, InventoryFits, ReleaseOf, PiecesOf
  <2>4. ReplacementIsSeen' /\ HeldIsKept'
    BY <2>1, <2>2, <2>3 DEF ReplacementIsSeen, HeldIsKept, InspectKeeps
  <2> QED BY <1>2, <2>4 DEF ReadingInv, FirstReading, SecondReading, DigestIsHeld, WhatRunsWasInstalled
<1>3. inspect' = [NoInspection EXCEPT !.step = "refused"]
      \/ (BeginWatch /\ inspect'.step = "list" /\ ~inspect'.again)
  BY DEF BeginProject, NoInspection
<1> QED BY <1>1, <1>2, <1>3

\* The files are listed: what is not there is not read.
LEMMA ListedFiles ==
    ASSUME InstallFacts, ReadingInv, ListFiles
    PROVE  ReadingInv'
<1>1. CASE Refuse
  BY <1>1, RefusedReading DEF Refuse, NoInspection, ProjectSteps
<1>2. CASE ~Refuse
  <2> DEFINE i == [inspect EXCEPT !.step = "read", !.left = PiecesOf(plugin), !.seen = NoFiles]
  <2>0. inspect \in InspectType /\ inspect.step = "list" /\ Projecting /\ InspectGoes(i)
    BY <1>2 DEF ListFiles, InstallFacts, Projecting, ProjectSteps
  <2>1. i \in InspectType /\ i.step = "read" /\ i.left = PiecesOf(plugin) /\ i.seen = NoFiles
        /\ i.again = inspect.again /\ i.digest = inspect.digest /\ i.sound = inspect.sound
    BY <2>0, ConstantsTyped DEF InspectType, InspectSteps, ProjectSteps, PiecesOf
  <2> HIDE DEF i
  <2>2. /\ inspect' = i /\ UNCHANGED during /\ \A p : Of(p)' = Of(p)
        /\ \A p : Settled(p) <=> Settled(p)'
        /\ OldStays <=> OldStays'
        /\ setup' = setup /\ checkout' = checkout
        /\ ReplacementIsSeen' /\ HeldIsKept'
    BY <2>0, <2>1, ReaderGoesOn
  <2>3. \A p \in Pieces : p \in inspect'.left <=> Of(p) # "none"
    BY <2>1, <2>2 DEF Of, PiecesOf
  <2>4. \A p \in Pieces : inspect'.seen[p] = "none"
    BY <2>1, <2>2 DEF NoFiles
  <2>p. "manifest" \in Pieces /\ "retired" \in Pieces
    BY DEF Pieces
  <2>5. FirstReading'
    <3>1. \A p \in Pieces \ inspect'.left : FollowsPlugin(p)'
      BY <2>2, <2>3, <2>4 DEF FollowsPlugin
    <3>2. RetiredComesBack'
      BY <2>4, <2>p DEF RetiredComesBack
    <3> QED BY <3>1, <3>2, <2>1, <2>2 DEF FirstReading
  <2>6. SecondReading'
    <3> SUFFICES ASSUME inspect.again, during.replaced <= 1
                 PROVE  /\ \/ inspect'.digest["manifest"] = "new"
                           \/ Of("manifest")' = "new" /\ Stays("manifest")'
                        /\ inspect'.sound => \E F \in during'.held : \A p \in Pieces : Agrees(p, F)'
      BY <2>1, <2>2 DEF SecondReading
    <3>1. /\ \/ inspect.digest["manifest"] = "new"
             \/ Of("manifest") = "new" /\ Stays("manifest")
          /\ inspect.sound => \E F \in during.held : \A p \in Pieces : Agrees(p, F)
      BY <2>0 DEF ReadingInv, SecondReading
    <3>2. ASSUME NEW p \in Pieces, Stays(p) PROVE Stays(p)'
      BY <3>2, <2>2, <2>3 DEF Stays
    <3>3. RetiredIsLost => RetiredIsLost'
      BY <2>0, <2>1, <2>2, <2>3, <2>4, <2>p DEF RetiredIsLost
    <3>4. ASSUME NEW F \in during.held, NEW p \in Pieces, Agrees(p, F) PROVE Agrees(p, F)'
      BY <3>2, <3>3, <3>4, <2>1, <2>2 DEF Agrees
    <3> QED BY <3>1, <3>2, <3>4, <2>1, <2>2, <2>p
  <2> QED BY <2>1, <2>2, <2>5, <2>6 DEF ReadingInv, DigestIsHeld, WhatRunsWasInstalled
<1> QED BY <1>1, <1>2

\* A file is read as it is.
LEMMA FileIsRead ==
    ASSUME InstallFacts, ReadingInv, NEW r \in Pieces, ReadFile(r)
    PROVE  ReadingInv'
<1>1. CASE Refuse
  BY <1>1, RefusedReading DEF Refuse, NoInspection, ProjectSteps
<1>2. CASE ~Refuse
  <2> DEFINE i == [inspect EXCEPT !.left = @ \ {r}, !.seen[r] = plugin.files[r]]
  <2>0. inspect \in InspectType /\ inspect.step = "read" /\ Projecting /\ InspectGoes(i)
        /\ Of(r) # "none" /\ r \in inspect.left
    BY <1>2 DEF ReadFile, InstallFacts, Projecting, ProjectSteps, PiecesOf, Of, IsNext
  <2>1. i \in InspectType /\ i.step = "read" /\ i.left = inspect.left \ {r}
        /\ i.seen = [inspect.seen EXCEPT ![r] = plugin.files[r]]
        /\ i.again = inspect.again /\ i.digest = inspect.digest /\ i.sound = inspect.sound
    BY <2>0 DEF InspectType, InstallFacts, Trees
  <2> HIDE DEF i
  <2>2. /\ inspect' = i /\ UNCHANGED during /\ \A p : Of(p)' = Of(p)
        /\ \A p : Settled(p) <=> Settled(p)'
        /\ OldStays <=> OldStays'
        /\ setup' = setup /\ checkout' = checkout
        /\ ReplacementIsSeen' /\ HeldIsKept'
    BY <2>0, <2>1, ReaderGoesOn
  <2>3. inspect'.seen[r] = Of(r) /\ \A p \in Pieces \ {r} : inspect'.seen[p] = inspect.seen[p]
    BY <2>0, <2>1, <2>2 DEF Of, InspectType
  <2>4. inspect'.left = inspect.left \ {r}
    BY <2>1, <2>2
  <2>p. "manifest" \in Pieces /\ "retired" \in Pieces
    BY DEF Pieces
  <2>5. FirstReading'
    <3> SUFFICES ASSUME ~inspect.again, during.replaced <= 1
                 PROVE  /\ \A p \in Pieces \ inspect'.left : FollowsPlugin(p)'
                        /\ "retired" \notin inspect'.left => RetiredComesBack'
      BY <2>1, <2>2 DEF FirstReading
    <3>1. /\ \A p \in Pieces \ inspect.left : FollowsPlugin(p)
          /\ "retired" \notin inspect.left => RetiredComesBack
      BY <2>0 DEF FirstReading, ReadingInv
    <3>2. ASSUME NEW p \in Pieces \ inspect'.left PROVE FollowsPlugin(p)'
      BY <3>1, <2>2, <2>3, <2>4 DEF FollowsPlugin
    <3>3. ASSUME "retired" \notin inspect'.left PROVE RetiredComesBack'
      BY <3>1, <3>3, <2>0, <2>2, <2>3, <2>4, <2>p DEF RetiredComesBack
    <3> QED BY <3>2, <3>3
  <2>6. SecondReading'
    <3> SUFFICES ASSUME inspect.again, during.replaced <= 1
                 PROVE  /\ \/ inspect'.digest["manifest"] = "new"
                           \/ Of("manifest")' = "new" /\ Stays("manifest")'
                        /\ inspect'.sound => \E F \in during'.held : \A p \in Pieces : Agrees(p, F)'
      BY <2>1, <2>2 DEF SecondReading
    <3>1. /\ \/ inspect.digest["manifest"] = "new"
             \/ Of("manifest") = "new" /\ Stays("manifest")
          /\ inspect.sound => \E F \in during.held : \A p \in Pieces : Agrees(p, F)
      BY <2>0 DEF ReadingInv, SecondReading
    <3>2. ASSUME NEW p \in Pieces, Stays(p) PROVE Stays(p)'
      BY <3>2, <2>0, <2>1, <2>2, <2>3, <2>4 DEF Stays
    <3>3. RetiredIsLost => RetiredIsLost'
      <4> SUFFICES ASSUME RetiredIsLost PROVE RetiredIsLost'
        OBVIOUS
      <4>1. inspect'.digest["retired"] # "none"
        BY <2>1, <2>2 DEF RetiredIsLost
      <4>2. CASE "retired" \notin inspect.left /\ inspect.seen["retired"] = "none"
        BY <4>1, <4>2, <2>0, <2>1, <2>2, <2>3, <2>4, <2>p DEF RetiredIsLost
      <4>3. CASE /\ inspect.digest["manifest"] = "new" /\ OldStays
                 /\ "manifest" \in inspect.left \/ inspect.seen["manifest"] # "new"
        <5>1. inspect'.digest["manifest"] = "new" /\ OldStays'
          BY <4>3, <2>1, <2>2
        <5>2. "manifest" \in inspect'.left \/ inspect'.seen["manifest"] # "new"
          BY <4>3, <2>2, <2>3, <2>4, <2>p DEF OldStays
        <5> QED BY <4>1, <5>1, <5>2 DEF RetiredIsLost
      <4> QED BY <4>2, <4>3, <2>0 DEF RetiredIsLost
    <3>4. ASSUME NEW F \in during.held, NEW p \in Pieces, Agrees(p, F) PROVE Agrees(p, F)'
      BY <3>2, <3>3, <3>4, <2>1, <2>2 DEF Agrees
    <3> QED BY <3>1, <3>2, <3>4, <2>1, <2>2, <2>p
  <2> QED BY <2>1, <2>2, <2>5, <2>6 DEF ReadingInv, DigestIsHeld, WhatRunsWasInstalled
<1> QED BY <1>1, <1>2

\* The release of the plugin is looked up again after the first digest.
LEMMA IdentityIsChecked ==
    ASSUME InstallFacts, ReadingInv, CheckIdentity
    PROVE  ReadingInv'
<1>1. CASE Refuse
  BY <1>1, RefusedReading DEF Refuse, NoInspection, ProjectSteps
<1>2. CASE ~Refuse
  <2> DEFINE i == [inspect EXCEPT !.step = "inventory", !.digest = inspect.seen]
  <2>0. inspect \in InspectType /\ inspect.step = "read" /\ Projecting /\ InspectGoes(i)
        /\ Of("manifest") = "new" /\ inspect.left = {} /\ ~inspect.again
    BY <1>2 DEF CheckIdentity, InstallFacts, Projecting, ProjectSteps, ReleaseOf, Of
  <2>1. i \in InspectType /\ i.step = "inventory" /\ i.left = {}
        /\ i.seen = inspect.seen /\ i.digest = inspect.seen
    BY <2>0 DEF InspectType, InspectSteps, ProjectSteps
  <2> HIDE DEF i
  <2>2. /\ inspect' = i /\ UNCHANGED during /\ \A p : Of(p)' = Of(p)
        /\ \A p : Settled(p) <=> Settled(p)'
        /\ setup' = setup /\ checkout' = checkout
        /\ ReplacementIsSeen' /\ HeldIsKept'
    BY <2>0, <2>1, ReaderGoesOn
  <2>p. "manifest" \in Pieces /\ "retired" \in Pieces
    BY DEF Pieces
  <2>3. FirstReading'
    <3> SUFFICES ASSUME during.replaced <= 1
                 PROVE  /\ \A p \in Pieces : FollowsPlugin(p)'
                        /\ RetiredComesBack'
                        /\ \/ inspect'.digest["manifest"] = "new"
                           \/ Of("manifest")' = "new" /\ Settled("manifest")'
      BY <2>1, <2>2 DEF FirstReading
    <3>1. (\A p \in Pieces : FollowsPlugin(p)) /\ RetiredComesBack
      BY <2>0 DEF FirstReading, ReadingInv
    <3>2. (\A p \in Pieces : FollowsPlugin(p)') /\ RetiredComesBack'
      BY <3>1, <2>1, <2>2 DEF FollowsPlugin, RetiredComesBack
    <3>3. FollowsPlugin("manifest")
      BY <3>1, <2>p
    <3> QED BY <3>2, <3>3, <2>0, <2>1, <2>2 DEF FollowsPlugin
  <2> QED BY <2>1, <2>2, <2>3 DEF ReadingInv, SecondReading, DigestIsHeld, WhatRunsWasInstalled
<1> QED BY <1>1, <1>2

\* What is complete is what is held, or what the second digest will differ from.
LEMMA InventoryIsChecked ==
    ASSUME InstallFacts, ReadingInv, CheckInventory
    PROVE  ReadingInv'
<1> DEFINE i == [inspect EXCEPT !.step = "list", !.again = TRUE, !.sound = InventoryFits(plugin)]
<1>0. inspect \in InspectType /\ inspect.step = "inventory" /\ Projecting /\ InspectGoes(i)
      /\ SetupInOrder /\ (~plugin.there => PiecesOf(plugin) = {}) /\ plugin \in Trees
  BY DEF CheckInventory, InstallFacts, Projecting, ProjectSteps
<1>1. i \in InspectType /\ i.step = "list" /\ i.again /\ (i.sound <=> InventoryFits(plugin))
      /\ i.seen = inspect.seen /\ i.digest = inspect.digest
  <2>1. InventoryFits(plugin) \in BOOLEAN
    BY DEF InventoryFits
  <2> QED BY <2>1, <1>0 DEF InspectType, InspectSteps, ProjectSteps
<1> HIDE DEF i
<1>2. /\ inspect' = i /\ UNCHANGED during /\ \A p : Of(p)' = Of(p)
      /\ \A p : Settled(p) <=> Settled(p)'
      /\ setup' = setup /\ checkout' = checkout
      /\ ReplacementIsSeen' /\ HeldIsKept'
  BY <1>0, <1>1, ReaderGoesOn
<1>p. "manifest" \in Pieces /\ "retired" \in Pieces
  BY DEF Pieces
<1>3. SecondReading'
  <2> SUFFICES ASSUME during.replaced <= 1
               PROVE  /\ \/ inspect.digest["manifest"] = "new"
                         \/ Of("manifest") = "new" /\ Stays("manifest")'
                      /\ InventoryFits(plugin) => \E F \in during.held : \A p \in Pieces : Agrees(p, F)'
    BY <1>1, <1>2 DEF SecondReading
  <2>1. /\ inspect.left = {} /\ inspect.digest = inspect.seen
        /\ \A p \in Pieces : FollowsPlugin(p)
        /\ RetiredComesBack
        /\ \/ inspect.digest["manifest"] = "new"
           \/ Of("manifest") = "new" /\ Settled("manifest")
    BY <1>0 DEF FirstReading, ReadingInv
  <2>2. ASSUME NEW p \in Pieces, Settled(p), Of(p) # "none" PROVE Stays(p)'
    BY <2>2, <1>1, <1>2 DEF Stays
  <2>3. \/ inspect.digest["manifest"] = "new"
        \/ Of("manifest") = "new" /\ Stays("manifest")'
    BY <2>1, <2>2, <1>p
  <2>4. ASSUME InventoryFits(plugin) PROVE \A p \in Pieces : Agrees(p, plugin.files)'
    <3> TAKE p \in Pieces
    <3>0. Agrees(p, plugin.files)' <=>
              \/ inspect'.digest[p] = plugin'.files[p]
              \/ plugin'.files[p] = Of(p)' /\ Stays(p)'
              \/ p = "retired" /\ RetiredIsLost'
      BY DEF Agrees
    <3>a. plugin' = plugin
      BY <1>0 DEF InspectGoes, InspectKeeps
    <3>1. CASE inspect.digest[p] = Of(p)
      BY <3>0, <3>a, <3>1, <1>1, <1>2 DEF Of
    <3>2. CASE Of(p) # "none" /\ inspect.digest[p] # Of(p)
      <4>1. Settled(p)
        BY <3>2, <2>1 DEF FollowsPlugin
      <4> QED BY <4>1, <3>2, <2>2, <3>0, <3>a DEF Of
    <3>3. CASE Of(p) = "none" /\ inspect.digest[p] # Of(p)
      <4>1. p = "retired" /\ Of("manifest") = "new" /\ plugin.there
        <5>1. p \notin PiecesOf(plugin) /\ ReleaseOf(plugin) # "none"
              /\ PiecesOf(plugin) = Listed(ReleaseOf(plugin))
          BY <3>3, <2>4 DEF PiecesOf, Of, InventoryFits
        <5>2. Listed(ReleaseOf(plugin)) # Pieces
          BY <5>1
        <5>3. ReleaseOf(plugin) # "old" /\ p = "retired"
          BY <5>1, <5>2 DEF Listed
        <5>4. ReleaseOf(plugin) \in Content
          BY <1>0, <1>p DEF ReleaseOf, Trees
        <5>5. ReleaseOf(plugin) = "new" /\ "manifest" \in PiecesOf(plugin)
          BY <5>1, <5>3, <5>4, <1>p DEF Content, Releases, ReleaseOf, PiecesOf
        <5> QED BY <5>3, <5>5, <1>0 DEF ReleaseOf, Of
      <4>2. CASE Settled("retired")
        BY <4>1, <4>2, <3>3, <3>0, <1>1, <1>2 DEF RetiredIsLost
      <4>3. CASE ~Settled("retired")
        <5>1. during.replaced = 1
          BY <4>1, <4>3, <3>3, <2>1 DEF FollowsPlugin
        <5>2. setup.step \in {"removing", "making"}
              \/ (setup.step = "copying" /\ "retired" \in setup.left)
          BY <5>1, <4>3 DEF Settled
        <5>3. ~(setup.step = "copying" /\ "retired" \in setup.left)
          BY <4>1, <3>3, <2>1 DEF RetiredComesBack
        <5>4. setup.step = "removing"
          BY <5>2, <5>3, <4>1, <1>0 DEF SetupInOrder
        <5>5. inspect.digest["manifest"] = "new"
          BY <5>4, <4>1, <2>1, <1>p DEF FollowsPlugin, Settled
        <5> QED BY <5>4, <5>5, <4>1, <3>3, <3>0, <1>1, <1>2 DEF RetiredIsLost
      <4> QED BY <4>2, <4>3
    <3> QED BY <3>1, <3>2, <3>3
  <2>5. InventoryFits(plugin) => plugin.files \in during.held
    BY <1>0 DEF ReadingInv, HeldIsKept
  <2>6. ASSUME InventoryFits(plugin) PROVE \E F \in during.held : \A p \in Pieces : Agrees(p, F)'
    <3>1. PICK F \in during.held : F = plugin.files
      BY <2>5, <2>6
    <3>2. plugin'.files = F
      BY <3>1, <1>0 DEF InspectGoes, InspectKeeps
    <3>3. \A p \in Pieces : Agrees(p, F)'
      BY <2>4, <2>6, <3>2 DEF Agrees
    <3> QED BY <3>3
  <2> QED BY <2>3, <2>6
<1> QED BY <1>1, <1>2, <1>3 DEF ReadingInv, FirstReading, DigestIsHeld, WhatRunsWasInstalled

\* Content that was read twice and was complete in between was there, as a
\* whole, at that moment (validate_project_runtime_root).
LEMMA CaptureBegins ==
    ASSUME InstallFacts, ReadingInv, Capture
    PROVE  ReadingInv'
<1>1. CASE Refuse
  BY <1>1, RefusedReading DEF Refuse, NoInspection, ProjectSteps
<1>2. CASE ~Refuse
  <2> DEFINE i == [inspect EXCEPT !.step = "copy", !.digest = inspect.seen,
                                  !.left = PiecesOf(plugin), !.seen = NoFiles]
  <2>0. inspect \in InspectType /\ inspect.step = "read" /\ Projecting /\ InspectGoes(i)
        /\ inspect.left = {} /\ inspect.again /\ inspect.seen = inspect.digest /\ inspect.sound
    BY <1>2 DEF Capture, InstallFacts, Projecting, ProjectSteps, Accepted, SeenAgain
  <2>1. i \in InspectType /\ i.step = "copy" /\ i.digest = inspect.seen
    BY <2>0, ConstantsTyped DEF InspectType, InspectSteps, ProjectSteps, PiecesOf
  <2> HIDE DEF i
  <2>2. inspect' = i /\ UNCHANGED during /\ ReplacementIsSeen' /\ HeldIsKept'
    BY <2>0, <2>1, ReaderGoesOn
  <2>p. "manifest" \in Pieces /\ "retired" \in Pieces
    BY DEF Pieces
  <2>3. ASSUME during.replaced <= 1
        PROVE  inspect.seen \in during.held /\ inspect.seen["manifest"] = "new"
    <3>1. /\ \/ inspect.digest["manifest"] = "new"
             \/ Of("manifest") = "new" /\ Stays("manifest")
          /\ \E F \in during.held : \A p \in Pieces : Agrees(p, F)
      BY <2>0, <2>3 DEF ReadingInv, SecondReading
    <3>2. \A p \in Pieces : Stays(p) => inspect.seen[p] = Of(p)
      BY <2>0 DEF Stays
    <3>3. ~RetiredIsLost
      BY <2>0 DEF RetiredIsLost
    <3>4. PICK F \in during.held : \A p \in Pieces : Agrees(p, F)
      BY <3>1
    <3>5. \A p \in Pieces : inspect.seen[p] = F[p]
      BY <3>2, <3>3, <3>4, <2>0 DEF Agrees
    <3>6. F \in [Pieces -> Content] /\ inspect.seen \in [Pieces -> Content]
      BY <2>0 DEF InstallFacts, DuringType, InspectType
    <3>7. inspect.seen = F
      BY <3>5, <3>6
    <3> QED BY <3>1, <3>2, <3>7, <2>0, <2>p
  <2>4. DigestIsHeld'
    BY <2>1, <2>2, <2>3 DEF DigestIsHeld
  <2> QED BY <2>1, <2>2, <2>4 DEF ReadingInv, FirstReading, SecondReading, WhatRunsWasInstalled
<1> QED BY <1>1, <1>2

\* The private copy is compared with the digest, and again when it is run
\* (run_project_harness_capture).
LEMMA CaptureGoesOn ==
    ASSUME InstallFacts, ReadingInv,
           VerifyCapture \/ RunCopy \/ \E p \in Pieces : CaptureFile(p)
    PROVE  ReadingInv'
<1>1. CASE Refuse
  BY <1>1, RefusedReading DEF Refuse, NoInspection, ProjectSteps
<1>2. CASE ~Refuse
  <2>0. inspect \in InspectType /\ inspect.step \in {"copy", "captured"} /\ Projecting
    BY DEF VerifyCapture, RunCopy, CaptureFile, InstallFacts, Projecting, ProjectSteps
  <2>1. CASE RunCopy
    <3>1. /\ inspect.seen = inspect.digest /\ inspect'.seen = inspect.seen /\ inspect'.step = "ran"
          /\ UNCHANGED during
      BY <2>1, <1>2 DEF RunCopy, CopyIsVerified, InspectGoes, NoInspection
    <3>2. WhatRunsWasInstalled'
      BY <3>1, <2>0 DEF WhatRunsWasInstalled, ReadingInv, DigestIsHeld
    <3> QED BY <3>1, <3>2 DEF ReadingInv, ReplacementIsSeen, HeldIsKept, FirstReading, SecondReading,
               DigestIsHeld, Projecting, ProjectSteps
  <2>2. CASE ~RunCopy
    <3>1. PICK i : InspectGoes(i) /\ i \in InspectType /\ i.step \in {"copy", "captured"}
                   /\ i.digest = inspect.digest
      <4>1. CASE VerifyCapture
        <5>1. InspectGoes([inspect EXCEPT !.step = "captured"])
          BY <4>1, <1>2 DEF VerifyCapture, InspectTo
        <5> QED BY <5>1, <2>0 DEF InspectType, InspectSteps, ProjectSteps
      <4>2. CASE \E p \in Pieces : CaptureFile(p)
        <5>1. PICK p \in Pieces : CaptureFile(p)
          BY <4>2
        <5>2. InspectGoes([inspect EXCEPT !.left = @ \ {p}, !.seen[p] = plugin.files[p]])
              /\ plugin.files[p] \in Content
          BY <5>1, <1>2 DEF CaptureFile, InstallFacts, Trees
        <5> DEFINE i == [inspect EXCEPT !.left = @ \ {p}, !.seen[p] = plugin.files[p]]
        <5>3. i \in InspectType /\ i.step = inspect.step /\ i.digest = inspect.digest
          BY <5>2, <2>0 DEF InspectType
        <5>4. InspectGoes(i)
          BY <5>2
        <5> HIDE DEF i
        <5> QED BY <5>3, <5>4, <2>0
      <4> QED BY <4>1, <4>2, <2>2
    <3>2. inspect' = i /\ UNCHANGED during /\ ReplacementIsSeen' /\ HeldIsKept'
      BY <3>1, <2>0, ReaderGoesOn
    <3>3. DigestIsHeld'
      BY <3>1, <3>2, <2>0 DEF DigestIsHeld, ReadingInv
    <3> QED BY <3>1, <3>2, <3>3 DEF ReadingInv, FirstReading, SecondReading, WhatRunsWasInstalled
  <2> QED BY <2>1, <2>2
<1> QED BY <1>1, <1>2

\* Every step keeps what a project command knows of the plugin.
LEMMA ReadingStep ==
    ASSUME InstallFacts, InstallFacts', ReadingInv, [InstallNext]_pluginVars
    PROVE  ReadingInv'
<1>1. CASE SetupNext \/ OutsideNext
  BY <1>1, OthersKeepReading
<1>2. CASE BeginDoctor \/ LookAtSource \/ LookAtInstalled \/ LookAtRegistration
  <2>1. inspect'.step \in {"source", "installed", "registered", "idle"}
    <3>1. inspect \in InspectType
      BY DEF InstallFacts
    <3>2. CASE BeginDoctor
      BY <3>2 DEF BeginDoctor, NoInspection
    <3>3. CASE LookAtSource
      <4>1. inspect'.step = "installed"
        BY <3>1, <3>3 DEF LookAtSource, InspectType
      <4> QED BY <4>1
    <3>4. CASE LookAtInstalled
      <4>1. inspect'.step = "registered" \/ inspect' = NoInspection
        BY <3>1, <3>4 DEF LookAtInstalled, InspectType, EndDoctor
      <4> QED BY <4>1 DEF NoInspection
    <3>5. CASE LookAtRegistration
      BY <3>5 DEF LookAtRegistration, EndDoctor, NoInspection
    <3> QED BY <1>2, <3>2, <3>3, <3>4, <3>5
  <2> QED BY <2>1, RefusedReading DEF ProjectSteps
<1>3. CASE UNCHANGED pluginVars
  <2> USE <1>3 DEF pluginVars
  <2>1. /\ ReplacementIsSeen' /\ HeldIsKept' /\ DigestIsHeld' /\ WhatRunsWasInstalled'
    BY DEF ReadingInv, ReplacementIsSeen, HeldIsKept, DigestIsHeld, WhatRunsWasInstalled,
           Projecting, InventoryFits, ReleaseOf, PiecesOf
  <2>2. FirstReading'
    BY DEF ReadingInv, FirstReading, FollowsPlugin, RetiredComesBack, Settled, Of
  <2>3. SecondReading'
    <3>1. \A F \in during.held, p \in Pieces : Agrees(p, F)' <=> Agrees(p, F)
      BY DEF Agrees, RetiredIsLost, OldStays, Stays, Settled, Of
    <3> QED BY <3>1 DEF ReadingInv, SecondReading, Stays, Settled, Of
  <2> QED BY <2>1, <2>2, <2>3 DEF ReadingInv
<1> QED BY <1>1, <1>2, <1>3, ProjectBegins, ListedFiles, FileIsRead, IdentityIsChecked,
           InventoryIsChecked, CaptureBegins, CaptureGoesOn DEF InstallNext, InspectNext

\* Nothing has been read.
LEMMA ReadingInit == InstallInit => ReadingInv
<1> SUFFICES ASSUME InstallInit PROVE ReadingInv
  OBVIOUS
<1>1. inspect.step = "idle" /\ ~Projecting
  BY DEF InstallInit, NoInspection, Projecting, ProjectSteps
<1> QED BY <1>1 DEF ReadingInv, ReplacementIsSeen, HeldIsKept, FirstReading, SecondReading,
           DigestIsHeld, WhatRunsWasInstalled

\* While nothing changes, what the doctor saw is there, and what a project
\* command has read of it is all there is.
VerdictIsRight ==
    /\ during.verdict = "healthy" /\ scope = "user" =>
           plugin.there /\ plugin = checkout /\ InventoryFits(plugin) /\ KnownToCodex
    /\ during.verdict = "pending" /\ scope = "user"
       /\ inspect.step = "registered" /\ inspect.sound =>
           plugin.there /\ plugin = checkout /\ InventoryFits(plugin)

Trusted ==
    /\ during.verdict = "healthy" /\ scope = "user"
    /\ ~registry.second /\ ReleaseOf(checkout) = "new"

ReadingIsExact ==
    Trusted /\ Projecting =>
        /\ inspect.registered \in {"none", "new"}
        /\ inspect.step \in {"read", "copy"} =>
               /\ inspect.left \subseteq PiecesOf(plugin)
               /\ \A p \in Pieces \ inspect.left : inspect.seen[p] = plugin.files[p]
        /\ inspect.step \in {"inventory", "copy", "captured"} \/ inspect.again =>
               inspect.digest = plugin.files
        /\ inspect.step \in {"list", "read"} /\ inspect.again => inspect.sound
        /\ inspect.step = "captured" => inspect.seen = inspect.digest

HealthInv == VerdictIsRight /\ ReadingIsExact /\ HealthyRuns

\* What a plugin command has done so far, if nobody else was at work.
WholeSoFar ==
    /\ setup.fate # "unknown" => setup.step = "idle" /\ setup.alone
    /\ setup.alone =>
        /\ ~setup.hurt
        /\ setup.step \in {"removing", "making", "copying", "reading"} =>
               market.others = setup.others
        /\ setup.step = "copying" =>
               /\ setup.left \subseteq PiecesOf(checkout)
               /\ \A p \in Pieces \ setup.left : plugin.files[p] = checkout.files[p]
        /\ setup.step \in {"reading", "truncating", "writing"} /\ setup.kind # "uninstall" =>
               InventoryFits(plugin) /\ plugin = From
        /\ setup.step \in {"truncating", "writing"} =>
               /\ setup.market.file = "whole" /\ setup.market.others = setup.others
               /\ setup.market.ours = IF setup.kind = "uninstall" THEN 0 ELSE 1
        /\ setup.step = "removing" /\ setup.kind = "uninstall" =>
               market.file = "whole" /\ market.ours = 0

WholeInv == WholeSoFar /\ InstallIsWhole /\ UpgradeRepairs

\* The doctor has seen the user's plugin as it is.
LEMMA DoctorStep ==
    ASSUME InstallFacts, HealthInv,
           BeginDoctor \/ LookAtSource \/ LookAtInstalled \/ LookAtRegistration
    PROVE  HealthInv'
<1>0. /\ InspectKeeps /\ inspect \in InspectType /\ during \in DuringType
      /\ scope \in {"user", "repo"} /\ \E r \in Releases : checkout = Release(r)
  BY DEF InstallFacts, SetupInOrder, BeginDoctor, LookAtSource, LookAtInstalled, LookAtRegistration
<1>1. /\ InventoryFits(plugin)' <=> InventoryFits(plugin)
      /\ KnownToCodex' <=> KnownToCodex
  BY <1>0 DEF InspectKeeps, InventoryFits, ReleaseOf, PiecesOf, KnownToCodex
<1>2. /\ plugin' = plugin /\ checkout' = checkout /\ scope' = scope /\ registry' = registry
  BY <1>0 DEF InspectKeeps
<1>a. ASSUME inspect'.step \in {"source", "installed", "registered", "idle"}, VerdictIsRight'
      PROVE  HealthInv'
  <2>1. inspect'.step \notin ProjectSteps /\ inspect'.step # "refused"
    BY <1>a DEF ProjectSteps
  <2> QED BY <2>1, <1>a DEF HealthInv, ReadingIsExact, HealthyRuns, Projecting
<1>3. CASE BeginDoctor
  <2>1. during'.verdict = "pending" /\ inspect'.step = "source"
    BY <1>3 DEF BeginDoctor, NoInspection
  <2> QED BY <2>1, <1>a DEF VerdictIsRight
<1>4. CASE LookAtSource
  <2>1. UNCHANGED during /\ inspect'.step = "installed"
    BY <1>4, <1>0 DEF LookAtSource, InspectType
  <2>2. VerdictIsRight'
    BY <2>1, <1>1, <1>2 DEF HealthInv, VerdictIsRight
  <2> QED BY <2>1, <2>2, <1>a
<1>5. CASE LookAtInstalled
  <2>1. CASE scope = "repo"
    <3>1. inspect'.step = "idle" /\ scope' = "repo"
      BY <1>5, <2>1, <1>2 DEF LookAtInstalled, EndDoctor, NoInspection
    <3> QED BY <3>1, <1>a DEF VerdictIsRight
  <2>2. CASE scope = "user"
    <3> DEFINE sound == inspect.sound /\ market.file = "whole" /\ market.ours = 1
                        /\ plugin.there /\ plugin = DoctorSource
    <3>1. UNCHANGED during /\ inspect' = [inspect EXCEPT !.step = "registered", !.sound = sound]
      BY <1>5, <2>2 DEF LookAtInstalled
    <3>2. sound => plugin.there /\ plugin = checkout
      BY <2>2 DEF DoctorSource
    <3> HIDE DEF sound
    <3>3. inspect'.step = "registered" /\ (inspect'.sound <=> sound)
      BY <3>1, <1>0 DEF InspectType
    <3>4. plugin = checkout => InventoryFits(plugin)
      BY <1>0, ReleaseFacts
    <3>5. VerdictIsRight'
      BY <3>1, <3>2, <3>3, <3>4, <1>1, <1>2 DEF HealthInv, VerdictIsRight
    <3> QED BY <3>3, <3>5, <1>a
  <2> QED BY <1>0, <2>1, <2>2
<1>6. CASE LookAtRegistration
  <2>1. /\ inspect.step = "registered" /\ inspect'.step = "idle"
        /\ during'.verdict = "healthy" =>
               inspect.sound /\ KnownToCodex /\ during.verdict = "pending"
        /\ during'.verdict # "pending"
    BY <1>6, <1>0 DEF LookAtRegistration, EndDoctor, NoInspection, DuringType
  <2>2. VerdictIsRight'
    BY <2>1, <1>1, <1>2 DEF HealthInv, VerdictIsRight
  <2> QED BY <2>1, <2>2, <1>a
<1> QED BY <1>3, <1>4, <1>5, <1>6

\* A project command of the same release reads what the doctor saw.
LEMMA ProjectStep ==
    ASSUME InstallFacts, HealthInv, InspectKeeps,
           \/ BeginProject \/ ListFiles \/ CheckIdentity \/ CheckInventory
           \/ Capture \/ VerifyCapture \/ RunCopy
           \/ \E p \in Pieces : ReadFile(p) \/ CaptureFile(p)
    PROVE  HealthInv'
<1>0. /\ inspect \in InspectType /\ during \in DuringType /\ plugin \in Trees
      /\ scope \in {"user", "repo"} /\ checkout \in Trees
  BY DEF InstallFacts
<1>1. /\ InventoryFits(plugin)' <=> InventoryFits(plugin)
      /\ KnownToCodex' <=> KnownToCodex
      /\ PiecesOf(plugin)' = PiecesOf(plugin)
      /\ plugin' = plugin /\ checkout' = checkout /\ scope' = scope /\ registry' = registry
  BY DEF InspectKeeps, InventoryFits, ReleaseOf, PiecesOf, KnownToCodex
<1>n. /\ NoInspection.registered = "none" /\ NoInspection.again = FALSE
      /\ inspect'.step # "registered" /\ during'.verdict = during.verdict
  BY <1>0 DEF BeginProject, BeginWatch, ListFiles, CheckIdentity, CheckInventory, Capture, VerifyCapture,
          RunCopy, ReadFile, CaptureFile, Refuse, InspectGoes, InspectTo, NoInspection, InspectType,
          DuringType
<1>2. VerdictIsRight'
  BY <1>1, <1>n DEF HealthInv, VerdictIsRight
<1>3. Trusted' <=> Trusted
  BY <1>1, <1>n DEF Trusted, ReleaseOf
<1>4. CASE ~Trusted
  BY <1>2, <1>3, <1>1, <1>4, <1>0 DEF HealthInv, ReadingIsExact, HealthyRuns, Trusted, ReleaseOf
<1>5. CASE Trusted
  <2>1. /\ plugin.there /\ plugin = checkout /\ InventoryFits(plugin) /\ KnownToCodex
        /\ ReleaseOf(plugin) = "new" /\ registry.version = "new" /\ ~registry.second
    BY <1>5 DEF Trusted, HealthInv, VerdictIsRight, KnownToCodex
  <2>2. SUFFICES /\ inspect'.step # "refused"
                 /\ inspect'.step \in ProjectSteps =>
                    /\ inspect'.registered \in {"none", "new"}
                    /\ inspect'.step \in {"read", "copy"} =>
                           /\ inspect'.left \subseteq PiecesOf(plugin)
                           /\ \A p \in Pieces \ inspect'.left : inspect'.seen[p] = plugin.files[p]
                    /\ inspect'.step \in {"inventory", "copy", "captured"} \/ inspect'.again =>
                           inspect'.digest = plugin.files
                    /\ inspect'.step \in {"list", "read"} /\ inspect'.again => inspect'.sound
                    /\ inspect'.step = "captured" => inspect'.seen = inspect'.digest
    BY <1>1, <1>2, <1>3 DEF HealthInv, ReadingIsExact, HealthyRuns, Projecting
  <2>3. Projecting =>
        /\ inspect.registered \in {"none", "new"}
        /\ inspect.step \in {"read", "copy"} =>
               /\ inspect.left \subseteq PiecesOf(plugin)
               /\ \A p \in Pieces \ inspect.left : inspect.seen[p] = plugin.files[p]
        /\ inspect.step \in {"inventory", "copy", "captured"} \/ inspect.again =>
               inspect.digest = plugin.files
        /\ inspect.step \in {"list", "read"} /\ inspect.again => inspect.sound
        /\ inspect.step = "captured" => inspect.seen = inspect.digest
    BY <1>5 DEF HealthInv, ReadingIsExact
  <2>p. \A s \in {"list", "read", "inventory", "copy", "captured"} : s \in ProjectSteps
    BY DEF ProjectSteps
  <2>f. ASSUME Projecting, inspect.step \in {"read", "copy"}, inspect.left = {}
        PROVE  inspect.seen = plugin.files
    BY <2>f, <2>3, <1>0 DEF InspectType, Trees
  <2>n. \A p \in Pieces : p \notin PiecesOf(plugin) <=> plugin.files[p] = "none"
    BY DEF PiecesOf
  <2>4. CASE BeginProject
    <3>1. OneRegistration
      BY <2>1 DEF OneRegistration
    <3>2. inspect'.step = "list" /\ ~inspect'.again /\ inspect'.registered \in {"none", "new"}
      BY <2>4, <3>1, <2>1 DEF BeginProject, NoInspection
    <3> QED BY <3>2
  <2>5. CASE ListFiles
    <3>1. Projecting /\ inspect.step = "list"
          /\ inspect' = [inspect EXCEPT !.step = "read", !.left = PiecesOf(plugin), !.seen = NoFiles]
      BY <2>5, <2>1, <2>p DEF ListFiles, InspectGoes, Projecting
    <3>2. /\ inspect'.step = "read" /\ inspect'.left = PiecesOf(plugin) /\ inspect'.seen = NoFiles
          /\ inspect'.again = inspect.again /\ inspect'.registered = inspect.registered
          /\ inspect'.digest = inspect.digest /\ inspect'.sound = inspect.sound
      BY <3>1, <1>0 DEF InspectType
    <3> QED BY <3>1, <3>2, <2>3, <2>n DEF NoFiles
  <2>6. ASSUME NEW r \in Pieces, ReadFile(r) \/ CaptureFile(r)
        PROVE  /\ inspect'.step = inspect.step /\ inspect.step \in {"read", "copy"} /\ Projecting
               /\ inspect'.left = inspect.left \ {r}
               /\ \A p \in Pieces \ inspect'.left : inspect'.seen[p] = plugin.files[p]
               /\ inspect'.again = inspect.again /\ inspect'.registered = inspect.registered
               /\ inspect'.digest = inspect.digest /\ inspect'.sound = inspect.sound
    <3>1. Projecting /\ inspect.step \in {"read", "copy"} /\ r \in inspect.left
      BY <2>6, <2>p DEF ReadFile, CaptureFile, Projecting, IsNext
    <3>2. r \in PiecesOf(plugin)
      BY <3>1, <2>3
    <3>3. inspect' = [inspect EXCEPT !.left = @ \ {r}, !.seen[r] = plugin.files[r]]
      BY <2>6, <3>2 DEF ReadFile, CaptureFile, InspectGoes
    <3>4. /\ inspect'.step = inspect.step /\ inspect'.left = inspect.left \ {r}
          /\ inspect'.seen = [inspect.seen EXCEPT ![r] = plugin.files[r]]
          /\ inspect'.again = inspect.again /\ inspect'.registered = inspect.registered
          /\ inspect'.digest = inspect.digest /\ inspect'.sound = inspect.sound
      BY <3>3, <1>0 DEF InspectType
    <3>5. \A p \in Pieces \ inspect'.left : inspect'.seen[p] = plugin.files[p]
      BY <3>1, <3>4, <2>3, <1>0 DEF InspectType
    <3> QED BY <3>1, <3>4, <3>5
  <2>7. CASE \E r \in Pieces : ReadFile(r) \/ CaptureFile(r)
    BY <2>7, <2>6, <2>3
  <2>8. CASE CheckIdentity
    <3>1. Projecting /\ inspect.step = "read" /\ inspect.left = {} /\ ~inspect.again
          /\ inspect' = [inspect EXCEPT !.step = "inventory", !.digest = inspect.seen]
      BY <2>8, <2>1, <2>p DEF CheckIdentity, InspectGoes, Projecting
    <3>2. /\ inspect'.step = "inventory" /\ inspect'.digest = inspect.seen
          /\ inspect'.again = inspect.again /\ inspect'.registered = inspect.registered
      BY <3>1, <1>0 DEF InspectType
    <3> QED BY <3>1, <3>2, <2>3, <2>f
  <2>9. CASE CheckInventory
    <3>1. Projecting /\ inspect.step = "inventory"
          /\ inspect' = [inspect EXCEPT !.step = "list", !.again = TRUE, !.sound = InventoryFits(plugin)]
      BY <2>9, <2>p DEF CheckInventory, InspectGoes, Projecting
    <3>2. /\ inspect'.step = "list" /\ inspect'.sound
          /\ inspect'.digest = inspect.digest /\ inspect'.registered = inspect.registered
      BY <3>1, <1>0, <2>1 DEF InspectType
    <3> QED BY <3>1, <3>2, <2>3
  <2>10. CASE Capture
    <3>1. Projecting /\ inspect.step = "read" /\ inspect.left = {} /\ inspect.again
      BY <2>10, <2>p DEF Capture, Projecting
    <3>2. inspect.seen = plugin.files /\ inspect.digest = plugin.files /\ inspect.sound
          /\ inspect.registered \in {"none", "new"}
      BY <3>1, <2>3, <2>f
    <3>3. inspect' = [inspect EXCEPT !.step = "copy", !.digest = inspect.seen,
                                     !.left = PiecesOf(plugin), !.seen = NoFiles]
      BY <2>10, <2>1, <3>2 DEF Capture, Accepted, SeenAgain, RegistrationFits, InspectGoes
    <3>4. /\ inspect'.step = "copy" /\ inspect'.digest = inspect.seen
          /\ inspect'.left = PiecesOf(plugin) /\ inspect'.seen = NoFiles
          /\ inspect'.registered = inspect.registered
      BY <3>3, <1>0 DEF InspectType
    <3> QED BY <3>1, <3>2, <3>4, <2>n DEF NoFiles
  <2>11. CASE VerifyCapture
    <3>1. Projecting /\ inspect.step = "copy" /\ inspect.left = {}
      BY <2>11, <2>p DEF VerifyCapture, Projecting
    <3>2. inspect.seen = plugin.files /\ inspect.digest = plugin.files
      BY <3>1, <2>3, <2>f
    <3>3. inspect' = [inspect EXCEPT !.step = "captured"]
      BY <2>11, <3>2 DEF VerifyCapture, CopyIsVerified, InspectTo, InspectGoes
    <3>4. /\ inspect'.step = "captured" /\ inspect'.digest = inspect.digest
          /\ inspect'.seen = inspect.seen /\ inspect'.registered = inspect.registered
      BY <3>3, <1>0 DEF InspectType
    <3> QED BY <3>1, <3>2, <3>4, <2>3
  <2>12. CASE RunCopy
    <3>1. Projecting /\ inspect.step = "captured"
      BY <2>12, <2>p DEF RunCopy, Projecting
    <3>2. inspect'.step = "ran"
      BY <2>12, <3>1, <2>3 DEF RunCopy, CopyIsVerified, InspectGoes, NoInspection
    <3> QED BY <3>2 DEF ProjectSteps
  <2> QED BY <2>4, <2>5, <2>7, <2>8, <2>9, <2>10, <2>11, <2>12
<1> QED BY <1>4, <1>5

\* Without a verdict nothing is promised.
LEMMA HealthForgotten ==
    ASSUME during'.verdict = "none"
    PROVE  HealthInv'
BY DEF HealthInv, VerdictIsRight, ReadingIsExact, HealthyRuns, Trusted

\* The verdict stands while nothing changes.
LEMMA HealthUntouched ==
    ASSUME HealthInv, UNCHANGED <<scope, checkout, plugin, registry, inspect>>,
           during'.verdict = during.verdict
    PROVE  HealthInv'
<1>1. /\ InventoryFits(plugin)' <=> InventoryFits(plugin)
      /\ KnownToCodex' <=> KnownToCodex
      /\ PiecesOf(plugin)' = PiecesOf(plugin)
      /\ ReleaseOf(checkout)' = ReleaseOf(checkout)
  BY DEF InventoryFits, ReleaseOf, PiecesOf, KnownToCodex
<1>2. VerdictIsRight' /\ HealthyRuns'
  BY <1>1 DEF HealthInv, VerdictIsRight, HealthyRuns
<1>3. ReadingIsExact'
  BY <1>1 DEF HealthInv, ReadingIsExact, Trusted, Projecting
<1> QED BY <1>2, <1>3 DEF HealthInv

\* Whoever changes something ends the verdict of the doctor.
LEMMA ChangesEndHealth ==
    ASSUME InstallFacts, SetupNext \/ OutsideNext
    PROVE  \/ during'.verdict = "none"
           \/ /\ UNCHANGED <<scope, checkout, plugin, registry, inspect>>
              /\ during'.verdict = during.verdict
<1>0. during \in DuringType
  BY DEF InstallFacts
<1>1. (\E t : ChangePlugin(t)) \/ (\E m : ChangeMarket(m)) => during'.verdict = "none"
  BY <1>0 DEF ChangePlugin, ChangeMarket, DuringType
<1>2. CASE SetupNext
  <2>1. CASE \E k \in {"install", "upgrade"}, here \in BOOLEAN : BeginInstall(k, here)
    BY <2>1, <1>0 DEF BeginInstall, Replacement, DuringType
  <2>2. CASE \E removeFiles \in BOOLEAN : BeginUninstall(removeFiles)
    BY <2>2 DEF BeginUninstall
  <2>3. CASE \E p \in Pieces : RemoveFile(p) \/ CopyFile(p)
    BY <2>3, <1>1 DEF RemoveFile, CopyFile
  <2>4. CASE RemoveDirectory
    BY <2>4, <1>1 DEF RemoveDirectory
  <2>5. CASE MakeDirectory
    BY <2>5, <1>1 DEF MakeDirectory, SetupKeeps
  <2>6. CASE ReadMarket \/ BreakOff
    BY <2>6 DEF ReadMarket, BreakOff, SetupKeeps
  <2>7. CASE Truncate
    BY <2>7, <1>1 DEF Truncate
  <2>8. CASE WriteMarket
    BY <2>8, <1>0 DEF WriteMarket, DuringType
  <2> QED BY <1>2, <2>1, <2>2, <2>3, <2>4, <2>5, <2>6, <2>7, <2>8 DEF SetupNext
<1>3. CASE OutsideNext
  <2>1. CASE SwitchCheckout
    BY <2>1, <1>0 DEF SwitchCheckout, DuringType
  <2>2. CASE Upheaval
    BY <2>2, <1>0 DEF Upheaval, DuringType
  <2> QED BY <1>3, <2>1, <2>2 DEF OutsideNext, EditMarket, Register, RegisterElsewhere, TouchCopy
<1> QED BY <1>2, <1>3

\* Every step keeps the verdict, or ends it.
LEMMA HealthStep ==
    ASSUME InstallFacts, HealthInv, [InstallNext]_pluginVars
    PROVE  HealthInv'
<1>1. CASE SetupNext \/ OutsideNext
  BY <1>1, ChangesEndHealth, HealthForgotten, HealthUntouched
<1>2. CASE BeginDoctor \/ LookAtSource \/ LookAtInstalled \/ LookAtRegistration
  BY <1>2, DoctorStep
<1>3. ASSUME \/ BeginProject \/ ListFiles \/ CheckIdentity \/ CheckInventory
             \/ Capture \/ VerifyCapture \/ RunCopy
             \/ \E p \in Pieces : ReadFile(p) \/ CaptureFile(p)
      PROVE  HealthInv'
  <2>1. InspectKeeps
    BY <1>3 DEF BeginProject, ListFiles, CheckIdentity, CheckInventory, Capture, VerifyCapture, RunCopy,
                ReadFile, CaptureFile, InspectGoes, InspectTo, Refuse
  <2> QED BY <1>3, <2>1, ProjectStep
<1>4. CASE UNCHANGED pluginVars
  BY <1>4, HealthUntouched DEF pluginVars
<1> QED BY <1>1, <1>2, <1>3, <1>4 DEF InstallNext, InspectNext

\* With nobody else at work a plugin command does what it began.
LEMMA WholeStep ==
    ASSUME InstallFacts, WholeInv, [InstallNext]_pluginVars
    PROVE  WholeInv'
<1>0. /\ setup \in SetupType /\ plugin \in Trees /\ checkout \in Trees /\ market \in Markets
      /\ SetupInOrder /\ \E r \in Releases : checkout = Release(r)
      /\ ~plugin.there => PiecesOf(plugin) = {}
      /\ scope \in {"user", "repo"}
  BY DEF InstallFacts, SetupInOrder
<1>c. InventoryFits(checkout) /\ checkout.there
  BY <1>0, ReleaseFacts
<1>n. /\ NoSetup.fate = "unknown" /\ NoSetup.step = "idle" /\ ~NoSetup.hurt
      /\ NoSetup.kind = "install"
  BY DEF NoSetup
<1>i. setup' = NoSetup => WholeInv'
  BY <1>n DEF WholeInv, WholeSoFar, InstallIsWhole, UpgradeRepairs
<1>s. setup.step # "idle" => setup.fate = "unknown"
  BY DEF WholeInv, WholeSoFar
<1>e. ASSUME NEW f \in {"done", "failed"}, EndSetup(f), UNCHANGED <<checkout>>,
             setup.alone => /\ f = "done" =>
                                 /\ market'.file = "whole" /\ market'.others = setup.others
                                 /\ setup.kind # "uninstall" =>
                                        market'.ours = 1 /\ InventoryFits(plugin')
                                        /\ plugin' = (IF setup.inPlace THEN plugin' ELSE checkout)
                                 /\ setup.kind = "uninstall" =>
                                        market'.ours = 0 /\ (setup.removeFiles => ~plugin'.there)
                            /\ f = "failed" /\ setup.kind = "upgrade" /\ ~setup.inPlace =>
                                 market'.file = "torn"
      PROVE  WholeInv'
  <2>1. CASE ~setup.alone
    BY <2>1, <1>e, <1>i DEF EndSetup
  <2>2. CASE setup.alone
    <3>1. /\ setup'.step = "idle" /\ setup'.fate = f /\ setup'.alone /\ ~setup'.hurt
          /\ setup'.kind = setup.kind /\ setup'.inPlace = setup.inPlace
          /\ setup'.removeFiles = setup.removeFiles /\ setup'.others = setup.others
      BY <2>2, <1>e, <1>0 DEF EndSetup, SetupType
    <3>2. InventoryFits(plugin)' <=> InventoryFits(plugin')
      BY DEF InventoryFits, ReleaseOf, PiecesOf
    <3>3. WholeSoFar'
      BY <3>1 DEF WholeSoFar
    <3>4. InstallIsWhole'
      BY <1>e, <2>2, <3>1, <3>2 DEF InstallIsWhole, From
    <3>5. UpgradeRepairs'
      BY <1>e, <2>2, <3>1 DEF UpgradeRepairs
    <3> QED BY <3>3, <3>4, <3>5 DEF WholeInv
  <2> QED BY <2>1, <2>2
<1>g. ASSUME setup'.fate = "unknown", WholeSoFar' PROVE WholeInv'
  BY <1>g DEF WholeInv, InstallIsWhole, UpgradeRepairs
<1>1. ASSUME NEW k \in {"install", "upgrade"}, NEW here \in BOOLEAN, BeginInstall(k, here)
      PROVE  WholeInv'
  <2>1. UNCHANGED <<scope, checkout, plugin, market>>
    BY <1>1 DEF BeginInstall
  <2> DEFINE begun == [NoSetup EXCEPT !.kind = k, !.inPlace = here, !.others = market.others]
  <2>2. /\ begun.fate = "unknown" /\ begun.step = "idle" /\ ~begun.hurt /\ begun.kind = k
        /\ begun.inPlace = here /\ begun.others = market.others /\ begun.left = {} /\ begun.alone
    BY DEF NoSetup
  <2>b. begun \in SetupType
    <3>1. market.others \in SUBSET Neighbours
      BY <1>0 DEF Markets
    <3> QED BY <3>1, ConstantsTyped DEF SetupType, NoSetup
  <2>3. CASE setup' = [begun EXCEPT !.fate = "failed"]
            /\ (\/ ~SourceIsValid(IF here THEN plugin ELSE checkout)
                \/ (~here \/ scope = "user") /\ Stops(k))
    <3> HIDE DEF begun
    <3>1. setup'.fate = "failed" /\ setup'.kind = k /\ setup'.inPlace = here /\ setup'.step = "idle"
          /\ setup'.alone /\ ~setup'.hurt
      BY <2>2, <2>3, <2>b DEF SetupType
    <3>2. SourceIsValid(checkout)
      BY <1>c DEF SourceIsValid
    <3>3. ~(k = "upgrade" /\ ~here)
      BY <3>2, <2>3 DEF Stops
    <3> QED BY <3>1, <3>3 DEF WholeInv, WholeSoFar, InstallIsWhole, UpgradeRepairs
  <2>4. CASE setup' = [begun EXCEPT !.step = FirstStep]
    <3> HIDE DEF begun
    <3>1. setup'.fate = "unknown" /\ setup'.kind = k /\ setup'.step \in {"removing", "making"}
          /\ setup'.others = market.others /\ ~setup'.hurt
      BY <2>2, <2>4, <2>b DEF SetupType, FirstStep
    <3>2. WholeSoFar'
      BY <3>1, <2>1 DEF WholeSoFar
    <3> QED BY <3>1, <3>2, <1>g
  <2>5. CASE setup' = [begun EXCEPT !.step = "reading"]
             /\ SourceIsValid(IF here THEN plugin ELSE checkout) /\ here
    <3> HIDE DEF begun
    <3>1. setup'.fate = "unknown" /\ setup'.kind = k /\ setup'.step = "reading"
          /\ setup'.others = market.others /\ ~setup'.hurt /\ setup'.inPlace
      BY <2>2, <2>5, <2>b DEF SetupType, FirstStep
    <3>2. InventoryFits(plugin)' /\ plugin' = From'
      BY <2>1, <2>5, <3>1 DEF SourceIsValid, InventoryFits, ReleaseOf, PiecesOf, From
    <3>3. WholeSoFar'
      BY <3>1, <3>2, <2>1 DEF WholeSoFar
    <3> QED BY <3>1, <3>3, <1>g
  <2> QED BY <1>1, <2>3, <2>4, <2>5 DEF BeginInstall
<1>2. ASSUME NEW removeFiles \in BOOLEAN, BeginUninstall(removeFiles)
      PROVE  WholeInv'
  <2>1. UNCHANGED <<scope, checkout, plugin, market>>
    BY <1>2 DEF BeginUninstall
  <2>2. setup'.fate = "unknown" /\ setup'.kind = "uninstall" /\ setup'.step = "reading"
        /\ setup'.others = market.others /\ ~setup'.hurt
    BY <1>2 DEF BeginUninstall, NoSetup
  <2>3. WholeSoFar'
    BY <2>1, <2>2 DEF WholeSoFar
  <2> QED BY <2>2, <2>3, <1>g
<1>3. ASSUME NEW p \in Pieces, RemoveFile(p)
      PROVE  WholeInv'
  <2>1. UNCHANGED <<setup, market>> /\ setup.step = "removing"
    BY <1>3 DEF RemoveFile
  <2>2. WholeSoFar'
    BY <2>1 DEF WholeInv, WholeSoFar
  <2> QED BY <2>1, <2>2, <1>g, <1>s
<1>4. ASSUME NEW p \in Pieces, CopyFile(p)
      PROVE  WholeInv'
  <2>0. From = checkout /\ setup.step = "copying" /\ p \in setup.left
        /\ UNCHANGED <<checkout, market>>
    BY <1>4, <1>0 DEF CopyFile, From, SetupInOrder, SetupKeeps
  <2>1. plugin' = [plugin EXCEPT !.files[p] = checkout.files[p]]
    BY <1>4, <2>0 DEF CopyFile, ChangePlugin
  <2>2. plugin'.files = [plugin.files EXCEPT ![p] = checkout.files[p]]
    BY <2>1, <1>0 DEF Trees
  <2>h. (setup.hurt \/ p \notin PiecesOf(checkout)) \in BOOLEAN
    OBVIOUS
  <2>3. /\ setup'.left = setup.left \ {p} /\ setup'.step = setup.step /\ setup'.kind = setup.kind
        /\ setup'.fate = setup.fate /\ setup'.others = setup.others /\ setup'.alone = setup.alone
        /\ setup'.hurt <=> (setup.hurt \/ p \notin PiecesOf(checkout))
    BY <1>4, <2>0, <2>h, <1>0 DEF CopyFile, SetupType
  <2>4. CASE setup.alone
    <3>1. /\ setup.left \subseteq PiecesOf(checkout) /\ ~setup.hurt /\ market.others = setup.others
          /\ \A q \in Pieces \ setup.left : plugin.files[q] = checkout.files[q]
      BY <2>0, <2>4 DEF WholeInv, WholeSoFar
    <3>2. \A q \in Pieces \ setup'.left : plugin'.files[q] = checkout.files[q]
      BY <3>1, <2>2, <2>3, <1>0 DEF Trees
    <3>3. PiecesOf(checkout)' = PiecesOf(checkout)
      BY <2>0 DEF PiecesOf
    <3>4. WholeSoFar'
      BY <3>1, <3>2, <3>3, <2>0, <2>3, <2>4, <1>s DEF WholeSoFar
    <3> QED BY <3>4, <2>0, <2>3, <1>s, <1>g
  <2>5. CASE ~setup.alone
    BY <2>5, <2>0, <2>3, <1>s, <1>g DEF WholeSoFar
  <2> QED BY <2>4, <2>5
<1>5. ASSUME RemoveDirectory
      PROVE  WholeInv'
  <2>1. UNCHANGED <<market, checkout>> /\ plugin' = NoTree /\ setup.step = "removing"
    BY <1>5 DEF RemoveDirectory, ChangePlugin, SetupKeeps
  <2>2. CASE setup.kind = "uninstall"
    <3>1. EndSetup("done")
      BY <1>5, <2>2 DEF RemoveDirectory
    <3>2. setup.alone => market.file = "whole" /\ market.ours = 0 /\ market.others = setup.others
      BY <2>1, <2>2 DEF WholeInv, WholeSoFar
    <3> QED BY <3>1, <3>2, <2>1, <2>2, <1>e, ConstantsTyped
  <2>3. CASE setup.kind # "uninstall"
    <3>1. setup' = [setup EXCEPT !.step = "making"]
      BY <1>5, <2>3 DEF RemoveDirectory
    <3>2. /\ setup'.step = "making" /\ setup'.kind = setup.kind /\ setup'.hurt = setup.hurt
          /\ setup'.fate = setup.fate /\ setup'.others = setup.others /\ setup'.alone = setup.alone
      BY <3>1, <1>0 DEF SetupType
    <3>3. WholeSoFar'
      BY <3>2, <2>1, <1>s DEF WholeInv, WholeSoFar
    <3> QED BY <3>2, <3>3, <2>1, <1>s, <1>g
  <2> QED BY <2>2, <2>3
<1>6. ASSUME MakeDirectory
      PROVE  WholeInv'
  <2>1. UNCHANGED <<market, checkout>> /\ setup.step = "making" /\ setup.kind # "uninstall"
        /\ ~plugin.there
    BY <1>6, <1>0 DEF MakeDirectory, SetupKeeps, SetupInOrder
  <2>2. CASE From.there
    <3>1. /\ plugin' = [plugin EXCEPT !.there = TRUE]
          /\ setup' = [setup EXCEPT !.step = "copying", !.left = PiecesOf(From)]
          /\ From = checkout
      BY <1>6, <2>1, <2>2 DEF MakeDirectory, ChangePlugin, From
    <3>2. plugin'.files = plugin.files /\ PiecesOf(plugin) = {}
      BY <3>1, <2>1, <1>0 DEF Trees
    <3>3. /\ setup'.step = "copying" /\ setup'.kind = setup.kind /\ setup'.hurt = setup.hurt
          /\ setup'.fate = setup.fate /\ setup'.others = setup.others /\ setup'.alone = setup.alone
          /\ setup'.left = PiecesOf(checkout)
      BY <3>1, <1>0 DEF SetupType
    <3>4. \A q \in Pieces \ setup'.left : plugin'.files[q] = checkout.files[q]
      BY <3>2, <3>3 DEF PiecesOf
    <3>5. PiecesOf(checkout)' = PiecesOf(checkout)
      BY <2>1 DEF PiecesOf
    <3>6. WholeSoFar'
      BY <3>3, <3>4, <3>5, <2>1, <1>s DEF WholeInv, WholeSoFar
    <3> QED BY <3>3, <3>6, <2>1, <1>s, <1>g
  <2>3. CASE ~From.there
    <3>1. EndSetup("failed") /\ setup.inPlace
      BY <1>6, <2>3, <1>c DEF MakeDirectory, From
    <3> QED BY <3>1, <2>1, <1>e
  <2> QED BY <2>2, <2>3
<1>7. ASSUME ReadMarket
      PROVE  WholeInv'
  <2>1. UNCHANGED <<plugin, market, checkout>> /\ setup.left = {} /\ setup.step \in {"copying", "reading"}
    BY <1>7 DEF ReadMarket, SetupKeeps
  <2>2. CASE setup.hurt \/ market.file = "torn"
    <3>1. EndSetup("failed")
      BY <1>7, <2>2 DEF ReadMarket
    <3>2. setup.alone => market.file = "torn"
      BY <2>2 DEF WholeInv, WholeSoFar
    <3> QED BY <3>1, <3>2, <2>1, <1>e
  <2>3. CASE ~(setup.hurt \/ market.file = "torn")
    <3>1. setup' = [setup EXCEPT !.step = "truncating", !.market = Upserted(market)]
      BY <1>7, <2>3 DEF ReadMarket
    <3>2. /\ setup'.step = "truncating" /\ setup'.kind = setup.kind /\ setup'.hurt = setup.hurt
          /\ setup'.fate = setup.fate /\ setup'.others = setup.others /\ setup'.alone = setup.alone
          /\ setup'.market = Upserted(market) /\ setup'.inPlace = setup.inPlace
      BY <3>1, <1>0 DEF SetupType
    <3>3. /\ Upserted(market).file = "whole" /\ Upserted(market).others = market.others
          /\ Upserted(market).ours = IF setup.kind = "uninstall" THEN 0 ELSE 1
      BY <1>0 DEF Upserted, Markets
    <3>4. setup.alone => market.others = setup.others /\ ~setup.hurt
      BY <2>1 DEF WholeInv, WholeSoFar
    <3>5. ASSUME setup.alone, setup.kind # "uninstall"
          PROVE  InventoryFits(plugin) /\ plugin = From
      <4>1. CASE setup.step = "reading"
        BY <3>5, <4>1 DEF WholeInv, WholeSoFar
      <4>2. CASE setup.step = "copying"
        <5>1. \A q \in Pieces : plugin.files[q] = checkout.files[q]
          BY <3>5, <4>2, <2>1 DEF WholeInv, WholeSoFar
        <5>2. plugin.there /\ ~setup.inPlace
          BY <4>2, <1>0 DEF SetupInOrder
        <5>3. plugin = checkout
          BY <5>1, <5>2, <1>c, <1>0 DEF Trees
        <5> QED BY <5>2, <5>3, <1>c DEF From
      <4> QED BY <4>1, <4>2, <2>1
    <3>6. From' = From /\ (InventoryFits(plugin)' <=> InventoryFits(plugin))
      BY <3>2, <2>1 DEF From, InventoryFits, ReleaseOf, PiecesOf
    <3>7. WholeSoFar'
      BY <3>2, <3>3, <3>4, <3>5, <3>6, <2>1, <1>s DEF WholeSoFar
    <3> QED BY <3>2, <3>7, <2>1, <1>s, <1>g
  <2> QED BY <2>2, <2>3
<1>8. ASSUME Truncate
      PROVE  WholeInv'
  <2>1. UNCHANGED <<plugin, checkout>> /\ setup.step = "truncating"
        /\ setup' = [setup EXCEPT !.step = "writing"]
    BY <1>8 DEF Truncate, SetupKeeps
  <2>2. /\ setup'.step = "writing" /\ setup'.kind = setup.kind /\ setup'.hurt = setup.hurt
        /\ setup'.fate = setup.fate /\ setup'.others = setup.others /\ setup'.alone = setup.alone
        /\ setup'.market = setup.market /\ setup'.inPlace = setup.inPlace
    BY <2>1, <1>0 DEF SetupType
  <2>3. From' = From /\ (InventoryFits(plugin)' <=> InventoryFits(plugin))
    BY <2>1, <2>2 DEF From, InventoryFits, ReleaseOf, PiecesOf
  <2>4. WholeSoFar'
    BY <2>1, <2>2, <2>3, <1>s DEF WholeInv, WholeSoFar
  <2> QED BY <2>1, <2>2, <2>4, <1>s, <1>g
<1>9. ASSUME WriteMarket
      PROVE  WholeInv'
  <2>1. UNCHANGED <<plugin, checkout>> /\ setup.step = "writing" /\ market' = setup.market
    BY <1>9 DEF WriteMarket, SetupKeeps
  <2>2. setup.alone => /\ market'.file = "whole" /\ market'.others = setup.others
                       /\ market'.ours = IF setup.kind = "uninstall" THEN 0 ELSE 1
                       /\ setup.kind # "uninstall" => InventoryFits(plugin) /\ plugin = From
    BY <2>1 DEF WholeInv, WholeSoFar
  <2>3. CASE ~setup.removeFiles
    <3>1. EndSetup("done")
      BY <1>9, <2>3 DEF WriteMarket
    <3>2. plugin' = plugin /\ From = (IF setup.inPlace THEN plugin ELSE checkout)
      BY <2>1 DEF From
    <3> QED BY <3>1, <3>2, <2>1, <2>2, <2>3, <1>e
  <2>4. CASE setup.removeFiles
    <3>0. setup.kind = "uninstall"
      BY <2>4, <1>0 DEF SetupInOrder
    <3>1. CASE scope = "repo"
      <4>1. EndSetup("failed")
        BY <1>9, <2>4, <3>1 DEF WriteMarket
      <4> QED BY <4>1, <3>0, <2>1, <1>e
    <3>2. CASE scope # "repo" /\ plugin.there
      <4>1. setup' = [setup EXCEPT !.step = "removing"]
        BY <1>9, <2>4, <3>2 DEF WriteMarket
      <4>2. /\ setup'.step = "removing" /\ setup'.kind = setup.kind /\ setup'.hurt = setup.hurt
            /\ setup'.fate = setup.fate /\ setup'.others = setup.others /\ setup'.alone = setup.alone
        BY <4>1, <1>0 DEF SetupType
      <4>3. setup.alone => ~setup.hurt
        BY DEF WholeInv, WholeSoFar
      <4>4. WholeSoFar'
        BY <4>2, <4>3, <3>0, <2>1, <2>2, <1>s DEF WholeSoFar
      <4> QED BY <4>2, <4>4, <2>1, <1>s, <1>g
    <3>3. CASE scope # "repo" /\ ~plugin.there
      <4>1. EndSetup("done")
        BY <1>9, <2>4, <3>3 DEF WriteMarket
      <4> QED BY <4>1, <3>0, <3>3, <2>1, <2>2, <1>e
    <3> QED BY <3>1, <3>2, <3>3
  <2> QED BY <2>3, <2>4
<1>10. CASE BreakOff
  BY <1>10, <1>i DEF BreakOff
<1>11. CASE UNCHANGED <<setup, plugin, checkout, market>>
  BY <1>11 DEF WholeInv, WholeSoFar, InstallIsWhole, UpgradeRepairs, InventoryFits, ReleaseOf, PiecesOf, From
<1>12. CASE InspectNext \/ UNCHANGED pluginVars
  <2>1. UNCHANGED <<setup, plugin, checkout, market>>
    BY <1>12 DEF InspectNext, InspectKeeps, pluginVars, BeginDoctor, LookAtSource, LookAtInstalled,
           LookAtRegistration, BeginProject, ListFiles, CheckIdentity, CheckInventory, Capture,
           VerifyCapture, RunCopy, ReadFile, CaptureFile, InspectGoes, InspectTo, Refuse
  <2> QED BY <2>1, <1>11
<1>13. CASE OutsideNext
  <2>1. Disturb
    BY <1>13 DEF OutsideNext, SwitchCheckout, EditMarket, Register, RegisterElsewhere, TouchCopy, Upheaval
  <2>2. setup' = NoSetup \/ (setup' = [setup EXCEPT !.alone = FALSE] /\ setup.step # "idle")
    BY <2>1 DEF Disturb
  <2>3. CASE setup' = [setup EXCEPT !.alone = FALSE] /\ setup.step # "idle"
    <3>1. setup'.alone = FALSE /\ setup'.fate = "unknown"
      BY <2>3, <1>s, <1>0 DEF SetupType
    <3> QED BY <3>1, <1>g DEF WholeSoFar
  <2> QED BY <2>2, <2>3, <1>i
<1> QED BY <1>1, <1>2, <1>3, <1>4, <1>5, <1>6, <1>7, <1>8, <1>9, <1>10, <1>12, <1>13
        DEF InstallNext, SetupNext

InstallInv == InstallSound /\ ReadingInv /\ HealthInv /\ WholeInv

\* What a project command has read, what the doctor has seen and what a plugin
\* command has done agree with what lies in the plugin directory and in the
\* marketplace (kafa/cli.py).
THEOREM InstallInvariance == InstallSpec => []InstallInv
<1>1. InstallInit => InstallInv
  <2> SUFFICES ASSUME InstallInit PROVE InstallInv
    OBVIOUS
  <2>1. InstallSound /\ ReadingInv
    BY InstallSoundInit, ReadingInit
  <2>2. inspect.step = "idle" /\ during.verdict = "none" /\ setup = NoSetup
    BY DEF InstallInit, NoInspection
  <2>3. HealthInv
    BY <2>2 DEF HealthInv, VerdictIsRight, ReadingIsExact, Trusted, HealthyRuns
  <2>4. WholeInv
    BY <2>2 DEF WholeInv, WholeSoFar, InstallIsWhole, UpgradeRepairs, NoSetup
  <2> QED BY <2>1, <2>3, <2>4 DEF InstallInv
<1>2. InstallInv /\ [InstallNext]_pluginVars => InstallInv'
  <2> SUFFICES ASSUME InstallInv, [InstallNext]_pluginVars PROVE InstallInv'
    OBVIOUS
  <2>1. InstallSound /\ ReadingInv /\ HealthInv /\ WholeInv
    BY DEF InstallInv
  <2>2. InstallSound'
    BY <2>1, InstallSoundStep
  <2>3. InstallFacts
    BY <2>1, InstallIsSoundFacts
  <2>4. InstallFacts'
    BY <2>2, TypesOfInstall DEF InstallFacts, InstallSound, InstallTypeOK, SetupType, InspectType, DuringType, RegistryType
  <2> QED BY <2>1, <2>2, <2>3, <2>4, ReadingStep, HealthStep, WholeStep DEF InstallInv
<1> QED BY <1>1, <1>2, PTL DEF InstallSpec

\* The plugin is installed, found healthy and run as a whole, for any
\* neighbours in the marketplace and any number of commands and of acts of
\* others (copy_action, add_install_health_checks,
\* run_project_harness_capture).
THEOREM InstallationStaysSound == InstallSpec => []InstallationIsSound
<1>1. InstallInv => InstallationIsSound
  BY DEF InstallInv, ReadingInv, HealthInv, WholeInv, InstallationIsSound
<1> QED BY <1>1, InstallInvariance, PTL

-----------------------------------------------------------------------------
(* The commands together. *)

allVars == <<works, filesVars, viewsVars, planVars, reportVars, trialVars, storeVars, pluginVars>>

\* A step of all is, for every part, a step of that part or none.
LEMMA EachPartSteps ==
    [Next]_allVars =>
        /\ [FilesNext]_filesVars /\ [ViewsNext]_viewsVars /\ [PlansNext]_planVars
        /\ [ReportsNext]_reportVars /\ [TrialsNext]_trialVars /\ [StoreNext]_storeVars
        /\ [InstallNext]_pluginVars
<1>1. CASE FilesNext /\ FilesOnly
  BY <1>1 DEF FilesOnly
<1>2. CASE ViewsNext /\ ViewsOnly
  BY <1>2 DEF ViewsOnly
<1>3. CASE PlansNext /\ PlansOnly
  BY <1>3 DEF PlansOnly
<1>4. CASE ReportsNext /\ ReportsOnly
  BY <1>4 DEF ReportsOnly
<1>5. CASE TrialsNext /\ TrialsOnly
  BY <1>5 DEF TrialsOnly
<1>6. CASE StoreNext /\ StoreOnly
  BY <1>6 DEF StoreOnly
<1>7. CASE InstallNext /\ InstallOnly
  BY <1>7 DEF InstallOnly
<1>8. CASE UNCHANGED allVars
  BY <1>8 DEF allVars
<1> QED BY <1>1, <1>2, <1>3, <1>4, <1>5, <1>6, <1>7, <1>8 DEF Next

\* The commands together implement every part: whatever is proved of one of
\* them holds while the others are at work as well (kafa/cli.py main).
THEOREM EveryPartIsItself ==
    Spec => /\ FilesSpec /\ ViewsSpec /\ PlansSpec /\ ReportsSpec /\ TrialsSpec
            /\ StoreSpec /\ InstallSpec
<1>1. Init => /\ FilesInit /\ ViewsInit /\ PlansInit /\ ReportsInit /\ TrialsInit
              /\ StoreInit /\ InstallInit
  BY DEF Init
<1> QED BY <1>1, EachPartSteps, PTL DEF Spec, allVars, FilesSpec, ViewsSpec, PlansSpec,
        ReportsSpec, TrialsSpec, StoreSpec, InstallSpec

\* Every variable keeps its type, whichever command is at work (kafa/cli.py
\* main).
THEOREM CommandsStayTyped == Spec => []CommandsTypeOK
<1>1. ViewsInv => ViewsTypeOK
  BY DEF ViewsInv
<1>2. PlansInv => PlansTypeOK
  BY DEF PlansInv
<1>3. InstallInv => InstallTypeOK
  BY DEF InstallInv, InstallSound
<1>4. FilesTypeOK /\ ViewsTypeOK /\ PlansTypeOK /\ ReportsTypeOK /\ TrialsTypeOK
      /\ StoreTypeOK /\ InstallTypeOK => CommandsTypeOK
  BY DEF CommandsTypeOK
<1> QED BY <1>1, <1>2, <1>3, <1>4, EveryPartIsItself, FilesTypeCorrect, ViewsInvariance,
        PlansInvariance, ReportsTypeCorrect, TrialsTypeCorrect, StoreTypeCorrect,
        InstallInvariance, PTL
=============================================================================
