---------------------------- MODULE PluginInstall ----------------------------
(***************************************************************************)
(* The plugin on a machine (kafa/cli.py): "kafa plugin install, upgrade    *)
(* and uninstall" replace the installed tree and the entry in the          *)
(* marketplace file; "kafa doctor" compares what is there; and "kafa       *)
(* project" takes a private copy of the installed tree, once it has seen   *)
(* the same valid content twice, and runs the copy.                        *)
(*                                                                         *)
(* No lock is held: the installer, which may die at any step, works while  *)
(* a project command reads. A tree is its manifests, the code and one file *)
(* that only the older release has; it is removed, copied and read one of  *)
(* them after the other. Codex, which registers the plugin and keeps a     *)
(* cache of it, and the developer who switches the checkout or edits the   *)
(* marketplace, are outside. A dry run changes nothing and is left out.    *)
(***************************************************************************)
EXTENDS Naturals

CONSTANTS
    Neighbours,         \* the plugins of others in the marketplace
    MaxPluginActs       \* bound on the commands and on what codex, developers
                        \* and others do

ASSUME PluginActsAssumption == MaxPluginActs \in Nat

VARIABLES
    scope,          \* whose marketplace: "user" or "repo"
    checkout,       \* the plugin in the repository, the source of a copy
    plugin,         \* the installed plugin
    market,         \* the marketplace file
    registry,       \* what codex knows of the plugin
    setup,          \* the plugin command
    inspect,        \* the doctor or project command
    during,         \* what happened while it ran
    pluginActs      \* commands begun, and acts of others

pluginVars == <<scope, checkout, plugin, market, registry, setup, inspect, during,
                pluginActs>>

Pieces == {"manifest", "code", "retired"}
Releases == {"old", "new"}      \* "new" is the release of the kafa command
Content == Releases \cup {"none"}
Trees == [there : BOOLEAN, files : [Pieces -> Content]]

NoFiles == [p \in Pieces |-> "none"]
NoTree == [there |-> FALSE, files |-> NoFiles]
Release(r) ==
    [there |-> TRUE,
     files |-> [p \in Pieces |-> IF r = "new" /\ p = "retired" THEN "none" ELSE r]]

PiecesOf(t) == {p \in Pieces : t.files[p] # "none"}

ReleaseOf(t) == t.files["manifest"]

Listed(r) == IF r = "old" THEN Pieces ELSE Pieces \ {"retired"}

\* The files are the ones the manifest lists: no more, no less. That files of
\* two releases lie together is not seen as long as their names fit.
InventoryFits(t) == ReleaseOf(t) # "none" /\ PiecesOf(t) = Listed(ReleaseOf(t))

NoMarket == [file |-> "missing", ours |-> 0, others |-> {}]
Markets == [file : {"missing", "torn", "whole"}, ours : 0 .. 2, others : SUBSET Neighbours]

SetupSteps == {"idle", "removing", "making", "copying", "reading", "truncating", "writing"}
DoctorSteps == {"source", "installed", "registered"}
ProjectSteps == {"list", "read", "inventory", "copy", "captured"}
InspectSteps == DoctorSteps \cup ProjectSteps \cup {"idle", "ran", "refused"}

InstallTypeOK ==
    /\ scope \in {"user", "repo"}
    /\ checkout \in Trees /\ plugin \in Trees
    /\ ~plugin.there => PiecesOf(plugin) = {}
    /\ market \in Markets
    /\ registry \in [version : Content, second : BOOLEAN, cache : Trees]
    /\ setup \in [step : SetupSteps, kind : {"install", "upgrade", "uninstall"},
                  inPlace : BOOLEAN, removeFiles : BOOLEAN, left : SUBSET Pieces,
                  hurt : BOOLEAN, market : Markets, others : SUBSET Neighbours,
                  alone : BOOLEAN, fate : {"unknown", "done", "failed"}]
    /\ inspect \in [step : InspectSteps, again : BOOLEAN, left : SUBSET Pieces,
                    seen : [Pieces -> Content], digest : [Pieces -> Content],
                    registered : Content, sound : BOOLEAN]
    /\ during \in [held : SUBSET [Pieces -> Content], replaced : 0 .. 2,
                   verdict : {"none", "pending", "healthy"}]
    /\ pluginActs \in 0 .. MaxPluginActs

NoSetup ==
    [step |-> "idle", kind |-> "install", inPlace |-> FALSE, removeFiles |-> FALSE,
     left |-> {}, hurt |-> FALSE, market |-> NoMarket, others |-> {}, alone |-> TRUE,
     fate |-> "unknown"]
NoInspection ==
    [step |-> "idle", again |-> FALSE, left |-> {}, seen |-> NoFiles, digest |-> NoFiles,
     registered |-> "none", sound |-> FALSE]

\* Nothing is installed, or a release is, registered with codex.
\* The checkout is one of the releases.
InstallInit ==
    /\ scope \in {"user", "repo"}
    /\ \E r \in Releases : checkout = Release(r)
    /\ \/ /\ plugin = NoTree
          /\ market = NoMarket
          /\ registry = [version |-> "none", second |-> FALSE, cache |-> NoTree]
       \/ /\ \E r \in Releases :
                 /\ plugin = Release(r)
                 /\ registry = [version |-> r, second |-> FALSE, cache |-> Release(r)]
          /\ market = [file |-> "whole", ours |-> 1, others |-> Neighbours]
    /\ setup = NoSetup
    /\ inspect = NoInspection
    /\ during = [held |-> {}, replaced |-> 0, verdict |-> "none"]
    /\ pluginActs = 0

-----------------------------------------------------------------------------
(* What is noted of changes: the whole trees a project command could have   *)
(* met, how often the plugin was replaced under it, and the verdict of the  *)
(* doctor, until anything changes.                                          *)

Projecting == inspect.step \in ProjectSteps
Inspecting == inspect.step \in DoctorSteps \cup ProjectSteps

ChangePlugin(t) ==
    /\ plugin' = t
    /\ during' = [during EXCEPT
           !.verdict = "none",
           !.held = IF Projecting /\ InventoryFits(t) THEN @ \cup {t.files} ELSE @]

ChangeMarket(m) ==
    /\ market' = m
    /\ during' = [during EXCEPT !.verdict = "none"]

OneMoreAct == pluginActs < MaxPluginActs /\ pluginActs' = pluginActs + 1

\* A second replacement counts like any further one.
OneMore(n) == IF Projecting /\ n < 2 THEN n + 1 ELSE n

Replacement == during' = [during EXCEPT !.replaced = OneMore(@)]

-----------------------------------------------------------------------------
(* The plugin commands. "install --force" is an upgrade.                    *)

SetupKeeps == UNCHANGED <<scope, checkout, registry, inspect, pluginActs>>

\* How a command ended is of interest if nobody else was at work.
EndSetup(f) ==
    setup' = IF setup.alone
             THEN [setup EXCEPT !.step = "idle", !.left = {}, !.hurt = FALSE,
                                !.market = NoMarket, !.fate = f]
             ELSE NoSetup

From == IF setup.inPlace THEN plugin ELSE checkout

\* The source is complete, and of the release that the repository names, if it
\* names one: the user's plugin is installed from a checkout of the program.
SourceIsValid(from) ==
    InventoryFits(from) /\ (scope = "user" => ReleaseOf(from) = ReleaseOf(checkout))

\* Mutant of Stops: upgrade, too, stops at a plugin that is there.
Stops_Always(k) == plugin.there

Stops(k) == plugin.there /\ k = "install"

\* Mutant of FirstStep: the copy is made over the files that are there.
FirstStep_Merges == "making"

FirstStep == IF plugin.there THEN "removing" ELSE "making"

\* In the repository scope the plugin may be installed where it is developed,
\* and nothing is copied.
BeginInstall(k, inPlace) ==
    LET copies == ~inPlace \/ scope = "user"
        refused == \/ ~SourceIsValid(IF inPlace THEN plugin ELSE checkout)
                   \/ copies /\ Stops(k)
        begun == [NoSetup EXCEPT !.kind = k, !.inPlace = inPlace, !.others = market.others]
    IN /\ setup.step = "idle" /\ OneMoreAct
       /\ \/ /\ refused
             /\ setup' = [begun EXCEPT !.fate = "failed"]
             /\ UNCHANGED during
          \/ /\ ~refused /\ copies
             /\ setup' = [begun EXCEPT !.step = FirstStep]
             /\ Replacement
          \/ /\ ~refused /\ ~copies
             /\ setup' = [begun EXCEPT !.step = "reading"]
             /\ UNCHANGED during
       /\ UNCHANGED <<scope, checkout, plugin, market, registry, inspect>>

BeginUninstall(removeFiles) ==
    /\ setup.step = "idle" /\ OneMoreAct
    /\ setup' = [NoSetup EXCEPT !.kind = "uninstall", !.step = "reading",
                                !.removeFiles = removeFiles, !.others = market.others]
    /\ UNCHANGED <<scope, checkout, plugin, market, registry, inspect, during>>

RemoveFile(p) ==
    /\ setup.step = "removing" /\ p \in PiecesOf(plugin)
    /\ ChangePlugin([plugin EXCEPT !.files[p] = "none"])
    /\ UNCHANGED <<market, setup>> /\ SetupKeeps

RemoveDirectory ==
    /\ setup.step = "removing" /\ PiecesOf(plugin) = {}
    /\ ChangePlugin(NoTree)
    /\ IF setup.kind = "uninstall" THEN EndSetup("done")
       ELSE setup' = [setup EXCEPT !.step = "making"]
    /\ UNCHANGED market /\ SetupKeeps

\* The files are listed before the first is copied.
MakeDirectory ==
    /\ setup.step = "making"
    /\ IF From.there
       THEN /\ ChangePlugin([plugin EXCEPT !.there = TRUE])
            /\ setup' = [setup EXCEPT !.step = "copying", !.left = PiecesOf(From)]
       ELSE EndSetup("failed") /\ UNCHANGED <<plugin, during>>
    /\ UNCHANGED market /\ SetupKeeps

\* A file that is gone is an error when the others are copied.
CopyFile(p) ==
    /\ setup.step = "copying" /\ p \in setup.left
    /\ setup' = [setup EXCEPT !.left = @ \ {p}, !.hurt = @ \/ p \notin PiecesOf(From)]
    /\ ChangePlugin([plugin EXCEPT !.files[p] = From.files[p]])
    /\ UNCHANGED market /\ SetupKeeps

\* Mutant of Upserted: the entry is added to the ones that are there.
Upserted_Appends(m) ==
    [m EXCEPT !.file = "whole", !.ours = IF setup.kind = "uninstall" THEN 0
                                         ELSE IF @ = 0 THEN 1 ELSE 2]

\* Every entry of the plugin goes; an installation adds the one.
Upserted(m) ==
    [m EXCEPT !.file = "whole", !.ours = IF setup.kind = "uninstall" THEN 0 ELSE 1]

ReadMarket ==
    /\ setup.step \in {"copying", "reading"} /\ setup.left = {}
    /\ IF setup.hurt \/ market.file = "torn" THEN EndSetup("failed")
       ELSE setup' = [setup EXCEPT !.step = "truncating", !.market = Upserted(market)]
    /\ UNCHANGED <<plugin, market, during>> /\ SetupKeeps

\* The file is emptied when it is opened for writing.
Truncate ==
    /\ setup.step = "truncating"
    /\ setup' = [setup EXCEPT !.step = "writing"]
    /\ ChangeMarket([NoMarket EXCEPT !.file = "torn"])
    /\ UNCHANGED plugin /\ SetupKeeps

\* The refusal to remove files of the repository comes after the entry is gone.
WriteMarket ==
    /\ setup.step = "writing"
    /\ market' = setup.market
    /\ IF ~setup.removeFiles THEN EndSetup("done")
       ELSE IF scope = "repo" THEN EndSetup("failed")
       ELSE IF plugin.there THEN setup' = [setup EXCEPT !.step = "removing"]
       ELSE EndSetup("done")
    /\ during' = [during EXCEPT
           !.verdict = "none",
           !.replaced = IF setup'.step = "removing" THEN OneMore(@) ELSE @]
    /\ UNCHANGED plugin /\ SetupKeeps

\* A system call fails or the process dies.
BreakOff ==
    /\ setup.step # "idle"
    /\ setup' = NoSetup
    /\ UNCHANGED <<plugin, market, during>> /\ SetupKeeps

SetupNext ==
    \/ \E k \in {"install", "upgrade"}, inPlace \in BOOLEAN : BeginInstall(k, inPlace)
    \/ \E removeFiles \in BOOLEAN : BeginUninstall(removeFiles)
    \/ \E p \in Pieces : RemoveFile(p) \/ CopyFile(p)
    \/ RemoveDirectory \/ MakeDirectory
    \/ ReadMarket \/ Truncate \/ WriteMarket \/ BreakOff

-----------------------------------------------------------------------------
(* kafa doctor: it reads the source, the installed plugin and the           *)
(* marketplace, and for the user scope what codex has.                      *)

InspectKeeps == UNCHANGED <<scope, checkout, plugin, market, registry, setup>>

BeginDoctor ==
    /\ ~Inspecting /\ OneMoreAct
    /\ inspect' = [NoInspection EXCEPT !.step = "source"]
    /\ during' = [held |-> {}, replaced |-> 0, verdict |-> "pending"]
    /\ InspectKeeps

\* Next to the plugin of the repository scope the source is the plugin itself.
DoctorSource == IF scope = "repo" THEN plugin ELSE checkout

LookAtSource ==
    /\ inspect.step = "source"
    /\ inspect' = [inspect EXCEPT !.step = "installed", !.sound = InventoryFits(DoctorSource)]
    /\ UNCHANGED <<during, pluginActs>> /\ InspectKeeps

EndDoctor(healthy) ==
    /\ inspect' = NoInspection
    /\ during' = [during EXCEPT !.verdict = IF healthy /\ @ = "pending" THEN "healthy" ELSE "none"]

LookAtInstalled ==
    LET sound == inspect.sound /\ market.file = "whole" /\ market.ours = 1
                 /\ plugin.there /\ plugin = DoctorSource
    IN /\ inspect.step = "installed"
       /\ \/ /\ scope = "user"
             /\ inspect' = [inspect EXCEPT !.step = "registered", !.sound = sound]
             /\ UNCHANGED during
          \/ scope = "repo" /\ EndDoctor(sound)
       /\ UNCHANGED pluginActs /\ InspectKeeps

\* Mutant of KnownToCodex: a missing registration is passed over.
KnownToCodex_Absent ==
    \/ registry.version = "none"
    \/ registry.version = ReleaseOf(plugin) /\ registry.cache = plugin

\* Only the registration under the name of this marketplace counts.
KnownToCodex ==
    /\ registry.version # "none" /\ registry.version = ReleaseOf(plugin)
    /\ registry.cache = plugin

LookAtRegistration ==
    /\ inspect.step = "registered"
    /\ EndDoctor(inspect.sound /\ KnownToCodex)
    /\ UNCHANGED pluginActs /\ InspectKeeps

-----------------------------------------------------------------------------
(* kafa project: a command that the old and the new release both have.      *)

BeginWatch ==
    during' = [during EXCEPT
        !.held = IF InventoryFits(plugin) THEN {plugin.files} ELSE {},
        !.replaced = IF setup.step \in {"removing", "making", "copying"} THEN 1 ELSE 0]

InspectGoes(i) == inspect' = i /\ UNCHANGED <<during, pluginActs>> /\ InspectKeeps
Refuse ==
    /\ inspect' = [NoInspection EXCEPT !.step = "refused"]
    /\ during' = [during EXCEPT !.held = {}, !.replaced = 0]
    /\ UNCHANGED pluginActs /\ InspectKeeps
InspectTo(s) == InspectGoes([inspect EXCEPT !.step = s])

\* Whatever the marketplace, codex has to know exactly one plugin of the name.
OneRegistration == registry.version # "none" /\ ~registry.second

\* A maintainer names the directory; everyone else has it from the
\* registration.
BeginProject ==
    /\ ~Inspecting /\ OneMoreAct
    /\ \/ /\ inspect' = [NoInspection EXCEPT !.step = "list"]
          /\ BeginWatch
       \/ /\ OneRegistration
          /\ inspect' = [NoInspection EXCEPT !.step = "list", !.registered = registry.version]
          /\ BeginWatch
       \/ /\ ~OneRegistration
          /\ inspect' = [NoInspection EXCEPT !.step = "refused"]
          /\ UNCHANGED during
    /\ InspectKeeps

\* The digest is over the files that are listed first, then read in their
\* order.
ListFiles ==
    /\ inspect.step = "list"
    /\ IF plugin.there
       THEN InspectGoes([inspect EXCEPT !.step = "read", !.left = PiecesOf(plugin),
                                        !.seen = NoFiles])
       ELSE Refuse

IsNext(p, left) ==
    /\ p \in left
    /\ p = "code" => "manifest" \notin left
    /\ p = "retired" => left = {"retired"}

ReadFile(p) ==
    /\ inspect.step = "read" /\ IsNext(p, inspect.left)
    /\ IF p \in PiecesOf(plugin)
       THEN InspectGoes([inspect EXCEPT !.left = @ \ {p}, !.seen[p] = plugin.files[p]])
       ELSE Refuse

\* The release is refused at once if it is not the one of the command.
CheckIdentity ==
    /\ inspect.step = "read" /\ inspect.left = {} /\ ~inspect.again
    /\ IF ReleaseOf(plugin) = "new"
       THEN InspectGoes([inspect EXCEPT !.step = "inventory", !.digest = inspect.seen])
       ELSE Refuse

\* A missing or unlisted file is refused after the second digest.
CheckInventory ==
    /\ inspect.step = "inventory"
    /\ InspectGoes([inspect EXCEPT !.step = "list", !.again = TRUE,
                                   !.sound = InventoryFits(plugin)])

\* Mutant of SeenAgain: the second digest is taken for the one that counts.
SeenAgain_Last == TRUE

SeenAgain == inspect.seen = inspect.digest

\* What was read twice was complete in between.
Accepted == SeenAgain /\ inspect.sound

\* A registration names the release it was made for.
RegistrationFits == inspect.registered \in {"none", "new"}

Capture ==
    /\ inspect.step = "read" /\ inspect.left = {} /\ inspect.again
    /\ IF Accepted /\ RegistrationFits /\ plugin.there
       THEN InspectGoes([inspect EXCEPT !.step = "copy", !.digest = inspect.seen,
                                        !.left = PiecesOf(plugin), !.seen = NoFiles])
       ELSE Refuse

CaptureFile(p) ==
    /\ inspect.step = "copy" /\ p \in inspect.left
    /\ IF p \in PiecesOf(plugin)
       THEN InspectGoes([inspect EXCEPT !.left = @ \ {p}, !.seen[p] = plugin.files[p]])
       ELSE Refuse

\* Mutant of CopyIsVerified: what was copied is run.
CopyIsVerified_Trusts == TRUE

CopyIsVerified == inspect.seen = inspect.digest

VerifyCapture ==
    /\ inspect.step = "copy" /\ inspect.left = {}
    /\ IF CopyIsVerified THEN InspectTo("captured") ELSE Refuse

\* What runs is the private copy, verified once more.
RunCopy ==
    /\ inspect.step = "captured"
    /\ IF CopyIsVerified THEN InspectGoes([NoInspection EXCEPT !.step = "ran", !.seen = inspect.seen])
       ELSE Refuse

InspectNext ==
    \/ BeginDoctor \/ LookAtSource \/ LookAtInstalled \/ LookAtRegistration
    \/ BeginProject \/ ListFiles \/ CheckIdentity \/ CheckInventory
    \/ Capture \/ VerifyCapture \/ RunCopy
    \/ \E p \in Pieces : ReadFile(p) \/ CaptureFile(p)

-----------------------------------------------------------------------------
(* Outside: the developer, codex and whoever else writes there.             *)

Disturb ==
    /\ OneMoreAct
    /\ setup' = IF setup.step = "idle" THEN NoSetup ELSE [setup EXCEPT !.alone = FALSE]
    /\ UNCHANGED <<scope, plugin>>

Upheaval ==
    /\ Disturb
    /\ during' = [during EXCEPT !.verdict = "none"]

\* What is copied from then on is another replacement.
SwitchCheckout ==
    /\ \E r \in Releases : checkout' = Release(r) /\ checkout' # checkout
    /\ during' = [during EXCEPT !.verdict = "none",
                                !.replaced = IF setup.step = "copying" THEN OneMore(@) ELSE @]
    /\ Disturb /\ UNCHANGED <<market, registry, inspect>>

EditMarket ==
    /\ \/ \E n \in Neighbours :
              market' = [market EXCEPT !.file = "whole", !.others = @ \cup {n}]
       \/ market.ours = 1 /\ market' = [market EXCEPT !.ours = 2]
    /\ market' # market
    /\ Upheaval /\ UNCHANGED <<checkout, registry, inspect>>

Register ==
    /\ market.file = "whole" /\ market.ours > 0 /\ ReleaseOf(plugin) # "none"
    /\ registry' = [registry EXCEPT !.version = ReleaseOf(plugin), !.cache = plugin]
    /\ registry' # registry
    /\ Upheaval /\ UNCHANGED <<checkout, market, inspect>>

RegisterElsewhere ==
    /\ OneRegistration
    /\ registry' = [registry EXCEPT !.second = TRUE]
    /\ Upheaval /\ UNCHANGED <<checkout, market, inspect>>

TouchCopy ==
    /\ inspect.step = "captured"
    /\ \E p \in Pieces, c \in Content :
           inspect.seen[p] # c /\ inspect' = [inspect EXCEPT !.seen[p] = c]
    /\ Upheaval /\ UNCHANGED <<checkout, market, registry>>

OutsideNext == SwitchCheckout \/ EditMarket \/ Register \/ RegisterElsewhere \/ TouchCopy

InstallNext == SetupNext \/ InspectNext \/ OutsideNext

InstallSpec == InstallInit /\ [][InstallNext]_pluginVars

-----------------------------------------------------------------------------
(* Properties *)

\* A project command runs what the directory held as a whole at some moment
\* while the command was at work, complete and of its own release, if the
\* plugin was replaced at most once in that time, from one checkout: never a
\* mixture of what was removed and what was copied (validate_project_runtime_root,
\* run_project_harness_capture).
WhatRunsWasInstalled ==
    inspect.step = "ran" /\ during.replaced <= 1 =>
        inspect.seen \in during.held /\ inspect.seen["manifest"] = "new"

\* What the doctor of the user's plugin calls healthy, a project command of the
\* same release accepts, as long as nothing changes and codex knows the plugin
\* from this marketplace only (add_install_health_checks, _registered_project_runtime).
HealthyRuns ==
    inspect.step = "refused" /\ during.verdict = "healthy" =>
        \/ scope = "repo" \/ registry.second
        \/ ReleaseOf(checkout) # "new"

\* A plugin command that succeeds with nobody else at work leaves the plugin
\* and the one entry, or neither, whatever earlier ones left behind, and the
\* entries of others as they were (copy_action, upsert_marketplace_entry,
\* uninstall_plugin).
InstallIsWhole ==
    setup.fate = "done" =>
        /\ market.file = "whole" /\ market.others = setup.others
        /\ setup.kind # "uninstall" =>
               market.ours = 1 /\ InventoryFits(plugin) /\ plugin = From
        /\ setup.kind = "uninstall" =>
               market.ours = 0 /\ (setup.removeFiles => ~plugin.there)

\* An upgrade from the checkout brings the plugin back from whatever a
\* crash left; only a marketplace file that was cut short stops it
\* (copy_action, read_marketplace).
UpgradeRepairs ==
    /\ setup.fate = "failed"
    /\ setup.kind = "upgrade" /\ ~setup.inPlace
    => market.file = "torn"

\* The plugin is installed, found healthy and run as a whole.
InstallationIsSound ==
    WhatRunsWasInstalled /\ HealthyRuns /\ InstallIsWhole /\ UpgradeRepairs
=============================================================================
