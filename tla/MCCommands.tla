------------------------------ MODULE MCCommands ------------------------------
(***************************************************************************)
(* One kind of command at a time on an otherwise idle project: the file    *)
(* operations, the views, the delivery plans, the reading of reports, the  *)
(* running of a test command, the store and the installation of the        *)
(* plugin. Each has its own variables; the one that is chosen at the start *)
(* moves, with whatever other programs do to it, and the others stay as    *)
(* they are.                                                               *)
(***************************************************************************)
EXTENDS FileSafety, ProjectViews, DeliveryPlan, TestReports, CommandRuns, DatabaseBackup,
        PluginInstall

CONSTANTS P, Q      \* the plan ids

VARIABLE works      \* the part that moves

\* The ids of plan P in the second cycle have the stem of plan Q in the first.
SharedStem == [k \in CyclePlans |-> IF k = <<2, P>> THEN <<1, Q>> ELSE k]

Parts == {"files", "views", "plans", "reports", "trials", "store", "plugin"}

\* The one state of a part that does not move.
FilesIdle == system = "posix" /\ op = "create" /\ at["destination"] = Nothing
ViewsIdle == active
ReportsIdle == format = "regex"
TrialsIdle == report = NoReport /\ tools.daemon = CHOOSE e \in Endpoints : TRUE
StoreIdle == ~Present("target")
PluginIdle == scope = "user" /\ ~plugin.there /\ checkout = Release("new")

Init ==
    /\ works \in Parts
    /\ FilesInit /\ (works # "files" => FilesIdle)
    /\ ViewsInit /\ (works # "views" => ViewsIdle)
    /\ PlansInit
    /\ ReportsInit /\ (works # "reports" => ReportsIdle)
    /\ TrialsInit /\ (works # "trials" => TrialsIdle)
    /\ StoreInit /\ (works # "store" => StoreIdle)
    /\ InstallInit /\ (works # "plugin" => PluginIdle)

\* Everything but one part.
FilesOnly == UNCHANGED <<works, viewsVars, planVars, reportVars, trialVars, storeVars, pluginVars>>
ViewsOnly == UNCHANGED <<works, filesVars, planVars, reportVars, trialVars, storeVars, pluginVars>>
PlansOnly == UNCHANGED <<works, filesVars, viewsVars, reportVars, trialVars, storeVars, pluginVars>>
ReportsOnly == UNCHANGED <<works, filesVars, viewsVars, planVars, trialVars, storeVars, pluginVars>>
TrialsOnly == UNCHANGED <<works, filesVars, viewsVars, planVars, reportVars, storeVars, pluginVars>>
StoreOnly == UNCHANGED <<works, filesVars, viewsVars, planVars, reportVars, trialVars, pluginVars>>
InstallOnly == UNCHANGED <<works, filesVars, viewsVars, planVars, reportVars, trialVars, storeVars>>

Next ==
    \/ works = "files" /\ FilesNext /\ FilesOnly
    \/ works = "views" /\ ViewsNext /\ ViewsOnly
    \/ works = "plans" /\ PlansNext /\ PlansOnly
    \/ works = "reports" /\ ReportsNext /\ ReportsOnly
    \/ works = "trials" /\ TrialsNext /\ TrialsOnly
    \/ works = "store" /\ StoreNext /\ StoreOnly
    \/ works = "plugin" /\ InstallNext /\ InstallOnly

Spec == Init /\ [][Next]_<<works, filesVars, viewsVars, planVars, reportVars, trialVars,
                            storeVars, pluginVars>>

\* The variables of the part that moves have their types; those of the others
\* keep values they could start with.
CommandsTypeOK ==
    /\ works = "files" => FilesTypeOK
    /\ works = "views" => ViewsTypeOK
    /\ works = "plans" => PlansTypeOK
    /\ works = "reports" => ReportsTypeOK
    /\ works = "trials" => TrialsTypeOK
    /\ works = "store" => StoreTypeOK
    /\ works = "plugin" => InstallTypeOK
=============================================================================
