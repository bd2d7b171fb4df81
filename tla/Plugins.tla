------------------------------- MODULE Plugins -------------------------------
(***************************************************************************)
(* The integration service: installing, uninstalling, enabling and         *)
(* disabling plugins, their processes, and the integrations made with      *)
(* them, by users and by demo data.  Requests are handlers that run at the *)
(* same time; every one of them reads the whole row of its plugin and      *)
(* later writes it back.                                                   *)
(*                                                                         *)
(* Not told apart: how many integrations a plugin has and whether they are *)
(* active, the describer's deployments, and the credentials.               *)
(***************************************************************************)
EXTENDS Naturals, FiniteSets

CONSTANTS Plugin,      \* ids, which are also the types of integration
          Installer    \* requests to load a plugin that are served at a time

ASSUME PluginAssumption == IsFiniteSet(Plugin) /\ "nothing" \notin Plugin

VARIABLES
    serving,     \* the service runs
    install,     \* install[p]: install_state of the row
    oper,        \* oper[p]: operational_status of the row
    late,        \* rows whose updated_at is two minutes ago or more
    binary,      \* binary[p]: the plugin whose code integration_plugin_binaries holds for p
    folder,      \* whose files are in /integration-types/integration_type
    loaded,      \* loaded[p]: the plugin whose code is run as the type p, if p is in the maps
    load,        \* load[i]: the request to load a plugin
    admin,       \* the request to uninstall, enable or disable a plugin
    adding,      \* plugins an integration is being added to, whose checks are passed
    integrations,\* plugins that have integrations which users added
    demos,       \* plugins that have integrations which demo data brought
    demoing,     \* plugins whose demo data is being loaded
    \* ghosts:
    mixed,       \* two loads overlapped though the row of neither said so
    uninstalled, \* rows written last by an uninstall
    crossed,     \* plugins to which integrations were being added during their last uninstall
    sampled      \* of demos, those that had none when their last uninstall looked

rowVars == <<install, oper, late>>
demoVars == <<demos, demoing>>
ghosts == <<mixed, uninstalled, crossed, sampled>>
pluginVars == <<serving, rowVars, binary, folder, loaded, load, admin, adding, integrations,
                demoVars, ghosts>>

Nobody == "nothing"
InstallState == {"not_installed", "installing", "installed"}
OperStatus == {"enabled", "disabled", "failed"}
Idle == [pc |-> "idle"]
LoadStep == {"checked", "download", "read", "manifest", "store", "load", "services"}
LoadRequest == [pc : LoadStep, of : Plugin, oper : OperStatus,
                got : Plugin \cup {Nobody}, as : Plugin \cup {Nobody}]
AdminStep == {"uninstall", "unload", "uninstalled", "enable", "disable"}
AdminRequest == [pc : AdminStep, of : Plugin, install : InstallState]

PluginsInit ==
    /\ serving = TRUE
    /\ install = [p \in Plugin |-> "not_installed"]
    /\ oper = [p \in Plugin |-> "disabled"]
    /\ late = {} /\ folder = Nobody
    /\ binary = [p \in Plugin |-> Nobody] /\ loaded = [p \in Plugin |-> Nobody]
    /\ load = [i \in Installer |-> Idle] /\ admin = Idle
    /\ adding = {} /\ integrations = {} /\ demos = {} /\ demoing = {}
    /\ mixed = FALSE /\ uninstalled = {} /\ crossed = {} /\ sampled = {}

\* UpdatePlugin writes all columns of the struct, and updated_at.
UpdatePlugin(p, s, o) ==
    /\ install' = [install EXCEPT ![p] = s]
    /\ oper' = [oper EXCEPT ![p] = o]
    /\ late' = late \ {p}

---------------------------------------------------------------------------
(* LoadPluginWithID, LoadPluginWithURL (of a known URL) and InstallOrUpdatePlugin. *)

Running(i) == load[i].pc \notin {"idle", "checked"}
Goto(i, step) == load' = [load EXCEPT ![i].pc = step]
ReadPlugin(p) == [pc |-> "checked", of |-> p, oper |-> oper[p], got |-> Nobody, as |-> Nobody]

\* Mutant: only the plugin's own row is looked at.
CheckOwnRow(i, p) ==
    /\ serving /\ load[i] = Idle
    /\ install[p] # "installing"
    /\ load' = [load EXCEPT ![i] = ReadPlugin(p)]
    /\ UNCHANGED <<serving, rowVars, binary, folder, loaded, admin, adding, integrations, demoVars>>

CheckInstalling(i, p) ==
    /\ serving /\ load[i] = Idle
    /\ \A q \in Plugin : install[q] # "installing"
    /\ load' = [load EXCEPT ![i] = ReadPlugin(p)]
    /\ UNCHANGED <<serving, rowVars, binary, folder, loaded, admin, adding, integrations, demoVars>>

\* Not enough memory, or the row cannot be written.
GiveUpLoad(i) ==
    /\ load[i].pc = "checked"
    /\ load' = [load EXCEPT ![i] = Idle]
    /\ UNCHANGED <<serving, rowVars, binary, folder, loaded, admin, adding, integrations, demoVars>>

BeginInstall(i) ==
    /\ load[i].pc = "checked"
    /\ UpdatePlugin(load[i].of, "installing", load[i].oper)
    /\ Goto(i, "download")
    /\ UNCHANGED <<serving, binary, folder, loaded, admin, adding, integrations, demoVars>>

\* What was in the folder is removed before.
Download(i) ==
    /\ load[i].pc = "download"
    /\ folder' = load[i].of
    /\ Goto(i, "read")
    /\ UNCHANGED <<serving, rowVars, binary, loaded, admin, adding, integrations, demoVars>>

ReadBinary(i) ==
    /\ load[i].pc = "read"
    /\ load' = [load EXCEPT ![i].pc = "manifest", ![i].got = folder]
    /\ UNCHANGED <<serving, rowVars, binary, folder, loaded, admin, adding, integrations, demoVars>>

ReadManifest(i) ==
    /\ load[i].pc = "manifest"
    /\ load' = [load EXCEPT ![i].pc = "store", ![i].as = folder]
    /\ UNCHANGED <<serving, rowVars, binary, folder, loaded, admin, adding, integrations, demoVars>>

\* The row of the binary is the one the manifest names.
StoreBinary(i) ==
    /\ load[i].pc = "store"
    /\ binary' = [binary EXCEPT ![load[i].as] = load[i].got]
    /\ Goto(i, "load")
    /\ UNCHANGED <<serving, rowVars, folder, loaded, admin, adding, integrations, demoVars>>

\* LoadPlugin: what was read is written to the file of the type and started.
StartPlugin(i) ==
    /\ load[i].pc = "load"
    /\ loaded' = [loaded EXCEPT ![load[i].of] = load[i].got]
    /\ Goto(i, "services")
    /\ UNCHANGED <<serving, rowVars, binary, folder, admin, adding, integrations, demoVars>>

\* The deferred write, which may fail.
EndLoad(i, s, o) ==
    /\ UpdatePlugin(load[i].of, s, o) \/ UNCHANGED rowVars
    /\ load' = [load EXCEPT ![i] = Idle]
    /\ UNCHANGED <<serving, binary, folder, admin, adding, integrations, demoVars>>

\* The describer is deployed, the configuration reloaded and the other services restarted.
FinishLoad(i) ==
    /\ load[i].pc = "services" /\ EndLoad(i, "installed", "enabled")
    /\ UNCHANGED loaded

\* Any step fails; what was stored or started stays.
FailLoad(i) == Running(i) /\ EndLoad(i, "not_installed", "failed") /\ UNCHANGED loaded

\* The new process does not start; the type stays in the maps, with the new file.
FailStart(i) ==
    /\ load[i].pc = "load" /\ loaded[load[i].of] # Nobody
    /\ EndLoad(i, "not_installed", "failed")
    /\ loaded' = [loaded EXCEPT ![load[i].of] = load[i].got]

---------------------------------------------------------------------------
(* UninstallPlugin, EnablePlugin and DisablePlugin. *)

Ask(step, p) ==
    /\ serving /\ admin = Idle
    /\ admin' = [pc |-> step, of |-> p, install |-> install[p]]
    /\ UNCHANGED <<serving, rowVars, binary, folder, loaded, load, adding, integrations, demoVars>>

BeginUninstall(p) == p \notin integrations \cup demos /\ Ask("uninstall", p)

\* Mutant: DisableIntegrationTypeHelper does not list the integrations again.
DisableTypeUnchecked ==
    /\ admin.pc = "uninstall" /\ loaded[admin.of] # Nobody
    /\ admin' = [admin EXCEPT !.pc = "unload"]
    /\ UNCHANGED <<serving, rowVars, binary, folder, loaded, load, adding, integrations, demoVars>>

\* DisableIntegrationTypeHelper: no integrations, and the type is loaded.
DisableType ==
    /\ admin.pc = "uninstall"
    /\ admin.of \notin integrations \cup demos /\ loaded[admin.of] # Nobody
    /\ admin' = [admin EXCEPT !.pc = "unload"]
    /\ UNCHANGED <<serving, rowVars, binary, folder, loaded, load, adding, integrations, demoVars>>

UnLoadPlugin ==
    /\ admin.pc = "unload"
    /\ loaded' = [loaded EXCEPT ![admin.of] = Nobody]
    /\ admin' = [admin EXCEPT !.pc = "uninstalled"]
    /\ UNCHANGED <<serving, rowVars, binary, folder, load, adding, integrations, demoVars>>

WriteUninstalled ==
    /\ admin.pc = "uninstalled"
    /\ UpdatePlugin(admin.of, "not_installed", "disabled")
    /\ admin' = Idle
    /\ UNCHANGED <<serving, binary, folder, loaded, load, adding, integrations, demoVars>>

\* The status changes, and the install state becomes what was read.
WriteStatus ==
    /\ admin.pc \in {"enable", "disable"}
    /\ UpdatePlugin(admin.of, admin.install, IF admin.pc = "enable" THEN "enabled" ELSE "disabled")
    /\ admin' = Idle
    /\ UNCHANGED <<serving, binary, folder, loaded, load, adding, integrations, demoVars>>

\* A check refuses or a call fails: what is done stays.
AbortRequest ==
    /\ admin # Idle
    /\ admin' = Idle
    /\ UNCHANGED <<serving, rowVars, binary, folder, loaded, load, adding, integrations, demoVars>>

\* HealthCheck finds the type in the maps and its process dead, and restarts it.
Reboot(p) ==
    /\ serving /\ loaded[p] # Nobody
    /\ \E o \in {"enabled", "failed"} : oper' = [oper EXCEPT ![p] = o]
    /\ late' = late \ {p}
    /\ UNCHANGED <<serving, install, binary, folder, loaded, load, admin, adding, integrations,
                   demoVars>>

---------------------------------------------------------------------------
(* AddIntegrations and Delete. *)

CheckPlugin(p) ==
    /\ serving /\ p \notin adding
    /\ loaded[p] # Nobody /\ oper[p] = "enabled" /\ install[p] # "not_installed"
    /\ adding' = adding \cup {p}
    /\ UNCHANGED <<serving, rowVars, binary, folder, loaded, load, admin, integrations, demoVars>>

\* After the plugin has discovered them; or it found none, or failed.
CreateIntegration(p) ==
    /\ p \in adding
    /\ adding' = adding \ {p}
    /\ integrations' \in {integrations, integrations \cup {p}}
    /\ UNCHANGED <<serving, rowVars, binary, folder, loaded, load, admin, demoVars>>

DeleteIntegration(p) ==
    /\ serving /\ p \in integrations
    /\ integrations' = integrations \ {p}
    /\ UNCHANGED <<serving, rowVars, binary, folder, loaded, load, admin, adding, demoVars>>

---------------------------------------------------------------------------
(* LoadPluginDemoData, and what takes its integrations away again. *)

KeepsAll ==
    UNCHANGED <<serving, rowVars, binary, folder, loaded, load, admin, adding, integrations>>

\* The state of the row does not matter; the flag that would is never set.
LoadPluginDemoData(p) ==
    /\ serving /\ p \notin demoing
    /\ demoing' = demoing \cup {p}
    /\ KeepsAll /\ UNCHANGED demos

\* LoadDemoData writes one integration after the other.
CreateDemoIntegration(p) ==
    /\ p \in demoing
    /\ demos' = demos \cup {p}
    /\ KeepsAll /\ UNCHANGED demoing

\* After all of them, or at an error; what is written stays.
EndDemoLoad(p) ==
    /\ p \in demoing
    /\ demoing' = demoing \ {p}
    /\ KeepsAll /\ UNCHANGED demos

DeleteDemoIntegration(p) ==
    /\ serving /\ p \in demos
    /\ demos' = demos \ {p}
    /\ KeepsAll /\ UNCHANGED demoing

\* Those a health check has moved out of the sample state are kept.
PurgeSampleData ==
    /\ serving
    /\ demos' \in SUBSET demos
    /\ KeepsAll /\ UNCHANGED demoing

---------------------------------------------------------------------------
(* Time, CheckPluginInstallTimeout, and the service itself. *)

RowAges(p) ==
    /\ install[p] = "installing" /\ p \notin late
    /\ late' = late \cup {p}
    /\ UNCHANGED <<serving, install, oper, binary, folder, loaded, load, admin, adding,
                   integrations, demoVars>>

TimedOut == {p \in late : install[p] = "installing"}

\* Mutant: only plugins that were enabled before are looked at.
SweepEnabled ==
    LET T == {p \in TimedOut : oper[p] = "enabled"} IN
    /\ serving /\ T # {}
    /\ install' = [p \in Plugin |-> IF p \in T THEN "not_installed" ELSE install[p]]
    /\ oper' = [p \in Plugin |-> IF p \in T THEN "failed" ELSE oper[p]]
    /\ late' = late \ T
    /\ UNCHANGED <<serving, binary, folder, loaded, load, admin, adding, integrations, demoVars>>

\* UpdatePluginInstallTimedOut: rows, not the installs that run.
UpdatePluginInstallTimedOut ==
    /\ serving /\ TimedOut # {}
    /\ install' = [p \in Plugin |-> IF p \in TimedOut THEN "not_installed" ELSE install[p]]
    /\ oper' = [p \in Plugin |-> IF p \in TimedOut THEN "failed" ELSE oper[p]]
    /\ late' = late \ TimedOut
    /\ UNCHANGED <<serving, binary, folder, loaded, load, admin, adding, integrations, demoVars>>

CrashService ==
    /\ serving
    /\ serving' = FALSE
    /\ loaded' = [p \in Plugin |-> Nobody]
    /\ load' = [i \in Installer |-> Idle] /\ admin' = Idle /\ adding' = {} /\ demoing' = {}
    /\ UNCHANGED <<rowVars, binary, folder, integrations, demos>>

\* NewIntegrationTypeManager starts the installed plugins from their binaries; those that do
\* not start are left out.
BootService ==
    /\ ~serving
    /\ serving' = TRUE
    /\ \E S \in SUBSET {p \in Plugin : install[p] = "installed" /\ binary[p] # Nobody} :
          loaded' = [p \in Plugin |-> IF p \in S THEN binary[p] ELSE Nobody]
    /\ UNCHANGED <<rowVars, binary, folder, load, admin, adding, integrations, demoVars>>

---------------------------------------------------------------------------
InstallStepOf(i) ==
    \/ BeginInstall(i) \/ Download(i) \/ ReadBinary(i) \/ ReadManifest(i)
    \/ StoreBinary(i) \/ StartPlugin(i) \/ FinishLoad(i) \/ FailLoad(i)
    \/ FailStart(i) \/ GiveUpLoad(i)

AdminStepOf(p) ==
    \/ BeginUninstall(p) \/ Ask("enable", p) \/ Ask("disable", p)
    \/ Reboot(p)

DemoStepOf(p) ==
    \/ LoadPluginDemoData(p) \/ CreateDemoIntegration(p) \/ EndDemoLoad(p)
    \/ DeleteDemoIntegration(p)

PluginsStep ==
    \/ \E i \in Installer : InstallStepOf(i) \/ \E p \in Plugin : CheckInstalling(i, p)
    \/ DisableType \/ UnLoadPlugin \/ WriteUninstalled \/ WriteStatus \/ AbortRequest
    \/ \E p \in Plugin : \/ AdminStepOf(p) \/ CheckPlugin(p) \/ CreateIntegration(p)
                         \/ DeleteIntegration(p) \/ RowAges(p) \/ DemoStepOf(p)
    \/ PurgeSampleData \/ UpdatePluginInstallTimedOut \/ CrashService \/ BootService

\* A load passes its check while another has passed its own and not written its row, or runs
\* though its row no longer says so.
Overlaps ==
    \E i, j \in Installer :
        /\ i # j /\ load[i] = Idle /\ load'[i] # Idle
        /\ \/ load[j].pc = "checked"
           \/ Running(j) /\ install[load[j].of] # "installing"

Unloading == IF admin'.pc \in {"unload", "uninstalled"} THEN {admin'.of} ELSE {}

LooksAgain == admin.pc = "uninstall" /\ admin'.pc = "unload"

ObservePlugins ==
    /\ mixed' = (mixed \/ Overlaps)
    /\ uninstalled' = {p \in uninstalled : install'[p] = "not_installed"} \cup
                      (IF admin.pc = "uninstalled" /\ admin' = Idle /\ install' # install
                       THEN {admin.of} ELSE {})
    /\ crossed' = (IF LooksAgain THEN crossed \ {admin.of} ELSE crossed)
                      \cup (Unloading \cap adding')
    /\ sampled' = IF LooksAgain THEN sampled \ {admin.of}
                  ELSE (sampled \cup (demos' \ demos)) \cap demos'

PluginsNext == PluginsStep /\ ObservePlugins

---------------------------------------------------------------------------
PluginsTypeOK ==
    /\ serving \in BOOLEAN
    /\ install \in [Plugin -> InstallState] /\ oper \in [Plugin -> OperStatus]
    /\ late \in SUBSET Plugin
    /\ binary \in [Plugin -> Plugin \cup {Nobody}]
    /\ loaded \in [Plugin -> Plugin \cup {Nobody}]
    /\ folder \in Plugin \cup {Nobody}
    /\ load \in [Installer -> {Idle} \cup LoadRequest]
    /\ admin \in {Idle} \cup AdminRequest
    /\ adding \in SUBSET Plugin /\ integrations \in SUBSET Plugin
    /\ demos \in SUBSET Plugin /\ demoing \in SUBSET Plugin
    /\ mixed \in BOOLEAN /\ uninstalled \in SUBSET Plugin
    /\ crossed \in SUBSET Plugin /\ sampled \in SUBSET Plugin

\* A plugin runs its own code, now and after a restart, though all installs share a folder:
\* the rows keep them apart, unless two requests passed the check at the same time, or the
\* row of an install that runs was timed out or overwritten.
RunsOwnCode ==
    \A p \in Plugin :
        (loaded[p] \notin {p, Nobody} \/ binary[p] \notin {p, Nobody}) => mixed

\* An uninstall leaves no integrations behind: those a plugin has after it were being added by
\* a user while the uninstall was past its second check, or demo data brought them after that
\* check, which needs no installed plugin.
UninstalledHasNone ==
    \A p \in uninstalled :
        /\ p \in integrations => p \in crossed
        /\ p \in demos => p \in sampled

\* No install stays in progress for ever, and so keeps all others out: not when the service
\* stops, hangs or cannot write the row in the end.
InstallEnds == \A p \in Plugin : install[p] = "installing" ~> install[p] # "installing"
=============================================================================
