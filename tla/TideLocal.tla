------------------------------ MODULE TideLocal ------------------------------
(***************************************************************************)
(* `tide local` (scripts/tide-local.mjs, reached through bin.js): runs of  *)
(* `start` and `stop` that build the native runtime, download the weights, *)
(* install a LaunchAgent, test the gateway and merge the settings.  Each   *)
(* run is a process that can be killed between two of its steps, and two   *)
(* runs can overlap.  launchd, make, swift and curl are external.          *)
(***************************************************************************)
EXTENDS ReplaceFile, FiniteSets

CONSTANTS
    Runs,           \* the processes
    Profiles,       \* PROFILES: each has its weights
    Commands,       \* the command lines: see CommandType
    NoRun, NoCommand, NoConfig

Configs == {cmd.conf : cmd \in Commands}
Flags == {"yes", "dry", "build", "download", "service", "test", "settings"}
CommandType(cmd) ==
    /\ cmd.sub \in {"start", "stop"} /\ cmd.flags \subseteq Flags
    /\ cmd.conf.profile \in Profiles /\ DOMAIN cmd.conf = {"profile", "port"}

ASSUME TideLocalAssumption ==
    /\ \A cmd \in Commands : CommandType(cmd)
    /\ NoCommand \notin Commands /\ NoConfig \notin Configs
    /\ NoRun \notin Runs

VARIABLES
    line, at,       \* the command line of a run and where it is in it
    merged,         \* what a run is about to write into settings.json
    answered,       \* the gateway that passed a run's self-test
    built,          \* the native binaries
    part, weights,  \* <gguf>.part and <gguf> of each profile
    plist, settings, state,     \* the LaunchAgent, settings.json, local.json
    dirs,           \* the directories that exist
    loaded, gateway,    \* what launchd has loaded, and what serves
    given,          \* history: settings.json as it was before the first run
    last, crowded, relogged  \* history: the last run that was started, the
                    \* runs that overlapped another, a login since `last`

runVars == <<line, merged, answered>>
weightVars == <<built, part, weights>>
launchdVars == <<loaded, gateway>>
files == <<plist, settings, state>>
fileVars == <<plist, settings, state, dirs>>
history == <<given, last, crowded, relogged>>
vars == <<runVars, at, weightVars, launchdVars, fileVars, history>>

Ended == {"ready", "planned", "failed", "aborted", "stopped", "warned",
          "killed"}
Working == {"host", "build", "download", "curl", "move", "service", "plist",
            "bootout", "bootstrap", "wait", "test", "settings", "tmp",
            "filling", "rename", "state", "noting", "stop"}
Stages == {"unborn", "consent"} \cup Working \cup Ended
Active(r) == at[r] \notin {"unborn"} \cup Ended

Has(r, flag) == flag \in line[r].flags
Conf(r) == line[r].conf
Profile(r) == Conf(r).profile

\* settings.json: the user's own keys, and the gateway it points to.
Settings == [own: BOOLEAN, conf: Configs \cup {NoConfig}]
NoSettings == [own |-> FALSE, conf |-> NoConfig]

(***************************************************************************)
(* The directories that a command line asks for: gguf, ~/.deeptide and its *)
(* log, LaunchAgents.  Each function makes its own before it looks at the  *)
(* dry-run flag; only writeLocalState looks first.                         *)
(***************************************************************************)
DirsOf == [download |-> {"gguf"}, settings |-> {"state"},
           service |-> {"state", "log", "agents"}]
Dirs == {"gguf", "state", "log", "agents"}
MakesDirs(r, flag) ==
    dirs' = dirs \cup (IF Has(r, flag) THEN DirsOf[flag] ELSE {})

\* A run goes from one stage to another; nothing else happens in GoesOn.
Moves(r, from, to) == at[r] = from /\ at' = [at EXCEPT ![r] = to]
GoesOn(r, from, to) ==
    /\ Moves(r, from, to)
    /\ UNCHANGED <<runVars, weightVars, launchdVars, fileVars, history>>
-----------------------------------------------------------------------------
Init ==
    /\ line = [r \in Runs |-> NoCommand]
    /\ at = [r \in Runs |-> "unborn"]
    /\ merged = [r \in Runs |-> NoSettings]
    /\ answered = [r \in Runs |-> NoConfig]
    /\ built = {}
    /\ part = [p \in Profiles |-> "none"]
    /\ weights = [p \in Profiles |-> "none"]
    /\ plist = NewFile(Absent, Runs) /\ state = NewFile(Absent, Runs)
    /\ given \in {Absent, Torn, Whole([own |-> TRUE, conf |-> NoConfig])}
    /\ settings = NewFile(given, Runs)
    /\ dirs = IF given = Absent THEN {} ELSE {"state"}
    /\ loaded = NoConfig /\ gateway = NoConfig
    /\ last = NoRun /\ crowded = {} /\ relogged = FALSE

\* run: the command line is read.
Launch(r, cmd) ==
    /\ Moves(r, "unborn", IF cmd.sub = "stop" THEN "stop" ELSE "host")
    /\ line' = [line EXCEPT ![r] = cmd]
    /\ LET others == {o \in Runs : Active(o)}
       IN  crowded' = IF others = {} THEN crowded
                      ELSE crowded \cup others \cup {r}
    /\ last' = r /\ relogged' = FALSE
    /\ UNCHANGED <<merged, answered, weightVars, launchdVars, fileVars, given>>

(***************************************************************************)
(* cmdStart: the checks of the host, which fail on a machine that cannot   *)
(* run the model, and the question.  At the end of the input the question  *)
(* is never answered and the process runs out of work.                     *)
(***************************************************************************)
HostCheck(r) ==
    \/ GoesOn(r, "host", "failed")
    \/ GoesOn(r, "host", IF Has(r, "yes") \/ Has(r, "dry") THEN "build"
                                                         ELSE "consent")

Consent(r) ==
    \E answer \in {"build", "aborted", "failed"} : GoesOn(r, "consent", answer)
-----------------------------------------------------------------------------
(***************************************************************************)
(* ensureNativeBuilt: ds4-server first, then dsgo.  A missing tool or a    *)
(* failed build ends the run.                                              *)
(***************************************************************************)
Missing == {"ds4", "dsgo"} \ built

SkipBuild(r) ==
    /\ GoesOn(r, "build", "download")
    /\ ~Has(r, "build") \/ Missing = {} \/ Has(r, "dry")

BuildFails(r) ==
    /\ GoesOn(r, "build", "failed")
    /\ Has(r, "build") /\ Missing # {}

Build(r) ==
    /\ at[r] = "build" /\ Missing # {}
    /\ Has(r, "build") /\ ~Has(r, "dry")
    /\ built' = built \cup {IF "ds4" \in Missing THEN "ds4" ELSE "dsgo"}
    /\ UNCHANGED <<runVars, at, part, weights, launchdVars, fileVars, history>>

(***************************************************************************)
(* ensureWeightsDownloaded and download_model.sh: curl resumes the .part   *)
(* file, which is moved when it is complete.  Two curls that append to one *)
(* .part file may spoil it.  The caller's look for the weights and the     *)
(* script's are one step.                                                  *)
(***************************************************************************)
SkipDownload(r) ==
    /\ Moves(r, "download", "service")
    /\ weights[Profile(r)] # "none" \/ (Has(r, "download") /\ Has(r, "dry"))
    /\ MakesDirs(r, "download")
    /\ UNCHANGED <<runVars, weightVars, launchdVars, files, history>>

NoWeights(r) ==
    /\ GoesOn(r, "download", "failed")
    /\ ~Has(r, "download") /\ weights[Profile(r)] = "none"

Curling(p) == {r \in Runs : at[r] = "curl" /\ Profile(r) = p}

Download(r) ==
    /\ Moves(r, "download", "curl")
    /\ Has(r, "download") /\ ~Has(r, "dry")
    /\ weights[Profile(r)] = "none"
    /\ LET p == Profile(r)
       IN  \E now \in IF part[p] = "none" THEN {"some"}
                      ELSE IF Curling(p) # {} THEN {part[p], "mixed"}
                      ELSE {part[p]} :
             part' = [part EXCEPT ![p] = now]
    /\ MakesDirs(r, "download")
    /\ UNCHANGED <<runVars, built, weights, launchdVars, files, history>>

CurlFails(r) == GoesOn(r, "curl", "failed")

\* A download straight to its final name, with nothing left to move.
MovePartial(r) ==
    LET p == Profile(r)
    IN  /\ Moves(r, "curl", "service")
        /\ weights' = [weights EXCEPT ![p] = "some"]
        /\ UNCHANGED <<runVars, built, part, launchdVars, fileVars, history>>

CurlEnds(r) ==
    /\ Moves(r, "curl", "move")
    /\ part' = [part EXCEPT ![Profile(r)] = IF @ = "some" THEN "all" ELSE @]
    /\ UNCHANGED <<runVars, built, weights, launchdVars, fileVars, history>>

Move(r) ==
    LET p == Profile(r)
    IN  /\ Moves(r, "move", "service")
        /\ part[p] # "none"
        /\ weights' = [weights EXCEPT ![p] = part[p]]
        /\ part' = [part EXCEPT ![p] = "none"]
        /\ UNCHANGED <<runVars, built, launchdVars, fileVars, history>>

MoveFails(r) ==
    /\ GoesOn(r, "move", "failed")
    /\ part[Profile(r)] = "none"
-----------------------------------------------------------------------------
(***************************************************************************)
(* writeAndLoadAgent: the plist is written in place, an agent that is      *)
(* loaded is booted out (a failure is ignored: launchctl reads the label   *)
(* from the plist), and the new one is bootstrapped.                       *)
(***************************************************************************)
SkipService(r) ==
    /\ Moves(r, "service", "test")
    /\ ~Has(r, "service") \/ Has(r, "dry")
    /\ MakesDirs(r, "service")
    /\ UNCHANGED <<runVars, weightVars, launchdVars, files, history>>

OpenPlist(r) ==
    /\ Moves(r, "service", "plist")
    /\ Has(r, "service") /\ ~Has(r, "dry")
    /\ plist' = Opened(plist, "path", r)
    /\ MakesDirs(r, "service")
    /\ UNCHANGED <<runVars, weightVars, launchdVars, settings, state, history>>

WritePlist(r) ==
    /\ Moves(r, "plist", "bootout")
    /\ plist' \in Filled(plist, r, Conf(r))
    /\ UNCHANGED <<runVars, weightVars, launchdVars, settings, state, dirs,
                   history>>

Readable(f) == f.path \notin {Absent, Empty, Torn}

Unload == loaded' = NoConfig /\ gateway' = NoConfig

Bootout(r) ==
    /\ Moves(r, "bootout", "bootstrap")
    /\ \/ Readable(plist) /\ Unload
       \/ UNCHANGED launchdVars
    /\ UNCHANGED <<runVars, weightVars, fileVars, history>>

\* An "already bootstrapped" that counts as success.
BootstrapUnchecked(r) ==
    /\ Moves(r, "bootstrap", "wait")
    /\ loaded' = IF loaded = NoConfig /\ Readable(plist) THEN plist.path.of
                                                         ELSE loaded
    /\ UNCHANGED <<runVars, weightVars, gateway, fileVars, history>>

Bootstrap(r) ==
    /\ Moves(r, "bootstrap", "wait")
    /\ loaded = NoConfig /\ Readable(plist)
    /\ loaded' = plist.path.of
    /\ UNCHANGED <<runVars, weightVars, gateway, fileVars, history>>

BootstrapFails(r) == GoesOn(r, "bootstrap", "failed")

\* A wait without a deadline.
WaitForGateway(r) == gateway # NoConfig /\ GoesOn(r, "wait", "test")

\* waitForReady: the gateway answers or the deadline is over, a warning only.
WaitForReady(r) == GoesOn(r, "wait", "test")
-----------------------------------------------------------------------------
(***************************************************************************)
(* selfTest: whoever answers on the port is taken for the gateway of this  *)
(* run.  A failure sets the exit code and the run goes on.                 *)
(***************************************************************************)
SkipTest(r) ==
    /\ GoesOn(r, "test", "settings")
    /\ ~Has(r, "test") \/ Has(r, "dry")

TestPasses(r) ==
    /\ Moves(r, "test", "settings")
    /\ Has(r, "test") /\ ~Has(r, "dry")
    /\ gateway # NoConfig /\ gateway.port = Conf(r).port
    /\ answered' = [answered EXCEPT ![r] = gateway]
    /\ UNCHANGED <<line, merged, weightVars, launchdVars, fileVars, history>>

TestFails(r) ==
    /\ GoesOn(r, "test", "settings")
    /\ Has(r, "test") /\ ~Has(r, "dry")
-----------------------------------------------------------------------------
(***************************************************************************)
(* writeAgentSettings: settings that do not parse count as none; the new   *)
(* ones replace the file through settings.json.tmp.                        *)
(***************************************************************************)
SkipSettings(r) ==
    /\ GoesOn(r, "settings", "state")
    /\ ~Has(r, "settings")

OwnKeys(f) == Readable(f) /\ f.path.of.own

ReadSettings(r) ==
    /\ Moves(r, "settings", IF Has(r, "dry") THEN "state" ELSE "tmp")
    /\ Has(r, "settings")
    /\ merged' = [merged EXCEPT ![r] = [own |-> OwnKeys(settings),
                                        conf |-> Conf(r)]]
    /\ MakesDirs(r, "settings")
    /\ UNCHANGED <<line, answered, weightVars, launchdVars, files, history>>

\* Settings that are overwritten in place.
OpenSettings(r) ==
    /\ Moves(r, "tmp", "filling")
    /\ settings' = Opened(settings, "path", r)
    /\ UNCHANGED <<runVars, weightVars, launchdVars, plist, state, dirs,
                   history>>

\* A write of the temporary file that is not awaited.
OpenTmpUnawaited(r) ==
    /\ Moves(r, "tmp", "rename")
    /\ settings' = Opened(settings, "tmp", r)
    /\ UNCHANGED <<runVars, weightVars, launchdVars, plist, state, dirs,
                   history>>

OpenTmp(r) ==
    /\ Moves(r, "tmp", "filling")
    /\ settings' = Opened(settings, "tmp", r)
    /\ UNCHANGED <<runVars, weightVars, launchdVars, plist, state, dirs,
                   history>>

FillTmp(r) ==
    /\ Moves(r, "filling", "rename")
    /\ settings' \in Filled(settings, r, merged[r])
    /\ UNCHANGED <<runVars, weightVars, launchdVars, plist, state, dirs,
                   history>>

Rename(r) ==
    /\ Moves(r, "rename", "state")
    /\ settings.tmp # Absent
    /\ settings' = Renamed(settings)
    /\ UNCHANGED <<runVars, weightVars, launchdVars, plist, state, dirs,
                   history>>

RenameFails(r) ==
    /\ GoesOn(r, "rename", "failed")
    /\ settings.tmp = Absent

(***************************************************************************)
(* writeLocalState, in place, and the last lines of cmdStart.              *)
(***************************************************************************)
\* A run that forgets to record what it installed.
SkipState(r) == GoesOn(r, "state", "ready")

PlanPrinted(r) ==
    /\ GoesOn(r, "state", "planned")
    /\ Has(r, "dry")

\* A dry run that writes local.json all the same.
OpenStateAlways(r) ==
    /\ Moves(r, "state", "noting")
    /\ state' = Opened(state, "path", r)
    /\ UNCHANGED <<runVars, weightVars, launchdVars, plist, settings, dirs,
                   history>>

OpenState(r) ==
    /\ Moves(r, "state", "noting")
    /\ ~Has(r, "dry")
    /\ state' = Opened(state, "path", r)
    /\ dirs' = dirs \cup {"state"}
    /\ UNCHANGED <<runVars, weightVars, launchdVars, plist, settings, history>>

WriteState(r) ==
    /\ Moves(r, "noting", "ready")
    /\ state' \in Filled(state, r, Conf(r))
    /\ UNCHANGED <<runVars, weightVars, launchdVars, plist, settings, dirs,
                   history>>
-----------------------------------------------------------------------------
(***************************************************************************)
(* cmdStop: boot the agent out, or warn.  The plist stays where it is.     *)
(***************************************************************************)
\* A stop that believes launchctl whatever it answers.
StopAlways(r) ==
    /\ Moves(r, "stop", "stopped")
    /\ Unload \/ UNCHANGED launchdVars
    /\ UNCHANGED <<runVars, weightVars, fileVars, history>>

Stop(r) ==
    /\ Moves(r, "stop", "stopped")
    /\ plist.path # Absent /\ ~Has(r, "dry") /\ Readable(plist)
    /\ Unload
    /\ UNCHANGED <<runVars, weightVars, fileVars, history>>

StopWarns(r) ==
    GoesOn(r, "stop", IF Has(r, "dry") THEN "planned" ELSE "warned")
-----------------------------------------------------------------------------
(***************************************************************************)
(* The world: a run is killed with its children (its files are closed),    *)
(* the gateway comes up when binaries and weights let it, dies and is kept *)
(* alive by launchd, and a login ends everything and loads the agent again *)
(* (RunAtLoad).                                                            *)
(***************************************************************************)
Dropped(R) ==
    /\ plist' = Closed(plist, R)
    /\ settings' = Closed(settings, R)
    /\ state' = Closed(state, R)
    /\ at' = [r \in Runs |-> IF r \in R THEN "killed" ELSE at[r]]

Kill(r) ==
    /\ Active(r)
    /\ Dropped({r})
    /\ UNCHANGED <<runVars, weightVars, launchdVars, dirs, history>>

Login ==
    /\ last # NoRun
    /\ Dropped({r \in Runs : Active(r)})
    /\ loaded' = IF Readable(plist) THEN plist.path.of ELSE NoConfig
    /\ gateway' = NoConfig
    /\ relogged' = TRUE
    /\ UNCHANGED <<runVars, weightVars, dirs, given, last, crowded>>

GatewayUp ==
    /\ loaded # NoConfig /\ gateway = NoConfig
    /\ Missing = {} /\ weights[loaded.profile] = "all"
    /\ gateway' = loaded
    /\ UNCHANGED <<runVars, at, weightVars, loaded, fileVars, history>>

GatewayDies ==
    /\ gateway # NoConfig
    /\ gateway' = NoConfig
    /\ UNCHANGED <<runVars, at, weightVars, loaded, fileVars, history>>
-----------------------------------------------------------------------------
BuildStep(r) == SkipBuild(r) \/ BuildFails(r) \/ Build(r)
DownloadStep(r) ==
    \/ SkipDownload(r) \/ NoWeights(r) \/ Download(r) \/ CurlFails(r)
    \/ CurlEnds(r) \/ Move(r) \/ MoveFails(r)
ServiceStep(r) ==
    \/ SkipService(r) \/ OpenPlist(r) \/ WritePlist(r) \/ Bootout(r)
    \/ Bootstrap(r) \/ BootstrapFails(r) \/ WaitForReady(r)
TestStep(r) == SkipTest(r) \/ TestPasses(r) \/ TestFails(r)
SettingsStep(r) ==
    \/ SkipSettings(r) \/ ReadSettings(r) \/ OpenTmp(r) \/ FillTmp(r)
    \/ Rename(r) \/ RenameFails(r)
StateStep(r) == PlanPrinted(r) \/ OpenState(r) \/ WriteState(r)
StopStep(r) == Stop(r) \/ StopWarns(r)

Step(r) ==
    \/ HostCheck(r) \/ BuildStep(r) \/ DownloadStep(r) \/ ServiceStep(r)
    \/ TestStep(r) \/ SettingsStep(r) \/ StateStep(r) \/ StopStep(r)

Next ==
    \/ \E r \in Runs : Step(r) \/ Consent(r) \/ Kill(r)
    \/ \E r \in Runs, cmd \in Commands : Launch(r, cmd)
    \/ Login \/ GatewayUp \/ GatewayDies

(***************************************************************************)
(* A process goes on until it ends: make, swift and curl return, and both  *)
(* waits have a timeout.  Nothing makes the user answer the question or    *)
(* start a run, or the gateway come up.                                    *)
(***************************************************************************)
Spec == Init /\ [][Next]_vars
FairSpec == Spec /\ \A r \in Runs : WF_vars(Step(r))
-----------------------------------------------------------------------------
\* The variables have their types, and a run keeps no file open between steps.
TypeOK ==
    /\ line \in [Runs -> Commands \cup {NoCommand}]
    /\ at \in [Runs -> Stages]
    /\ \A r \in Runs : at[r] # "unborn" => line[r] \in Commands
    /\ merged \in [Runs -> Settings]
    /\ answered \in [Runs -> Configs \cup {NoConfig}]
    /\ built \subseteq {"ds4", "dsgo"}
    /\ part \in [Profiles -> {"none", "some", "all", "mixed"}]
    /\ weights \in [Profiles -> {"none", "some", "all", "mixed"}]
    /\ plist \in Files(Configs, Runs) /\ state \in Files(Configs, Runs)
    /\ settings \in Files(Settings, Runs) /\ dirs \subseteq Dirs
    /\ \A r \in Runs : /\ plist.on[r] # "none" => at[r] = "plist"
                       /\ settings.on[r] # "none" => at[r] = "filling"
                       /\ state.on[r] # "none" => at[r] = "noting"
    /\ loaded \in Configs \cup {NoConfig}
    /\ gateway \in Configs \cup {NoConfig}
    /\ given \in {Absent, Torn, Whole([own |-> TRUE, conf |-> NoConfig])}
    /\ last \in Runs \cup {NoRun} /\ crowded \subseteq Runs
    /\ relogged \in BOOLEAN

(***************************************************************************)
(* The weights under their final name are complete, whenever runs were     *)
(* killed and repeated: the next run takes them for granted.  Only two     *)
(* runs at once can spoil them.                                            *)
(***************************************************************************)
WeightsWhole ==
    crowded = {} => \A p \in Profiles : weights[p] \in {"none", "all"}

(***************************************************************************)
(* However often runs are killed and repeated, settings.json is never half *)
(* a file and the keys the user had put there survive the merges, as long  *)
(* as no two runs overlap.                                                 *)
(***************************************************************************)
KeysKept ==
    crowded = {} =>
        /\ given # Torn => settings.path \notin {Empty, Torn}
        /\ given \notin {Absent, Torn} => OwnKeys(settings)

(***************************************************************************)
(* The last run has the last word: after a "Ready." of a run that was      *)
(* alone, the plist, the agent that is loaded, the settings and local.json *)
(* name its configuration, whatever earlier runs left behind; after a stop *)
(* that was confirmed no agent is loaded until the next login.             *)
(***************************************************************************)
LastWord ==
    last # NoRun /\ last \notin crowded =>
        /\ at[last] = "ready" =>
             /\ state.path = Whole(Conf(last))
             /\ weights[Profile(last)] # "none"
             /\ Has(last, "service") => plist.path = Whole(Conf(last))
                                          /\ loaded = Conf(last)
             /\ Has(last, "settings") => Readable(settings)
                                          /\ settings.path.of.conf = Conf(last)
        /\ at[last] = "stopped" /\ ~relogged => loaded = NoConfig

(***************************************************************************)
(* The gateway that passed the self-test of a run that installs it is the  *)
(* one it installed, though the old one may have listened on the same      *)
(* port, unless another run came between.                                  *)
(***************************************************************************)
TestedOwnGateway ==
    \A r \in Runs \ crowded :
        answered[r] # NoConfig /\ Has(r, "service") => answered[r] = Conf(r)

(***************************************************************************)
(* Only a run that is meant to changes a file, weights, binaries or what   *)
(* launchd has loaded.  A run that only prints its plan does make the      *)
(* directories that its flags ask for, and makes no other.                 *)
(***************************************************************************)
OnlyRealRunsWrite ==
    [][\/ /\ UNCHANGED <<weightVars, files, loaded>>
          /\ \A d \in dirs' \ dirs : \E r \in Runs, flag \in DOMAIN DirsOf :
               Active(r) /\ Has(r, flag) /\ d \in DirsOf[flag]
       \/ \E r \in Runs : Active(r) /\ ~Has(r, "dry")
       \/ relogged']_vars

\* A run that is not waiting for the user comes to its end.
RunsEnd == \A r \in Runs : at[r] \in Working ~> at[r] \in Ended \cup {"consent"}
=============================================================================
