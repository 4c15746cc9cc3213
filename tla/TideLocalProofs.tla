---------------------------- MODULE TideLocalProofs ----------------------------
(***************************************************************************)
(* Proofs about TideLocal for any set of runs, profiles and command lines. *)
(* The argument: a run that no other overlaps is the last one, so only its *)
(* own steps, a kill and a login separate what it reads from what it does. *)
(***************************************************************************)
EXTENDS TideLocal, ReplaceFileProofs, Naturals

LEMMA ReadableIsWhole ==
    ASSUME NEW C, NEW W, NEW f \in Files(C, W), Readable(f)
    PROVE  f.path.of \in C /\ f.path = Whole(f.path.of)
<1>1. f.path \in [is : {"whole"}, of : C]
    BY DEF Files, Contents, Readable
<1> QED BY <1>1 DEF Whole
-----------------------------------------------------------------------------
(***************************************************************************)
(* The parts of the inductive invariant.                                   *)
(***************************************************************************)
\* Whoever is active and was never crowded was started last, and is alone.
Alone ==
    /\ last \in Runs => at[last] # "unborn"
    /\ last = NoRun => \A r \in Runs : at[r] = "unborn"
    /\ \A r \in Runs : Active(r) /\ r # last => {r, last} \subseteq crowded

\* The stages that only a run that is no dry run reaches.
ForReal == {"curl", "move", "plist", "bootout", "bootstrap", "wait", "tmp",
            "filling", "rename", "noting", "ready"}
Realised == \A r \in Runs : at[r] \in ForReal => ~Has(r, "dry")

Fetched == {"service", "plist", "bootout", "bootstrap", "wait", "test",
            "settings", "tmp", "filling", "rename", "state", "noting", "ready"}
Weighed ==
    /\ \A r \in Runs :
         at[r] \in Fetched => Has(r, "dry") \/ weights[Profile(r)] # "none"
    /\ crowded = {} =>
         /\ \A p \in Profiles : weights[p] \in {"none", "all"}
         /\ \A p \in Profiles : part[p] # "mixed"
         /\ \A r \in Runs : at[r] = "curl" => part[Profile(r)] # "none"
         /\ \A r \in Runs : at[r] = "move" => part[Profile(r)] = "all"

\* The last run, when no other overlapped it.
Lone == last \in Runs \ crowded

Waiting == Fetched \ {"service", "plist", "bootout", "bootstrap"}
Installed ==
    Lone =>
        /\ at[last] = "plist" => plist.on[last] = "path" /\ plist.path = Empty
        /\ at[last] \in {"bootout", "bootstrap"} => plist.path = Whole(Conf(last))
        /\ at[last] \in Waiting /\ Has(last, "service") /\ ~Has(last, "dry") =>
             plist.path = Whole(Conf(last)) /\ loaded = Conf(last)
        /\ at[last] = "stopped" /\ ~relogged => loaded = NoConfig

Noting == {"state", "noting", "ready"}
Merged ==
    Lone =>
        /\ at[last] \in {"tmp", "filling", "rename"} =>
             merged[last] = [own |-> OwnKeys(settings), conf |-> Conf(last)]
        /\ at[last] = "filling" => settings.on[last] = "tmp" /\ settings.tmp = Empty
        /\ at[last] = "rename" => settings.tmp = Whole(merged[last])
        /\ at[last] \in Noting /\ Has(last, "settings") /\ ~Has(last, "dry") =>
             Readable(settings) /\ settings.path.of.conf = Conf(last)

Noted ==
    Lone =>
        /\ at[last] = "noting" => state.on[last] = "path" /\ state.path = Empty
        /\ at[last] = "ready" => state.path = Whole(Conf(last))

Served ==
    /\ gateway \in {NoConfig, loaded} /\ TestedOwnGateway
    /\ \A r \in Runs : at[r] = "unborn" => answered[r] = NoConfig

IInv ==
    /\ TypeOK /\ Alone /\ Realised /\ Weighed
    /\ Installed /\ Merged /\ KeysKept /\ Noted /\ Served
-----------------------------------------------------------------------------
\* Every step of a run is a step of an active run, and of no other.
LEMMA StepMoves ==
    ASSUME NEW r \in Runs, Step(r) \/ Consent(r)
    PROVE  /\ Active(r)
           /\ UNCHANGED <<line, history>>
           /\ \/ at' = at
              \/ \E to \in Stages \ {"unborn"} : at' = [at EXCEPT ![r] = to]
<1> USE DEF history, fileVars, Active, Moves, GoesOn, Stages, Working, Ended
<1>1. CASE HostCheck(r) \/ Consent(r) \/ BuildStep(r) \/ StopStep(r)
    BY <1>1 DEF HostCheck, Consent, BuildStep, SkipBuild, BuildFails, Build,
                StopStep, Stop, StopWarns, runVars
<1>2. CASE DownloadStep(r)
    BY <1>2 DEF DownloadStep, SkipDownload, NoWeights, Download, CurlFails,
                CurlEnds, Move, MoveFails, runVars
<1>3. CASE ServiceStep(r)
    BY <1>3 DEF ServiceStep, SkipService, OpenPlist, WritePlist, Bootout,
                Bootstrap, BootstrapFails, WaitForReady, runVars
<1>4. CASE TestStep(r) \/ StateStep(r)
    BY <1>4 DEF TestStep, SkipTest, TestPasses, TestFails, StateStep,
                PlanPrinted, OpenState, WriteState, runVars
<1>5. CASE SettingsStep(r)
    BY <1>5 DEF SettingsStep, SkipSettings, ReadSettings, OpenTmp, FillTmp,
                Rename, RenameFails, runVars
<1> QED BY <1>1, <1>2, <1>3, <1>4, <1>5 DEF Step

LEMMA NextCases ==
    ASSUME Next
    PROVE  \/ \E r \in Runs : Step(r) \/ Consent(r)
           \/ \E r \in Runs : Kill(r)
           \/ \E r \in Runs, cmd \in Commands : Launch(r, cmd)
           \/ Login \/ GatewayUp \/ GatewayDies
BY DEF Next

LEMMA AloneStep == ASSUME TypeOK, Alone, Next PROVE Alone'
<1> USE DEF Alone, TypeOK
<1>1. CASE \E r \in Runs : Step(r) \/ Consent(r)
    <2> PICK r \in Runs : Step(r) \/ Consent(r)
        BY <1>1
    <2>1. /\ Active(r) /\ UNCHANGED <<last, crowded>>
          /\ \A o \in Runs : o # r => at'[o] = at[o]
          /\ at'[r] # "unborn"
        BY StepMoves DEF history, Active
    <2> QED BY <2>1 DEF Active
<1>2. CASE \E r \in Runs : Kill(r)
    BY <1>2 DEF Kill, Dropped, Active, history, Ended
<1>3. CASE \E r \in Runs, cmd \in Commands : Launch(r, cmd)
    <2> PICK r \in Runs, cmd \in Commands : Launch(r, cmd)
        BY <1>3
    <2>1. /\ last' = r /\ r \in Runs /\ r # NoRun
          /\ \A o \in Runs : o # r => at'[o] = at[o]
          /\ at[r] = "unborn" /\ at'[r] \in {"stop", "host"}
        BY TideLocalAssumption DEF Launch, Moves
    <2>2. \A o \in Runs : o # r /\ Active(o) => {o, r} \subseteq crowded'
        BY DEF Launch
    <2> QED BY <2>1, <2>2 DEF Active
<1>4. CASE Login
    BY <1>4, TideLocalAssumption DEF Login, Dropped, Active, Ended
<1>5. CASE GatewayUp \/ GatewayDies
    BY <1>5 DEF GatewayUp, GatewayDies, history, Active
<1> QED BY <1>1, <1>2, <1>3, <1>4, <1>5, NextCases

\* The step of a run that was never crowded is the step of the last one.
LEMMA LoneStep ==
    ASSUME Alone, NEW r \in Runs, Active(r)
    PROVE  (Lone \/ crowded = {}) => r = last
BY DEF Alone, Lone
-----------------------------------------------------------------------------
(***************************************************************************)
(* Type correctness, in the groups of variables a step changes.            *)
(***************************************************************************)
RunTypes ==
    /\ line \in [Runs -> Commands \cup {NoCommand}]
    /\ at \in [Runs -> Stages]
    /\ \A r \in Runs : at[r] # "unborn" => line[r] \in Commands
    /\ merged \in [Runs -> Settings]
    /\ answered \in [Runs -> Configs \cup {NoConfig}]
    /\ built \subseteq {"ds4", "dsgo"}
    /\ part \in [Profiles -> {"none", "some", "all", "mixed"}]
    /\ weights \in [Profiles -> {"none", "some", "all", "mixed"}]
FileTypes ==
    /\ plist \in Files(Configs, Runs) /\ state \in Files(Configs, Runs)
    /\ settings \in Files(Settings, Runs) /\ dirs \subseteq Dirs
    /\ \A r \in Runs : /\ plist.on[r] # "none" => at[r] = "plist"
                       /\ settings.on[r] # "none" => at[r] = "filling"
                       /\ state.on[r] # "none" => at[r] = "noting"
WorldTypes ==
    /\ loaded \in Configs \cup {NoConfig}
    /\ gateway \in Configs \cup {NoConfig}
    /\ given \in {Absent, Torn, Whole([own |-> TRUE, conf |-> NoConfig])}
    /\ last \in Runs \cup {NoRun} /\ crowded \subseteq Runs
    /\ relogged \in BOOLEAN

LEMMA TypeParts == TypeOK <=> RunTypes /\ FileTypes /\ WorldTypes
BY DEF TypeOK, RunTypes, FileTypes, WorldTypes

LEMMA Configured ==
    ASSUME RunTypes, NEW r \in Runs, at[r] # "unborn"
    PROVE  Conf(r) \in Configs /\ Profile(r) \in Profiles
<1>1. line[r] \in Commands /\ CommandType(line[r])
    BY TideLocalAssumption DEF RunTypes
<1> QED BY <1>1 DEF CommandType, Conf, Configs, Profile

LEMMA OwnKeysType == OwnKeys(settings) \in BOOLEAN \/ settings \notin Files(Settings, Runs)
<1> SUFFICES ASSUME settings \in Files(Settings, Runs) PROVE OwnKeys(settings) \in BOOLEAN
    OBVIOUS
<1>1. CASE Readable(settings)
    <2>1. settings.path.of \in Settings
        BY <1>1, ReadableIsWhole
    <2> QED BY <2>1 DEF OwnKeys, Settings
<1>2. CASE ~Readable(settings)
    BY <1>2 DEF OwnKeys
<1> QED BY <1>1, <1>2

LEMMA RunTypesStep ==
    ASSUME RunTypes, FileTypes, WorldTypes, NEW r \in Runs, Step(r) \/ Consent(r)
    PROVE  RunTypes'
<1> USE DEF RunTypes, weightVars
<1>0. /\ at[r] # "unborn" /\ line' = line
      /\ at' \in [Runs -> Stages]
      /\ \A o \in Runs : at'[o] # "unborn" => at[o] # "unborn"
    BY StepMoves DEF Active
<1>1. CASE HostCheck(r) \/ Consent(r) \/ StopStep(r)
    BY <1>0, <1>1 DEF HostCheck, Consent, GoesOn, StopStep, Stop, StopWarns, runVars
<1>2. CASE BuildStep(r)
    BY <1>0, <1>2 DEF BuildStep, SkipBuild, BuildFails, Build, GoesOn, runVars, Missing
<1>3. CASE DownloadStep(r)
    <2>1. Profile(r) \in Profiles
        BY <1>0, Configured
    <2>2. CASE SkipDownload(r) \/ NoWeights(r) \/ CurlFails(r) \/ MoveFails(r)
        BY <1>0, <2>2 DEF SkipDownload, NoWeights, CurlFails, MoveFails, GoesOn, runVars
    <2>3. CASE Download(r)
        BY <1>0, <2>1, <2>3 DEF Download, runVars
    <2>4. CASE CurlEnds(r)
        BY <1>0, <2>1, <2>4 DEF CurlEnds, runVars
    <2>5. CASE Move(r)
        BY <1>0, <2>1, <2>5 DEF Move, runVars
    <2> QED BY <1>3, <2>2, <2>3, <2>4, <2>5 DEF DownloadStep
<1>4. CASE ServiceStep(r)
    BY <1>0, <1>4 DEF ServiceStep, SkipService, OpenPlist, WritePlist, Bootout,
                Bootstrap, BootstrapFails, WaitForReady, GoesOn, runVars
<1>5. CASE TestStep(r)
    <2>1. CASE TestPasses(r)
        BY <1>0, <2>1 DEF TestPasses, WorldTypes
    <2>2. CASE SkipTest(r) \/ TestFails(r)
        BY <1>0, <2>2 DEF SkipTest, TestFails, GoesOn, runVars
    <2> QED BY <1>5, <2>1, <2>2 DEF TestStep
<1>6. CASE StateStep(r)
    BY <1>0, <1>6 DEF StateStep, PlanPrinted, OpenState, WriteState, GoesOn, runVars
<1>7. CASE ReadSettings(r)
    <2>1. [own |-> OwnKeys(settings), conf |-> Conf(r)] \in Settings
        BY <1>0, OwnKeysType, Configured DEF FileTypes, Settings
    <2> QED BY <1>0, <1>7, <2>1 DEF ReadSettings
<1>8. CASE SettingsStep(r) /\ ~ReadSettings(r)
    BY <1>0, <1>8 DEF SettingsStep, SkipSettings, OpenTmp, FillTmp,
                Rename, RenameFails, GoesOn, runVars
<1> QED BY <1>1, <1>2, <1>3, <1>4, <1>5, <1>6, <1>7, <1>8 DEF Step

\* The steps that write a file, and the file each of them leaves behind.
LEMMA FileSteps ==
    ASSUME NEW r \in Runs, Step(r) \/ Consent(r)
    PROVE  \/ UNCHANGED files /\ at[r] \notin {"plist", "filling", "noting"}
           \/ OpenPlist(r) \/ WritePlist(r) \/ OpenTmp(r) \/ FillTmp(r) \/ Rename(r)
           \/ OpenState(r) \/ WriteState(r)
<1> USE DEF fileVars, files
<1>1. CASE HostCheck(r) \/ Consent(r) \/ BuildStep(r) \/ StopStep(r)
    BY <1>1 DEF HostCheck, Consent, BuildStep, SkipBuild, BuildFails, Build,
                StopStep, Stop, StopWarns, GoesOn, Moves
<1>2. CASE DownloadStep(r)
    BY <1>2 DEF DownloadStep, SkipDownload, NoWeights, Download, CurlFails,
                CurlEnds, Move, MoveFails, GoesOn, Moves
<1>3. CASE ServiceStep(r)
    BY <1>3 DEF ServiceStep, SkipService, Bootout, Bootstrap, BootstrapFails,
                WaitForReady, GoesOn, Moves
<1>4. CASE TestStep(r) \/ StateStep(r)
    BY <1>4 DEF TestStep, SkipTest, TestPasses, TestFails, StateStep,
                PlanPrinted, GoesOn, Moves
<1>5. CASE SettingsStep(r)
    BY <1>5 DEF SettingsStep, SkipSettings, ReadSettings, RenameFails, GoesOn, Moves
<1> QED BY <1>1, <1>2, <1>3, <1>4, <1>5 DEF Step

\* The directories that a step makes are those that a flag of its run asks for.
LEMMA DirSteps ==
    ASSUME NEW r \in Runs, Step(r) \/ Consent(r)
    PROVE  \/ dirs' = dirs
           \/ OpenState(r) /\ ~Has(r, "dry") /\ dirs' = dirs \cup {"state"}
           \/ \E flag \in DOMAIN DirsOf :
                Has(r, flag) /\ dirs' = dirs \cup DirsOf[flag]
<1> USE DEF fileVars, GoesOn
<1>0. \A flag \in {"download", "service", "settings"} :
        /\ flag \in DOMAIN DirsOf
        /\ MakesDirs(r, flag) =>
             \/ dirs' = dirs
             \/ Has(r, flag) /\ dirs' = dirs \cup DirsOf[flag]
    BY DEF MakesDirs, DirsOf
<1>1. CASE HostCheck(r) \/ Consent(r) \/ BuildStep(r) \/ StopStep(r)
    BY <1>1 DEF HostCheck, Consent, BuildStep, SkipBuild, BuildFails, Build,
                StopStep, Stop, StopWarns
<1>2. CASE DownloadStep(r)
    BY <1>0, <1>2 DEF DownloadStep, SkipDownload, NoWeights, Download, CurlFails,
                      CurlEnds, Move, MoveFails
<1>3. CASE ServiceStep(r)
    BY <1>0, <1>3 DEF ServiceStep, SkipService, OpenPlist, WritePlist, Bootout,
                      Bootstrap, BootstrapFails, WaitForReady
<1>4. CASE TestStep(r) \/ StateStep(r)
    BY <1>4 DEF TestStep, SkipTest, TestPasses, TestFails, StateStep,
                PlanPrinted, OpenState, WriteState
<1>5. CASE SettingsStep(r)
    BY <1>0, <1>5 DEF SettingsStep, SkipSettings, ReadSettings, OpenTmp, FillTmp,
                      Rename, RenameFails
<1> QED BY <1>1, <1>2, <1>3, <1>4, <1>5 DEF Step

LEMMA FileTypesStep ==
    ASSUME RunTypes, FileTypes, NEW r \in Runs, Step(r) \/ Consent(r)
    PROVE  FileTypes'
<1> USE DEF FileTypes, files
<1>0. /\ at[r] # "unborn" /\ at \in [Runs -> Stages]
      /\ \A o \in Runs \ {r} : at'[o] = at[o]
    BY StepMoves DEF Active, RunTypes
<1>a. dirs' \subseteq Dirs
    BY DirSteps DEF Dirs, DirsOf
<1>1. Conf(r) \in Configs /\ merged[r] \in Settings
    BY <1>0, Configured DEF RunTypes
<1>2. CASE UNCHANGED files /\ at[r] \notin {"plist", "filling", "noting"}
    BY <1>0, <1>a, <1>2
<1>3. CASE OpenPlist(r)
    <2>1. plist' = Opened(plist, "path", r)
        BY <1>3 DEF OpenPlist
    <2>2. /\ plist' \in Files(Configs, Runs)
          /\ \A o \in Runs \ {r} : plist'.on[o] = plist.on[o]
        BY <2>1, OpenedPath
    <2>3. at'[r] = "plist" /\ at[r] \notin {"plist", "filling", "noting"}
        BY <1>0, <1>a, <1>3 DEF OpenPlist, Moves
    <2>4. UNCHANGED <<settings, state>>
        BY <1>3 DEF OpenPlist
    <2> QED BY <1>0, <1>a, <2>2, <2>3, <2>4
<1>4. CASE WritePlist(r)
    BY <1>0, <1>a, <1>1, <1>4, FilledFile DEF WritePlist, Moves
<1>5. CASE OpenTmp(r)
    <2>1. settings' = Opened(settings, "tmp", r)
        BY <1>5 DEF OpenTmp
    <2>2. /\ settings' \in Files(Settings, Runs)
          /\ \A o \in Runs \ {r} : settings'.on[o] = settings.on[o]
        BY <2>1, OpenedTmp
    <2>3. at'[r] = "filling" /\ at[r] \notin {"plist", "filling", "noting"}
        BY <1>0, <1>a, <1>5 DEF OpenTmp, Moves
    <2>4. UNCHANGED <<plist, state>>
        BY <1>5 DEF OpenTmp
    <2> QED BY <1>0, <1>a, <2>2, <2>3, <2>4
<1>6. CASE FillTmp(r)
    BY <1>0, <1>a, <1>1, <1>6, FilledFile DEF FillTmp, Moves
<1>7. CASE Rename(r)
    BY <1>0, <1>a, <1>7, RenamedFile DEF Rename, Moves
<1>8. CASE OpenState(r)
    <2>1. state' = Opened(state, "path", r)
        BY <1>8 DEF OpenState
    <2>2. /\ state' \in Files(Configs, Runs)
          /\ \A o \in Runs \ {r} : state'.on[o] = state.on[o]
        BY <2>1, OpenedPath
    <2>3. at'[r] = "noting" /\ at[r] \notin {"plist", "filling", "noting"}
        BY <1>0, <1>a, <1>8 DEF OpenState, Moves
    <2>4. UNCHANGED <<plist, settings>>
        BY <1>8 DEF OpenState
    <2> QED BY <1>0, <1>a, <2>2, <2>3, <2>4
<1>9. CASE WriteState(r)
    BY <1>0, <1>a, <1>1, <1>9, FilledFile DEF WriteState, Moves
<1> QED BY <1>2, <1>3, <1>4, <1>5, <1>6, <1>7, <1>8, <1>9, FileSteps
LEMMA Bootstrapped ==
    ASSUME FileTypes, Readable(plist)
    PROVE  plist.path.of \in Configs
BY ReadableIsWhole DEF FileTypes

LEMMA LaunchdSteps ==
    ASSUME NEW r \in Runs, Step(r) \/ Consent(r)
    PROVE  \/ UNCHANGED launchdVars /\ ~Stop(r) /\ ~Bootout(r) /\ ~Bootstrap(r)
           \/ Bootout(r) \/ Bootstrap(r) \/ Stop(r)
<1>1. CASE HostCheck(r) \/ Consent(r) \/ BuildStep(r)
    BY <1>1 DEF HostCheck, Consent, BuildStep, SkipBuild, BuildFails, Build, GoesOn
<1>2. CASE DownloadStep(r)
    BY <1>2 DEF DownloadStep, SkipDownload, NoWeights, Download, CurlFails,
                CurlEnds, Move, MoveFails, GoesOn
<1>3. CASE ServiceStep(r)
    BY <1>3 DEF ServiceStep, SkipService, OpenPlist, WritePlist, BootstrapFails,
                WaitForReady, GoesOn
<1>4. CASE TestStep(r) \/ StateStep(r)
    BY <1>4 DEF TestStep, SkipTest, TestPasses, TestFails, StateStep,
                PlanPrinted, OpenState, WriteState, GoesOn
<1>5. CASE SettingsStep(r)
    BY <1>5 DEF SettingsStep, SkipSettings, ReadSettings, OpenTmp, FillTmp,
                Rename, RenameFails, GoesOn
<1>6. CASE StopStep(r)
    BY <1>6 DEF StopStep, StopWarns, GoesOn
<1> QED BY <1>1, <1>2, <1>3, <1>4, <1>5, <1>6 DEF Step

LEMMA TypeStep == ASSUME TypeOK, Next PROVE TypeOK'
<1> USE TypeParts
<1>1. CASE \E r \in Runs : Step(r) \/ Consent(r)
    <2> PICK r \in Runs : Step(r) \/ Consent(r)
        BY <1>1
    <2>1. loaded' \in Configs \cup {NoConfig} /\ gateway' \in Configs \cup {NoConfig}
        BY LaunchdSteps, Bootstrapped
        DEF WorldTypes, Bootout, Bootstrap, Stop, Unload, launchdVars
    <2>2. UNCHANGED <<given, last, crowded, relogged>>
        BY StepMoves DEF history
    <2>3. WorldTypes'
        BY <2>1, <2>2 DEF WorldTypes
    <2> QED BY <2>3, RunTypesStep, FileTypesStep, TypeParts DEF TypeOK, RunTypes,
               FileTypes, WorldTypes
<1>2. CASE \E r \in Runs : Kill(r)
    <2> PICK r \in Runs : Kill(r)
        BY <1>2
    <2> USE DEF Kill, Dropped
    <2>1. RunTypes'
        BY DEF RunTypes, Active, Stages, Ended, runVars, weightVars
    <2>2. FileTypes'
        BY ClosedFile DEF FileTypes
    <2>3. WorldTypes'
        BY DEF WorldTypes, launchdVars, history
    <2> QED BY <2>1, <2>2, <2>3 DEF TypeOK, RunTypes, FileTypes, WorldTypes
<1>3. CASE \E r \in Runs, cmd \in Commands : Launch(r, cmd)
    <2> PICK r \in Runs, cmd \in Commands : Launch(r, cmd)
        BY <1>3
    <2> USE DEF Launch, Moves
    <2>1. RunTypes'
        BY DEF RunTypes, Stages, Working, weightVars
    <2>2. FileTypes'
        BY DEF FileTypes, fileVars, files
    <2>3. WorldTypes'
        BY DEF WorldTypes, launchdVars
    <2> QED BY <2>1, <2>2, <2>3 DEF TypeOK, RunTypes, FileTypes, WorldTypes
<1>4. CASE Login
    <2> USE DEF Login, Dropped
    <2>1. RunTypes'
        BY <1>4 DEF RunTypes, Active, Stages, Ended, runVars, weightVars
    <2>2. FileTypes'
        BY <1>4, ClosedFile DEF FileTypes
    <2>3. WorldTypes'
        BY <1>4, Bootstrapped DEF WorldTypes
    <2> QED BY <2>1, <2>2, <2>3 DEF TypeOK, RunTypes, FileTypes, WorldTypes
<1>5. CASE GatewayUp \/ GatewayDies
    BY <1>5 DEF GatewayUp, GatewayDies, TypeOK, runVars, weightVars, fileVars,
                files, history
<1> QED BY <1>1, <1>2, <1>3, <1>4, <1>5, NextCases
-----------------------------------------------------------------------------
(***************************************************************************)
(* The world: what a killed run had reached no longer matters, and a run   *)
(* that has just been launched has reached nothing.                        *)
(***************************************************************************)
LEMMA DroppedFiles ==
    ASSUME TypeOK, NEW R, Dropped(R)
    PROVE  /\ plist'.path = plist.path /\ state'.path = state.path
           /\ settings'.path = settings.path
           /\ \A r \in Runs : at'[r] = IF r \in R THEN "killed" ELSE at[r]
<1>1. /\ plist \in Files(Configs, Runs) /\ state \in Files(Configs, Runs)
      /\ settings \in Files(Settings, Runs)
    BY DEF TypeOK
<1>2. plist' = Closed(plist, R) /\ state' = Closed(state, R)
      /\ settings' = Closed(settings, R)
    BY DEF Dropped
<1>3. plist'.path = plist.path /\ state'.path = state.path
    BY <1>1, <1>2, ClosedFile
<1>4. settings'.path = settings.path
    BY <1>1, <1>2, ClosedFile
<1> QED BY <1>3, <1>4 DEF Dropped

LEMMA WorldCases ==
    ASSUME TypeOK, Alone, Next, Lone'
    PROVE  \/ \E r \in Runs : Step(r) \/ Consent(r)
           \/ last' \in Runs /\ at'[last'] \in {"killed", "host", "stop"}
           \/ /\ Login /\ UNCHANGED <<last, line, at[last], plist.path, settings.path,
                                     state.path>>
              /\ ~Active(last)
           \/ GatewayUp \/ GatewayDies
<1>1. CASE \E r \in Runs : Kill(r)
    <2> PICK r \in Runs : Kill(r)
        BY <1>1
    <2>1. /\ UNCHANGED <<last, crowded>> /\ last \in Runs /\ r = last
          /\ Dropped({r})
        BY DEF Kill, history, Alone, Lone
    <2> QED BY <2>1, DroppedFiles
<1>2. CASE \E r \in Runs, cmd \in Commands : Launch(r, cmd)
    BY <1>2 DEF Launch, Moves, TypeOK
<1>3. CASE Login
    <2>1. /\ UNCHANGED <<last, line>> /\ last \in Runs
          /\ Dropped({r \in Runs : Active(r)})
        BY <1>3 DEF Login, Lone, runVars
    <2>2. /\ plist'.path = plist.path /\ state'.path = state.path
          /\ settings'.path = settings.path
          /\ at'[last] = IF Active(last) THEN "killed" ELSE at[last]
        BY <2>1, DroppedFiles
    <2>3. CASE Active(last)
        BY <2>1, <2>2, <2>3
    <2>4. CASE ~Active(last)
        BY <1>3, <2>1, <2>2, <2>4
    <2> QED BY <2>3, <2>4
<1>4. CASE GatewayUp \/ GatewayDies
    BY <1>4
<1> QED BY <1>1, <1>2, <1>3, <1>4, NextCases

\* A step of a run when the last one is alone: the last one's.
LEMMA LastSteps ==
    ASSUME TypeOK, Alone, Lone', NEW r \in Runs, Step(r) \/ Consent(r)
    PROVE  /\ r = last /\ UNCHANGED <<line, last, crowded, relogged>> /\ Lone
           /\ Active(last)
BY StepMoves DEF history, Lone, Alone

\* What each step of a run does to its stage.
Quiet(r) ==
    \/ UNCHANGED at \/ at'[r] \in {"consent", "build", "failed", "aborted",
                                  "download", "curl", "move", "planned", "warned"}
    \/ at[r] \in {"download", "move"} /\ at'[r] = "service"

LEMMA InstallSteps ==
    ASSUME TypeOK, NEW r \in Runs, Step(r) \/ Consent(r)
    PROVE  /\ Stop(r) \/ OpenPlist(r) \/ WritePlist(r) \/ Bootout(r) \/ Bootstrap(r)
              \/ UNCHANGED <<plist, loaded>>
           /\ \/ Stop(r) \/ OpenPlist(r) \/ WritePlist(r) \/ Bootout(r)
              \/ Bootstrap(r) \/ Quiet(r)
              \/ at[r] \in Waiting /\ at'[r] \in Waiting
              \/ /\ at[r] = "service" /\ at'[r] = "test"
                 /\ ~Has(r, "service") \/ Has(r, "dry")
<1> USE DEF fileVars, files, launchdVars, Moves, GoesOn, Quiet, Waiting, Fetched, TypeOK
<1>1. CASE HostCheck(r) \/ Consent(r) \/ BuildStep(r) \/ StopStep(r)
    BY <1>1 DEF HostCheck, Consent, BuildStep, SkipBuild, BuildFails, Build,
                StopStep, StopWarns
<1>2. CASE DownloadStep(r)
    BY <1>2 DEF DownloadStep, SkipDownload, NoWeights, Download, CurlFails,
                CurlEnds, Move, MoveFails
<1>3. CASE ServiceStep(r)
    BY <1>3 DEF ServiceStep, SkipService, BootstrapFails, WaitForReady
<1>4. CASE TestStep(r)
    BY <1>4 DEF TestStep, SkipTest, TestPasses, TestFails
<1>5. CASE StateStep(r)
    BY <1>5 DEF StateStep, PlanPrinted, OpenState, WriteState
<1>6. CASE SettingsStep(r)
    BY <1>6 DEF SettingsStep, SkipSettings, ReadSettings, OpenTmp, FillTmp,
                Rename, RenameFails
<1> QED BY <1>1, <1>2, <1>3, <1>4, <1>5, <1>6 DEF Step
LEMMA InstalledStep ==
    ASSUME TypeOK, Alone, Installed, Next PROVE Installed'
<1> SUFFICES ASSUME Lone' PROVE Installed'
    BY DEF Installed
<1> USE DEF Waiting, Fetched
<1>0. /\ plist \in Files(Configs, Runs) /\ at \in [Runs -> Stages]
      /\ \A r \in Runs : at[r] # "unborn" => Conf(r) \in Configs
    BY TypeParts, Configured DEF TypeOK
<1>1. CASE \E r \in Runs : Step(r) \/ Consent(r)
    <2> PICK r \in Runs : Step(r) \/ Consent(r)
        BY <1>1
    <2>1. /\ r = last /\ UNCHANGED <<line, last, crowded, relogged>> /\ Lone
          /\ last \in Runs /\ at[last] # "unborn" /\ Conf(last)' = Conf(last)
          /\ \A flag : Has(last, flag)' = Has(last, flag)
        BY LastSteps DEF Lone, Active, Conf, Has
    <2>2. CASE OpenPlist(r)
        <3>1. plist' = Opened(plist, "path", r) /\ at'[r] = "plist"
            BY <1>0, <2>2 DEF OpenPlist, Moves
        <3>2. plist'.path = Empty /\ plist'.on[r] = "path"
            BY <1>0, <3>1, OpenedPath
        <3> QED BY <2>1, <3>1, <3>2 DEF Installed
    <2>3. CASE WritePlist(r)
        <3>1. plist' \in Filled(plist, r, Conf(r)) /\ at'[r] = "bootout"
              /\ plist.on[r] = "path" /\ plist.path = Empty
            BY <1>0, <2>1, <2>3 DEF WritePlist, Moves, Installed
        <3>2. plist'.path = Whole(Conf(r))
            BY <1>0, <2>1, <3>1, FilledFile
        <3> QED BY <2>1, <3>1, <3>2 DEF Installed
    <2>4. CASE Bootout(r)
        BY <1>0, <2>1, <2>4 DEF Bootout, Moves, Installed, fileVars, files
    <2>5. CASE Bootstrap(r)
        <3>1. /\ at[r] = "bootstrap" /\ at'[r] = "wait" /\ plist' = plist
              /\ plist.path = Whole(Conf(last)) /\ loaded' = plist.path.of
            BY <1>0, <2>1, <2>5 DEF Bootstrap, Moves, Installed, fileVars, files
        <3>2. loaded' = Conf(last)
            BY <3>1, WholeIsReadable
        <3> QED BY <2>1, <3>1, <3>2 DEF Installed
    <2>6. CASE Stop(r)
        BY <1>0, <2>1, <2>6 DEF Stop, Unload, Moves, Installed
    <2>7. CASE UNCHANGED <<plist, loaded>> /\ Quiet(r)
        BY <2>1, <2>7 DEF Quiet, Installed
    <2>8. CASE UNCHANGED <<plist, loaded>> /\ at[r] \in Waiting /\ at'[r] \in Waiting
        BY <2>1, <2>8 DEF Installed
    <2>9. CASE /\ UNCHANGED <<plist, loaded>> /\ at'[r] = "test"
               /\ ~Has(r, "service") \/ Has(r, "dry")
        BY <2>1, <2>9 DEF Installed
    <2> QED BY <2>2, <2>3, <2>4, <2>5, <2>6, <2>7, <2>8, <2>9, InstallSteps
<1>2. CASE last' \in Runs /\ at'[last'] \in {"killed", "host", "stop"}
    BY <1>2 DEF Installed
<1>3. CASE /\ Login /\ UNCHANGED <<last, line, at[last], plist.path>> /\ ~Active(last)
    <2>1. /\ Lone /\ last \in Runs /\ relogged' /\ Conf(last)' = Conf(last)
          /\ \A flag : Has(last, flag)' = Has(last, flag)
          /\ at[last] \in {"ready"} \/ at[last] \notin Waiting \cup {"plist", "bootout", "bootstrap"}
        BY <1>3 DEF Login, Lone, Conf, Has, Active, Ended
    <2>2. CASE at[last] = "ready" /\ Has(last, "service") /\ ~Has(last, "dry")
        <3>1. plist.path = Whole(Conf(last)) /\ Readable(plist)
            BY <2>1, <2>2, WholeIsReadable DEF Installed, Readable
        <3>2. loaded' = Conf(last)
            BY <1>3, <3>1, WholeIsReadable DEF Login
        <3> QED BY <1>3, <2>1, <2>2, <3>1, <3>2 DEF Installed
    <2> QED BY <1>3, <2>1, <2>2 DEF Installed
<1>4. CASE GatewayUp \/ GatewayDies
    BY <1>4 DEF GatewayUp, GatewayDies, Installed, Lone, Conf, Has, runVars,
                fileVars, files, history
<1> QED BY <1>1, <1>2, <1>3, <1>4, WorldCases
LEMMA MergeSteps ==
    ASSUME TypeOK, NEW r \in Runs, Step(r) \/ Consent(r)
    PROVE  \/ ReadSettings(r) \/ OpenTmp(r) \/ FillTmp(r) \/ Rename(r)
           \/ /\ UNCHANGED <<settings, merged>>
              /\ \/ at[r] \in Noting /\ at'[r] \in Noting
                 \/ at'[r] \notin {"tmp", "filling", "rename"} \cup Noting
                 \/ SkipSettings(r)
<1> USE DEF fileVars, files, runVars, Moves, GoesOn, Noting, TypeOK
<1>1. CASE HostCheck(r) \/ Consent(r) \/ StopStep(r)
    BY <1>1 DEF HostCheck, Consent, StopStep, Stop, StopWarns
<1>2. CASE BuildStep(r)
    BY <1>2 DEF BuildStep, SkipBuild, BuildFails, Build
<1>3. CASE DownloadStep(r)
    BY <1>3 DEF DownloadStep, SkipDownload, NoWeights, Download, CurlFails,
                CurlEnds, Move, MoveFails
<1>4. CASE ServiceStep(r)
    BY <1>4 DEF ServiceStep, SkipService, OpenPlist, WritePlist, Bootout,
                Bootstrap, BootstrapFails, WaitForReady
<1>5. CASE TestStep(r)
    BY <1>5 DEF TestStep, SkipTest, TestPasses, TestFails
<1>6. CASE StateStep(r)
    BY <1>6 DEF StateStep, PlanPrinted, OpenState, WriteState
<1>7. CASE SettingsStep(r)
    <2>1. CASE SkipSettings(r)
        BY <2>1 DEF SkipSettings
    <2>2. CASE RenameFails(r)
        BY <2>2 DEF RenameFails
    <2> QED BY <1>7, <2>1, <2>2 DEF SettingsStep
<1> QED BY <1>1, <1>2, <1>3, <1>4, <1>5, <1>6, <1>7 DEF Step

LEMMA OwnKeysKept ==
    ASSUME settings'.path = settings.path
    PROVE  (Readable(settings))' = Readable(settings)
           /\ OwnKeys(settings)' = OwnKeys(settings)
BY DEF OwnKeys, Readable

LEMMA MergedStep ==
    ASSUME TypeOK, Alone, Merged, Realised, Next PROVE Merged'
<1> SUFFICES ASSUME Lone' PROVE Merged'
    BY DEF Merged
<1> USE DEF Noting
<1>0. /\ settings \in Files(Settings, Runs) /\ at \in [Runs -> Stages]
      /\ merged \in [Runs -> Settings]
      /\ \A r \in Runs : at[r] # "unborn" => Conf(r) \in Configs
    BY TypeParts, Configured DEF TypeOK
<1>1. CASE \E r \in Runs : Step(r) \/ Consent(r)
    <2> PICK r \in Runs : Step(r) \/ Consent(r)
        BY <1>1
    <2>1. /\ r = last /\ UNCHANGED <<line, last>> /\ Lone
          /\ last \in Runs /\ Conf(last)' = Conf(last)
          /\ \A flag : Has(last, flag)' = Has(last, flag)
        BY LastSteps DEF Lone, Conf, Has
    <2>2. CASE ReadSettings(r)
        <3>1. /\ merged'[r] = [own |-> OwnKeys(settings), conf |-> Conf(r)]
              /\ settings' = settings
              /\ at'[r] = IF Has(r, "dry") THEN "state" ELSE "tmp"
            BY <1>0, <2>2 DEF ReadSettings, Moves, fileVars, files
        <3> QED BY <2>1, <3>1, OwnKeysKept DEF Merged
    <2>3. CASE OpenTmp(r)
        <3>1. /\ settings' = Opened(settings, "tmp", r) /\ at'[r] = "filling"
              /\ merged' = merged /\ at[r] = "tmp"
            BY <1>0, <2>3 DEF OpenTmp, Moves, runVars
        <3>2. /\ settings'.path = settings.path /\ settings'.tmp = Empty
              /\ settings'.on[r] = "tmp"
            BY <1>0, <3>1, OpenedTmp
        <3> QED BY <2>1, <3>1, <3>2, OwnKeysKept DEF Merged
    <2>4. CASE FillTmp(r)
        <3>1. /\ settings' \in Filled(settings, r, merged[r])
              /\ at'[r] = "rename" /\ merged' = merged /\ at[r] = "filling"
              /\ settings.on[r] = "tmp" /\ settings.tmp = Empty
              /\ merged[r] \in Settings
            BY <1>0, <2>1, <2>4 DEF FillTmp, Moves, runVars, Merged
        <3>2. settings'.path = settings.path /\ settings'.tmp = Whole(merged[r])
            BY <1>0, <3>1, FilledFile
        <3> QED BY <2>1, <3>1, <3>2, OwnKeysKept DEF Merged
    <2>5. CASE Rename(r)
        <3>1. /\ settings' = Renamed(settings) /\ at'[r] = "state"
              /\ settings.tmp = Whole(merged[r])
              /\ merged[r].conf = Conf(last)
            BY <1>0, <2>1, <2>5 DEF Rename, Moves, Merged
        <3>2. settings'.path = Whole(merged[r])
            BY <1>0, <3>1, RenamedFile
        <3>3. Readable(settings)' /\ settings'.path.of.conf = Conf(last)
            BY <3>1, <3>2, WholeIsReadable DEF Readable
        <3> QED BY <2>1, <3>1, <3>3 DEF Merged
    <2>6. CASE /\ UNCHANGED <<settings, merged>>
               /\ at[r] \in Noting /\ at'[r] \in Noting
        BY <2>1, <2>6, OwnKeysKept DEF Merged
    <2>7. CASE at'[r] \notin {"tmp", "filling", "rename"} \cup Noting
        BY <2>1, <2>7 DEF Merged
    <2>8. CASE SkipSettings(r)
        BY <1>0, <2>1, <2>8 DEF Merged, SkipSettings, GoesOn, Moves
    <2> QED BY <2>2, <2>3, <2>4, <2>5, <2>6, <2>7, <2>8, MergeSteps
<1>2. CASE last' \in Runs /\ at'[last'] \in {"killed", "host", "stop"}
    BY <1>2 DEF Merged
<1>3. CASE /\ Login /\ UNCHANGED <<last, line, at[last], settings.path>>
           /\ ~Active(last)
    <2>1. /\ Lone /\ last \in Runs /\ Conf(last)' = Conf(last)
          /\ \A flag : Has(last, flag)' = Has(last, flag)
          /\ at[last] \notin {"tmp", "filling", "rename"}
        BY <1>3 DEF Login, Lone, Conf, Has, Active, Ended
    <2> QED BY <1>3, <2>1, OwnKeysKept DEF Merged
<1>4. CASE GatewayUp \/ GatewayDies
    BY <1>4 DEF GatewayUp, GatewayDies, Merged, Lone, Conf, Has, runVars,
                fileVars, files, history, OwnKeys, Readable
<1> QED BY <1>1, <1>2, <1>3, <1>4, WorldCases

LEMMA KeysKeptStep ==
    ASSUME TypeOK, Alone, Merged, KeysKept, Next PROVE KeysKept'
<1> SUFFICES ASSUME crowded' = {} PROVE KeysKept'
    BY DEF KeysKept
<1>0. settings \in Files(Settings, Runs) /\ at \in [Runs -> Stages]
    BY DEF TypeOK
<1>1. CASE \E r \in Runs : Step(r) \/ Consent(r)
    <2> PICK r \in Runs : Step(r) \/ Consent(r)
        BY <1>1
    <2>1. UNCHANGED <<crowded, given>> /\ crowded = {} /\ Active(r)
        BY StepMoves DEF history
    <2>2. r = last /\ Lone
        BY <2>1, LoneStep DEF Lone
    <2>3. CASE ReadSettings(r)
        BY <2>1, <2>3, OwnKeysKept DEF ReadSettings, KeysKept, fileVars, files
    <2>4. CASE OpenTmp(r)
        <3>1. settings'.path = settings.path
            BY <1>0, <2>4, OpenedTmp DEF OpenTmp
        <3> QED BY <2>1, <3>1, OwnKeysKept DEF KeysKept
    <2>5. CASE FillTmp(r)
        <3>1. /\ settings' \in Filled(settings, r, merged[r])
              /\ settings.on[r] = "tmp" /\ merged[r] \in Settings
            BY <1>0, <2>2, <2>5 DEF FillTmp, Moves, Merged, TypeOK
        <3>2. settings'.path = settings.path
            BY <1>0, <3>1, FilledFile
        <3> QED BY <2>1, <3>2, OwnKeysKept DEF KeysKept
    <2>6. CASE Rename(r)
        <3>1. /\ settings' = Renamed(settings)
              /\ settings.tmp = Whole(merged[r])
              /\ merged[r].own = OwnKeys(settings)
            BY <1>0, <2>2, <2>6 DEF Rename, Moves, Merged
        <3>2. settings'.path = Whole(merged[r])
            BY <1>0, <3>1, RenamedFile
        <3>3. /\ settings'.path \notin {Empty, Torn}
              /\ OwnKeys(settings)' = OwnKeys(settings)
            BY <3>1, <3>2, WholeIsReadable DEF Readable, OwnKeys
        <3> QED BY <2>1, <3>3 DEF KeysKept
    <2>7. CASE UNCHANGED settings
        BY <2>1, <2>7, OwnKeysKept DEF KeysKept
    <2> QED BY <2>3, <2>4, <2>5, <2>6, <2>7, MergeSteps
            DEF SkipSettings, GoesOn, fileVars, files
<1>2. CASE (\E r \in Runs : Kill(r)) \/ Login
    <2>1. settings'.path = settings.path /\ UNCHANGED <<crowded, given>>
        BY <1>2, DroppedFiles DEF Kill, Login, history
    <2> QED BY <2>1, OwnKeysKept DEF KeysKept
<1>3. CASE \E r \in Runs, cmd \in Commands : Launch(r, cmd)
    <2>1. crowded = {} /\ UNCHANGED <<settings, given>>
        BY <1>3 DEF Launch, fileVars, files
    <2> QED BY <2>1, OwnKeysKept DEF KeysKept
<1>4. CASE GatewayUp \/ GatewayDies
    BY <1>4, OwnKeysKept DEF GatewayUp, GatewayDies, KeysKept, fileVars, files, history
<1> QED BY <1>1, <1>2, <1>3, <1>4, NextCases
LEMMA NoteSteps ==
    ASSUME TypeOK, NEW r \in Runs, Step(r) \/ Consent(r)
    PROVE  OpenState(r) \/ WriteState(r) \/ at'[r] \notin {"noting", "ready"}
<1> USE DEF Moves, GoesOn, TypeOK
<1>1. CASE HostCheck(r) \/ Consent(r) \/ StopStep(r) \/ BuildStep(r)
    BY <1>1 DEF HostCheck, Consent, StopStep, Stop, StopWarns, BuildStep, SkipBuild,
                BuildFails, Build
<1>2. CASE DownloadStep(r)
    BY <1>2 DEF DownloadStep, SkipDownload, NoWeights, Download, CurlFails,
                CurlEnds, Move, MoveFails
<1>3. CASE ServiceStep(r)
    BY <1>3 DEF ServiceStep, SkipService, OpenPlist, WritePlist, Bootout,
                Bootstrap, BootstrapFails, WaitForReady
<1>4. CASE TestStep(r) \/ StateStep(r)
    BY <1>4 DEF TestStep, SkipTest, TestPasses, TestFails, StateStep, PlanPrinted
<1>5. CASE SettingsStep(r)
    BY <1>5 DEF SettingsStep, SkipSettings, ReadSettings, OpenTmp, FillTmp,
                Rename, RenameFails
<1> QED BY <1>1, <1>2, <1>3, <1>4, <1>5 DEF Step

LEMMA NotedStep ==
    ASSUME TypeOK, Alone, Noted, Next PROVE Noted'
<1> SUFFICES ASSUME Lone' PROVE Noted'
    BY DEF Noted
<1>0. /\ state \in Files(Configs, Runs) /\ at \in [Runs -> Stages]
      /\ \A r \in Runs : at[r] # "unborn" => Conf(r) \in Configs
    BY TypeParts, Configured DEF TypeOK
<1>1. CASE \E r \in Runs : Step(r) \/ Consent(r)
    <2> PICK r \in Runs : Step(r) \/ Consent(r)
        BY <1>1
    <2>1. /\ r = last /\ UNCHANGED <<line, last>> /\ Lone /\ last \in Runs
          /\ at[last] # "unborn" /\ Conf(last)' = Conf(last)
        BY LastSteps DEF Lone, Conf, Active
    <2>2. CASE OpenState(r)
        <3>1. state' = Opened(state, "path", r) /\ at'[r] = "noting"
            BY <1>0, <2>2 DEF OpenState, Moves
        <3>2. state'.path = Empty /\ state'.on[r] = "path"
            BY <1>0, <3>1, OpenedPath
        <3> QED BY <2>1, <3>1, <3>2 DEF Noted
    <2>3. CASE WriteState(r)
        <3>1. state' \in Filled(state, r, Conf(r)) /\ at'[r] = "ready"
              /\ state.on[r] = "path" /\ state.path = Empty
            BY <1>0, <2>1, <2>3 DEF WriteState, Moves, Noted
        <3>2. state'.path = Whole(Conf(r))
            BY <1>0, <2>1, <3>1, FilledFile
        <3> QED BY <2>1, <3>1, <3>2 DEF Noted
    <2>4. CASE at'[r] \notin {"noting", "ready"}
        BY <2>1, <2>4 DEF Noted
    <2> QED BY <2>2, <2>3, <2>4, NoteSteps
<1>2. CASE last' \in Runs /\ at'[last'] \in {"killed", "host", "stop"}
    BY <1>2 DEF Noted
<1>3. CASE Login /\ UNCHANGED <<last, line, at[last], state.path>> /\ ~Active(last)
    BY <1>3 DEF Login, Noted, Lone, Conf, Active, Ended
<1>4. CASE GatewayUp \/ GatewayDies
    BY <1>4 DEF GatewayUp, GatewayDies, Noted, Lone, Conf, runVars, fileVars, files, history
<1> QED BY <1>1, <1>2, <1>3, <1>4, WorldCases

LEMMA RealisedStep == ASSUME TypeOK, Realised, Next PROVE Realised'
<1> USE DEF Realised, ForReal, TypeOK
<1>1. CASE \E r \in Runs : Step(r) \/ Consent(r)
    <2> PICK r \in Runs : Step(r) \/ Consent(r)
        BY <1>1
    <2>1. /\ \A o \in Runs : \A flag : Has(o, flag)' = Has(o, flag)
          /\ \A o \in Runs \ {r} : at'[o] = at[o]
        BY StepMoves DEF Has
    <2>2. at'[r] \in ForReal => at[r] \in ForReal \/ ~Has(r, "dry")
        <3> USE DEF Moves, GoesOn
        <3>1. CASE HostCheck(r) \/ Consent(r) \/ StopStep(r) \/ BuildStep(r)
            BY <3>1 DEF HostCheck, Consent, StopStep, Stop, StopWarns, BuildStep,
                        SkipBuild, BuildFails, Build
        <3>2. CASE DownloadStep(r)
            BY <3>2 DEF DownloadStep, SkipDownload, NoWeights, Download, CurlFails,
                        CurlEnds, Move, MoveFails
        <3>3. CASE ServiceStep(r)
            BY <3>3 DEF ServiceStep, SkipService, OpenPlist, WritePlist, Bootout,
                        Bootstrap, BootstrapFails, WaitForReady
        <3>4. CASE TestStep(r) \/ StateStep(r)
            BY <3>4 DEF TestStep, SkipTest, TestPasses, TestFails, StateStep,
                        PlanPrinted, OpenState, WriteState
        <3>5. CASE SettingsStep(r)
            BY <3>5 DEF SettingsStep, SkipSettings, ReadSettings, OpenTmp, FillTmp,
                        Rename, RenameFails
        <3> QED BY <3>1, <3>2, <3>3, <3>4, <3>5 DEF Step
    <2> QED BY <2>1, <2>2
<1>2. CASE (\E r \in Runs : Kill(r)) \/ Login
    <2>1. line' = line /\ \A r \in Runs : at'[r] \in {at[r], "killed"}
        BY <1>2 DEF Kill, Login, Dropped, runVars
    <2> QED BY <2>1 DEF Has
<1>3. CASE \E r \in Runs, cmd \in Commands : Launch(r, cmd)
    BY <1>3 DEF Launch, Moves, Has
<1>4. CASE GatewayUp \/ GatewayDies
    BY <1>4 DEF GatewayUp, GatewayDies, Has, runVars
<1> QED BY <1>1, <1>2, <1>3, <1>4, NextCases

LEMMA TestSteps ==
    ASSUME NEW r \in Runs, Step(r) \/ Consent(r)
    PROVE  TestPasses(r) \/ answered' = answered
<1> USE DEF runVars, GoesOn
<1>1. CASE HostCheck(r) \/ Consent(r) \/ StopStep(r) \/ BuildStep(r)
    BY <1>1 DEF HostCheck, Consent, StopStep, Stop, StopWarns,
                BuildStep, SkipBuild, BuildFails, Build
<1>2. CASE DownloadStep(r) \/ StateStep(r)
    BY <1>2 DEF DownloadStep, SkipDownload, NoWeights, Download,
                CurlFails, CurlEnds, Move, MoveFails, StateStep,
                PlanPrinted, OpenState, WriteState
<1>3. CASE ServiceStep(r)
    BY <1>3 DEF ServiceStep, SkipService, OpenPlist, WritePlist,
                Bootout, Bootstrap, BootstrapFails, WaitForReady
<1>4. CASE TestStep(r)
    BY <1>4 DEF TestStep, SkipTest, TestFails
<1>5. CASE SettingsStep(r)
    BY <1>5 DEF SettingsStep, SkipSettings, ReadSettings, OpenTmp,
                FillTmp, Rename, RenameFails
<1> QED BY <1>1, <1>2, <1>3, <1>4, <1>5 DEF Step

LEMMA ServedStep ==
    ASSUME TypeOK, Alone, Installed, Served, Next PROVE Served'
<1> USE DEF Served
<1>1. (gateway \in {NoConfig, loaded})'
    <2>1. CASE \E r \in Runs : Step(r) \/ Consent(r)
        BY <2>1, LaunchdSteps DEF Bootout, Bootstrap, Stop, Unload, launchdVars
    <2>2. CASE ~\E r \in Runs : Step(r) \/ Consent(r)
        BY <2>2, NextCases DEF Kill, Launch, Login, GatewayUp, GatewayDies, launchdVars
    <2> QED BY <2>1, <2>2
<1>2. TestedOwnGateway'
    <2> USE DEF TypeOK, TestedOwnGateway
    <2>1. CASE \E r \in Runs : Step(r) \/ Consent(r)
        <3> PICK r \in Runs : Step(r) \/ Consent(r)
            BY <2>1
        <3>1. /\ UNCHANGED <<line, last, crowded>> /\ Active(r)
              /\ \A o \in Runs : Conf(o)' = Conf(o)
              /\ \A o \in Runs : \A flag : Has(o, flag)' = Has(o, flag)
            BY StepMoves DEF Conf, Has, history
        <3>2. CASE TestPasses(r) /\ r \notin crowded /\ Has(r, "service")
            <4>1. r = last /\ Lone
                BY <3>1, <3>2 DEF Alone, Lone
            <4>2. gateway = Conf(r)
                BY <3>2, <4>1 DEF TestPasses, Moves, Installed, Waiting, Fetched
            <4>3. answered' = [answered EXCEPT ![r] = gateway]
                BY <3>2 DEF TestPasses
            <4> QED BY <3>1, <4>2, <4>3
        <3>3. CASE TestPasses(r) /\ ~(r \notin crowded /\ Has(r, "service"))
            <4>1. answered' = [answered EXCEPT ![r] = gateway]
                BY <3>3 DEF TestPasses
            <4> QED BY <3>1, <3>3, <4>1
        <3>4. CASE ~TestPasses(r)
            <4>1. answered' = answered
                BY <3>4, TestSteps
            <4> QED BY <3>1, <4>1
        <3> QED BY <3>2, <3>3, <3>4
    <2>2. CASE \E r \in Runs, cmd \in Commands : Launch(r, cmd)
        <3> PICK r \in Runs, cmd \in Commands : Launch(r, cmd)
            BY <2>2
        <3>1. /\ answered' = answered /\ crowded \subseteq crowded'
              /\ \A o \in Runs \ {r} : line'[o] = line[o]
              /\ answered[r] = NoConfig
            BY DEF Launch, Moves
        <3> QED BY <3>1 DEF Conf, Has
    <2>3. CASE (\E r \in Runs : Kill(r)) \/ Login \/ GatewayUp \/ GatewayDies
        BY <2>3 DEF Kill, Login, GatewayUp, GatewayDies, runVars, history, Conf, Has
    <2> QED BY <2>1, <2>2, <2>3, NextCases
<1>3. (\A r \in Runs : at[r] = "unborn" => answered[r] = NoConfig)'
    <2> USE DEF TypeOK
    <2>1. CASE \E r \in Runs : Step(r) \/ Consent(r)
        <3> PICK r \in Runs : Step(r) \/ Consent(r)
            BY <2>1
        <3>1. /\ at'[r] # "unborn"
              /\ \A o \in Runs \ {r} : at'[o] = at[o] /\ answered'[o] = answered[o]
            BY StepMoves, TestSteps DEF TestPasses, Active
        <3> QED BY <3>1
    <2>2. CASE \E r \in Runs, cmd \in Commands : Launch(r, cmd)
        BY <2>2 DEF Launch, Moves
    <2>3. CASE (\E r \in Runs : Kill(r)) \/ Login \/ GatewayUp \/ GatewayDies
        BY <2>3 DEF Kill, Login, Dropped, GatewayUp, GatewayDies, runVars
    <2> QED BY <2>1, <2>2, <2>3, NextCases
<1> QED BY <1>1, <1>2, <1>3
LEMMA WeightSteps ==
    ASSUME TypeOK, NEW r \in Runs, Step(r) \/ Consent(r)
    PROVE  \/ Download(r) \/ CurlEnds(r) \/ Move(r)
           \/ /\ UNCHANGED <<part, weights>>
              /\ \/ at'[r] \notin Fetched \cup {"curl", "move"}
                 \/ at[r] \in Fetched /\ at'[r] \notin {"curl", "move"}
                 \/ SkipDownload(r)
<1> USE DEF weightVars, Moves, GoesOn, Fetched, TypeOK
<1>1. CASE HostCheck(r) \/ Consent(r) \/ StopStep(r) \/ BuildStep(r)
    BY <1>1 DEF HostCheck, Consent, StopStep, Stop, StopWarns, BuildStep,
                SkipBuild, BuildFails, Build
<1>2. CASE DownloadStep(r)
    <2>1. CASE NoWeights(r) \/ CurlFails(r) \/ MoveFails(r)
        BY <2>1 DEF NoWeights, CurlFails, MoveFails
    <2>2. CASE SkipDownload(r)
        BY <2>2 DEF SkipDownload
    <2> QED BY <1>2, <2>1, <2>2 DEF DownloadStep
<1>3. CASE ServiceStep(r)
    BY <1>3 DEF ServiceStep, SkipService, OpenPlist, WritePlist, Bootout,
                Bootstrap, BootstrapFails, WaitForReady
<1>4. CASE TestStep(r) \/ StateStep(r)
    BY <1>4 DEF TestStep, SkipTest, TestPasses, TestFails, StateStep, PlanPrinted,
                OpenState, WriteState
<1>5. CASE SettingsStep(r)
    BY <1>5 DEF SettingsStep, SkipSettings, ReadSettings, OpenTmp, FillTmp,
                Rename, RenameFails
<1> QED BY <1>1, <1>2, <1>3, <1>4, <1>5 DEF Step

LEMMA WeighedStep == ASSUME TypeOK, Alone, Weighed, Next PROVE Weighed'
<1>0. /\ part \in [Profiles -> {"none", "some", "all", "mixed"}]
      /\ weights \in [Profiles -> {"none", "some", "all", "mixed"}]
      /\ at \in [Runs -> Stages]
      /\ \A r \in Runs : at[r] # "unborn" => Profile(r) \in Profiles
    BY TypeParts, Configured DEF TypeOK
<1>1. CASE \E r \in Runs : Step(r) \/ Consent(r)
    <2> PICK r \in Runs : Step(r) \/ Consent(r)
        BY <1>1
    <2>1. /\ Active(r) /\ UNCHANGED <<line, last, crowded>>
          /\ \A o \in Runs : Profile(o)' = Profile(o)
          /\ \A o \in Runs : \A flag : Has(o, flag)' = Has(o, flag)
          /\ \A o \in Runs \ {r} : at'[o] = at[o]
          /\ Profile(r) \in Profiles
        BY <1>0, StepMoves DEF history, Profile, Conf, Has, Active
    <2>2. crowded = {} => \A o \in Runs \ {r} : ~Active(o)
        BY <2>1 DEF Alone
    <2>3. CASE Download(r)
        <3>1. /\ weights' = weights /\ at'[r] = "curl" /\ at[r] = "download"
              /\ \E now \in {"some", part[Profile(r)], "mixed"} :
                   /\ part' = [part EXCEPT ![Profile(r)] = now]
                   /\ now = "mixed" => part[Profile(r)] = "mixed" \/ Curling(Profile(r)) # {}
                   /\ now = "none" => FALSE
            BY <1>0, <2>1, <2>3 DEF Download, Moves
        <3>2. crowded = {} => Curling(Profile(r)) = {}
            BY <2>2, <3>1 DEF Curling, Active, Ended
        <3>3. Fetched \cap {"curl", "move"} = {}
            BY DEF Fetched
        <3> QED BY <1>0, <2>1, <2>2, <3>1, <3>2, <3>3
                DEF Weighed, Active, Ended
    <2>4. CASE CurlEnds(r)
        <3>1. /\ weights' = weights /\ at'[r] = "move" /\ at[r] = "curl"
              /\ part' = [part EXCEPT ![Profile(r)] =
                            IF part[Profile(r)] = "some" THEN "all"
                            ELSE part[Profile(r)]]
            BY <1>0, <2>4 DEF CurlEnds, Moves
        <3>2. Fetched \cap {"curl", "move"} = {}
            BY DEF Fetched
        <3> QED BY <1>0, <2>1, <2>2, <3>1, <3>2 DEF Weighed, Active, Ended
    <2>5. CASE Move(r)
        <3>1. /\ at'[r] = "service" /\ at[r] = "move" /\ part[Profile(r)] # "none"
              /\ weights' = [weights EXCEPT ![Profile(r)] = part[Profile(r)]]
              /\ part' = [part EXCEPT ![Profile(r)] = "none"]
            BY <1>0, <2>5 DEF Move, Moves
        <3> QED BY <1>0, <2>1, <2>2, <3>1 DEF Weighed, Active, Ended
    <2>6. CASE UNCHANGED <<part, weights>> /\ at'[r] \notin Fetched \cup {"curl", "move"}
        BY <2>1, <2>6 DEF Weighed
    <2>7. CASE /\ UNCHANGED <<part, weights>>
               /\ at[r] \in Fetched /\ at'[r] \notin {"curl", "move"}
        BY <2>1, <2>7 DEF Weighed
    <2>8. CASE UNCHANGED <<part, weights>> /\ SkipDownload(r)
        <3>1. at'[r] = "service" /\ (weights[Profile(r)] # "none" \/ Has(r, "dry"))
            BY <1>0, <2>8 DEF SkipDownload, GoesOn, Moves
        <3> QED BY <2>1, <2>8, <3>1 DEF Weighed
    <2> QED BY <2>3, <2>4, <2>5, <2>6, <2>7, <2>8, WeightSteps
<1>2. CASE (\E r \in Runs : Kill(r)) \/ Login
    <2>1. /\ UNCHANGED <<line, part, weights, crowded>>
          /\ \A r \in Runs : at'[r] \in {at[r], "killed"}
        BY <1>2 DEF Kill, Login, Dropped, runVars, weightVars, history
    <2> QED BY <2>1 DEF Weighed, Fetched, Has, Profile, Conf
<1>3. CASE \E r \in Runs, cmd \in Commands : Launch(r, cmd)
    <2> PICK r \in Runs, cmd \in Commands : Launch(r, cmd)
        BY <1>3
    <2>1. /\ UNCHANGED <<part, weights>> /\ crowded \subseteq crowded'
          /\ \A o \in Runs \ {r} : at'[o] = at[o] /\ line'[o] = line[o]
          /\ at'[r] \in {"host", "stop"}
        BY <1>0 DEF Launch, Moves, weightVars
    <2> QED BY <2>1 DEF Weighed, Fetched, Has, Profile, Conf
<1>4. CASE GatewayUp \/ GatewayDies
    BY <1>4 DEF GatewayUp, GatewayDies, Weighed, Has, Profile, Conf, runVars,
                weightVars, history
<1> QED BY <1>1, <1>2, <1>3, <1>4, NextCases
-----------------------------------------------------------------------------
LEMMA InitInvariant == Init => IInv
<1> SUFFICES ASSUME Init PROVE IInv
    OBVIOUS
<1> USE DEF Init
<1>1. \A r \in Runs : at[r] = "unborn" /\ ~Active(r)
    BY DEF Active
<1>2. NoSettings \in Settings
    BY DEF NoSettings, Settings
<1>3. /\ Absent \in Contents(Configs) /\ Absent \in Contents(Settings)
      /\ given \in Contents(Settings)
    <2>1. [own |-> TRUE, conf |-> NoConfig] \in Settings
        BY DEF Settings
    <2>2. Whole([own |-> TRUE, conf |-> NoConfig]) \in Contents(Settings)
        BY <2>1, WholeInContents
    <2> QED BY <2>2 DEF Contents
<1>4. \A C, c : c \in Contents(C) /\ Absent \in Contents(C) => NewFile(c, Runs) \in Files(C, Runs)
    BY DEF NewFile, Files
<1>5. /\ plist \in Files(Configs, Runs) /\ state \in Files(Configs, Runs)
      /\ settings \in Files(Settings, Runs)
    BY <1>3, <1>4
<1>6. FileTypes
    BY <1>5 DEF FileTypes, NewFile, Dirs
<1>7. RunTypes
    BY <1>1, <1>2 DEF RunTypes, Stages
<1>8. WorldTypes
    BY DEF WorldTypes
<1>9. Alone /\ Realised
    BY <1>1, TideLocalAssumption DEF Alone, Realised, ForReal
<1>10. Weighed
    BY <1>1 DEF Weighed, Fetched
<1>11. Installed /\ Merged /\ Noted
    BY TideLocalAssumption DEF Installed, Merged, Noted, Lone
<1>12. KeysKept
    BY ContentsDiffer, WholeIsReadable DEF KeysKept, OwnKeys, Readable, NewFile
<1>13. Served
    BY DEF Served, TestedOwnGateway
<1> QED BY <1>6, <1>7, <1>8, <1>9, <1>10, <1>11, <1>12, <1>13,
           TypeParts DEF IInv

LEMMA NextInvariant == IInv /\ [Next]_vars => IInv'
<1> SUFFICES ASSUME IInv, [Next]_vars PROVE IInv'
    OBVIOUS
<1>1. CASE Next
    <2>1. TypeOK' /\ Alone' /\ Realised' /\ Weighed'
        BY <1>1, TypeStep, AloneStep, RealisedStep, WeighedStep DEF IInv
    <2>2. Installed' /\ Merged' /\ Noted'
        BY <1>1, InstalledStep, MergedStep, NotedStep DEF IInv
    <2>3. KeysKept' /\ Served'
        BY <1>1, KeysKeptStep, ServedStep DEF IInv
    <2> QED BY <2>1, <2>2, <2>3 DEF IInv
<1>2. CASE UNCHANGED vars
    <2> USE <1>2 DEF vars, runVars, weightVars, launchdVars, fileVars, files, history
    <2>1. TypeOK' /\ Alone' /\ Realised' /\ Weighed'
        BY DEF IInv, TypeOK, Alone, Realised, Weighed, Active, Has, Profile, Conf
    <2>2. Installed' /\ Merged' /\ Noted'
        BY DEF IInv, Installed, Merged, Noted, Lone, Has, Conf, OwnKeys, Readable
    <2>3. KeysKept' /\ Served'
        BY DEF IInv, KeysKept, Served, TestedOwnGateway, Has, Conf, OwnKeys, Readable
    <2> QED BY <2>1, <2>2, <2>3 DEF IInv
<1> QED BY <1>1, <1>2

LEMMA Invariance == Spec => []IInv
BY InitInvariant, NextInvariant, PTL DEF Spec

\* Every reachable state is type-correct, and no run has a file open between
\* two of its steps that is not the one it is filling.
THEOREM TypeCorrect == Spec => []TypeOK
<1>1. IInv => TypeOK
    BY DEF IInv
<1> QED BY <1>1, Invariance, PTL

\* Weights under their final name are complete, however often runs that do not
\* overlap are killed and repeated.
THEOREM WeightsAlwaysWhole == Spec => []WeightsWhole
<1>1. IInv => WeightsWhole
    BY DEF IInv, Weighed, WeightsWhole
<1> QED BY <1>1, Invariance, PTL

\* The user's own settings survive every merge, and every kill between the
\* steps of one.
THEOREM KeysAlwaysKept == Spec => []KeysKept
<1>1. IInv => KeysKept
    BY DEF IInv
<1> QED BY <1>1, Invariance, PTL

\* What a run that was alone reports at its end is what is installed, whatever
\* the runs before it left behind.
THEOREM LastWordHolds == Spec => []LastWord
<1>1. IInv => LastWord
    <2> SUFFICES ASSUME IInv, last # NoRun, last \notin crowded
                 PROVE  LastWord
        BY DEF LastWord
    <2>1. Lone /\ last \in Runs
        BY DEF IInv, TypeOK, Lone
    <2>2. CASE at[last] = "ready"
        <3>1. ~Has(last, "dry")
            BY <2>1, <2>2 DEF IInv, Realised, ForReal
        <3>2. state.path = Whole(Conf(last)) /\ weights[Profile(last)] # "none"
            BY <2>1, <2>2, <3>1 DEF IInv, Noted, Weighed, Fetched
        <3>3. Has(last, "service") =>
                plist.path = Whole(Conf(last)) /\ loaded = Conf(last)
            BY <2>1, <2>2, <3>1 DEF IInv, Installed, Waiting, Fetched
        <3>4. Has(last, "settings") =>
                Readable(settings) /\ settings.path.of.conf = Conf(last)
            BY <2>1, <2>2, <3>1 DEF IInv, Merged, Noting
        <3> QED BY <2>2, <3>2, <3>3, <3>4 DEF LastWord
    <2>3. CASE at[last] = "stopped" /\ ~relogged
        BY <2>1, <2>3 DEF IInv, Installed, LastWord
    <2>4. CASE at[last] # "ready" /\ ~(at[last] = "stopped" /\ ~relogged)
        BY <2>4 DEF LastWord
    <2> QED BY <2>2, <2>3, <2>4
<1> QED BY <1>1, Invariance, PTL

\* A self-test that passes in a run that installs a gateway and was alone has
\* spoken to that gateway, not to the one it replaced.
THEOREM AlwaysTestsOwnGateway == Spec => []TestedOwnGateway
<1>1. IInv => TestedOwnGateway
    BY DEF IInv, Served
<1> QED BY <1>1, Invariance, PTL

\* A run that only prints its plan changes no file and loads no agent, and
\* makes no directory but those that a flag of its command line asks for.
THEOREM OnlyRealRunsEverWrite == Spec => OnlyRealRunsWrite
<1> DEFINE written == <<weightVars, files, loaded>>
           Made == \A d \in dirs' \ dirs : \E r \in Runs, flag \in DOMAIN DirsOf :
                     Active(r) /\ Has(r, flag) /\ d \in DirsOf[flag]
           Real == \E r \in Runs : Active(r) /\ ~Has(r, "dry")
<1>1. ASSUME IInv, Next PROVE (UNCHANGED written /\ Made) \/ Real \/ relogged'
    <2>1. CASE \E r \in Runs : Step(r) \/ Consent(r)
        <3> SUFFICES ASSUME NEW r \in Runs, Step(r) \/ Consent(r), Has(r, "dry")
                     PROVE  UNCHANGED written /\ Made
            BY <2>1, StepMoves
        <3>0. at[r] \notin ForReal /\ (at'[r] \notin ForReal)
            <4>1. Realised /\ Realised' /\ line' = line
                BY <1>1, RealisedStep, StepMoves DEF IInv
            <4> QED BY <4>1 DEF Realised, Has
        <3>6. Made
            <4>1. Active(r)
                BY StepMoves
            <4> QED BY <4>1, DirSteps
        <3> SUFFICES UNCHANGED written
            BY <3>6
        <3> USE DEF weightVars, fileVars, files, launchdVars, GoesOn, Moves, ForReal
        <3>1. CASE HostCheck(r) \/ Consent(r) \/ StopStep(r) \/ BuildStep(r)
            BY <3>1 DEF HostCheck, Consent, StopStep, Stop, StopWarns, BuildStep,
                        SkipBuild, BuildFails, Build
        <3>2. CASE DownloadStep(r)
            BY <3>0, <3>2 DEF DownloadStep, SkipDownload, NoWeights, Download,
                              CurlFails, CurlEnds, Move, MoveFails
        <3>3. CASE ServiceStep(r)
            BY <3>0, <3>3 DEF ServiceStep, SkipService, OpenPlist, WritePlist,
                              Bootout, Bootstrap, BootstrapFails, WaitForReady
        <3>4. CASE TestStep(r) \/ StateStep(r)
            BY <3>0, <3>4 DEF TestStep, SkipTest, TestPasses, TestFails, StateStep,
                              PlanPrinted, OpenState, WriteState
        <3>5. CASE SettingsStep(r)
            BY <3>0, <3>5 DEF SettingsStep, SkipSettings, ReadSettings, OpenTmp,
                              FillTmp, Rename, RenameFails
        <3> QED BY <3>1, <3>2, <3>3, <3>4, <3>5 DEF Step
    <2>2. CASE \E r \in Runs : Kill(r)
        <3> SUFFICES ASSUME NEW r \in Runs, Kill(r), Has(r, "dry")
                     PROVE  UNCHANGED written /\ dirs' = dirs
            BY <2>2 DEF Kill
        <3>1. at[r] \notin ForReal
            BY <1>1 DEF IInv, Realised
        <3>2. /\ plist.on[r] = "none" /\ settings.on[r] = "none"
              /\ state.on[r] = "none"
            BY <1>1, <3>1 DEF IInv, TypeOK, ForReal
        <3>3. /\ plist \in Files(Configs, Runs) /\ state \in Files(Configs, Runs)
              /\ settings \in Files(Settings, Runs)
            BY <1>1 DEF IInv, TypeOK
        <3>4. /\ plist' = Closed(plist, {r}) /\ state' = Closed(state, {r})
              /\ settings' = Closed(settings, {r})
              /\ UNCHANGED <<weightVars, loaded, dirs>>
            BY DEF Kill, Dropped, launchdVars
        <3>5. UNCHANGED plist /\ UNCHANGED state
            BY <3>2, <3>3, <3>4, ClosedByOthers
        <3>6. UNCHANGED settings
            BY <3>2, <3>3, <3>4, ClosedByOthers
        <3> QED BY <3>4, <3>5, <3>6 DEF fileVars, files
    <2>3. CASE \E r \in Runs, cmd \in Commands : Launch(r, cmd)
        BY <2>3 DEF Launch, launchdVars, fileVars, files
    <2>4. CASE Login
        BY <2>4 DEF Login
    <2>5. CASE GatewayUp \/ GatewayDies
        BY <2>5 DEF GatewayUp, GatewayDies, fileVars, files
    <2> QED BY <1>1, <2>1, <2>2, <2>3, <2>4, <2>5, NextCases
<1>2. ASSUME IInv, [Next]_vars
      PROVE  [(UNCHANGED written /\ Made) \/ Real \/ relogged']_vars
    BY <1>1, <1>2
<1> QED BY <1>2, Invariance, PTL DEF Spec, OnlyRealRunsWrite
-----------------------------------------------------------------------------
(***************************************************************************)
(* The part of RunsEnd that no schedule can change: what a run has still   *)
(* to do, the binaries that are missing included.                          *)
(***************************************************************************)
Rank(stage) ==
    CASE stage = "host" -> 18      [] stage = "consent" -> 17
      [] stage = "build" -> 16     [] stage = "download" -> 15
      [] stage = "curl" -> 14      [] stage = "move" -> 13
      [] stage = "service" -> 12   [] stage = "plist" -> 11
      [] stage = "bootout" -> 10   [] stage = "bootstrap" -> 9
      [] stage = "wait" -> 8       [] stage = "test" -> 7
      [] stage = "settings" -> 6   [] stage = "tmp" -> 5
      [] stage = "filling" -> 4    [] stage = "rename" -> 3
      [] stage = "state" -> 2      [] stage \in {"noting", "stop"} -> 1
      [] OTHER -> 0
Unbuilt(program) == IF program \in built THEN 0 ELSE 1
ToDo(r) == Rank(at[r]) + Unbuilt("ds4") + Unbuilt("dsgo")

LEMMA RankType ==
    ASSUME NEW stage
    PROVE  Rank(stage) \in 0..18 /\ (stage \in Ended => Rank(stage) = 0)
BY DEF Rank, Ended

\* Nobody unbuilds a binary.
LEMMA BuiltGrows == ASSUME Next PROVE built \subseteq built'
<1> USE DEF weightVars, GoesOn
<1>1. CASE \E r \in Runs : Step(r) \/ Consent(r)
    BY <1>1 DEF Step, Consent, HostCheck, BuildStep, SkipBuild, BuildFails, Build,
        DownloadStep, SkipDownload, NoWeights, Download, CurlFails, CurlEnds, Move,
        MoveFails, ServiceStep, SkipService, OpenPlist, WritePlist, Bootout,
        Bootstrap, BootstrapFails, WaitForReady, TestStep, SkipTest, TestPasses,
        TestFails, SettingsStep, SkipSettings, ReadSettings, OpenTmp, FillTmp,
        Rename, RenameFails, StateStep, PlanPrinted, OpenState, WriteState,
        StopStep, Stop, StopWarns
<1>2. CASE \E r \in Runs : Kill(r)
    BY <1>2 DEF Kill
<1>3. CASE \E r \in Runs, cmd \in Commands : Launch(r, cmd)
    BY <1>3 DEF Launch
<1>4. CASE Login \/ GatewayUp \/ GatewayDies
    BY <1>4 DEF Login, GatewayUp, GatewayDies
<1> QED BY <1>1, <1>2, <1>3, <1>4, NextCases

\* A step of a run takes it to a stage of a lower rank, or builds a binary.
LEMMA StepsShorten ==
    ASSUME TypeOK, NEW r \in Runs, Step(r) \/ Consent(r)
    PROVE  \/ Rank(at'[r]) < Rank(at[r])
           \/ /\ at'[r] = at[r]
              /\ \E program \in {"ds4", "dsgo"} :
                   program \notin built /\ program \in built'
<1> USE DEF Moves, GoesOn
<1>0. at \in [Runs -> Stages]
    BY DEF TypeOK
<1>1. CASE HostCheck(r) \/ Consent(r) \/ StopStep(r)
    BY <1>0, <1>1 DEF HostCheck, Consent, StopStep, Stop, StopWarns, Rank
<1>2. CASE BuildStep(r)
    <2>1. CASE Build(r)
        BY <2>1 DEF Build, Missing
    <2>2. CASE SkipBuild(r) \/ BuildFails(r)
        BY <1>0, <2>2 DEF SkipBuild, BuildFails, Rank
    <2> QED BY <1>2, <2>1, <2>2 DEF BuildStep
<1>3. CASE DownloadStep(r)
    BY <1>0, <1>3 DEF DownloadStep, SkipDownload, NoWeights, Download, CurlFails,
                      CurlEnds, Move, MoveFails, Rank
<1>4. CASE ServiceStep(r)
    BY <1>0, <1>4 DEF ServiceStep, SkipService, OpenPlist, WritePlist, Bootout,
                      Bootstrap, BootstrapFails, WaitForReady, Rank
<1>5. CASE TestStep(r) \/ StateStep(r)
    BY <1>0, <1>5 DEF TestStep, SkipTest, TestPasses, TestFails, StateStep,
                      PlanPrinted, OpenState, WriteState, Rank
<1>6. CASE SettingsStep(r)
    BY <1>0, <1>6 DEF SettingsStep, SkipSettings, ReadSettings, OpenTmp, FillTmp,
                      Rename, RenameFails, Rank
<1> QED BY <1>1, <1>2, <1>3, <1>4, <1>5, <1>6 DEF Step

\* Whatever other runs, kills, logins and the gateway do meanwhile, each step of
\* a run leaves it less to do and nothing ever gives it more: a run that is
\* scheduled ends after at most twenty steps, whichever runs overlap it.
Shortens ==
    \A r \in Runs :
        /\ ToDo(r) \in 0..20
        /\ Active(r) => ToDo(r)' <= ToDo(r)
        /\ Step(r) \/ Consent(r) => ToDo(r)' < ToDo(r)
RunsAreShort == [][Shortens]_vars
THEOREM RunsAlwaysShort == Spec => RunsAreShort
<1>1. ASSUME TypeOK, Next PROVE Shortens
    <2> SUFFICES ASSUME NEW r \in Runs
                 PROVE  /\ ToDo(r) \in 0..20
                        /\ Active(r) => ToDo(r)' <= ToDo(r)
                        /\ Step(r) \/ Consent(r) => ToDo(r)' < ToDo(r)
        BY DEF Shortens
    <2>0. Rank(at[r]) \in 0..18 /\ Rank(at'[r]) \in 0..18
        BY RankType
    <2>1. built \subseteq built'
        BY <1>1, BuiltGrows
    <2>2. ToDo(r) \in 0..20
        BY <2>0 DEF ToDo, Unbuilt
    <2>3. ASSUME Step(r) \/ Consent(r) PROVE ToDo(r)' < ToDo(r)
        <3>1. CASE Rank(at'[r]) < Rank(at[r])
            BY <2>0, <2>1, <3>1 DEF ToDo, Unbuilt
        <3>2. CASE /\ at'[r] = at[r]
                   /\ \E program \in {"ds4", "dsgo"} :
                        program \notin built /\ program \in built'
            BY <2>0, <2>1, <3>2 DEF ToDo, Unbuilt
        <3> QED BY <1>1, <2>3, <3>1, <3>2, StepsShorten
    <2>4. ASSUME Active(r), ~(Step(r) \/ Consent(r)) PROVE ToDo(r)' <= ToDo(r)
        <3>1. at'[r] = at[r] \/ at'[r] = "killed"
            <4>1. CASE \E o \in Runs : Step(o) \/ Consent(o)
                <5> PICK o \in Runs : Step(o) \/ Consent(o)
                    BY <4>1
                <5>1. o # r
                    BY <2>4
                <5> QED BY <1>1, <5>1, StepMoves DEF TypeOK
            <4>2. CASE \E o \in Runs : Kill(o)
                BY <4>2 DEF Kill, Dropped
            <4>3. CASE \E o \in Runs, cmd \in Commands : Launch(o, cmd)
                BY <1>1, <2>4, <4>3 DEF Launch, Moves, Active, TypeOK
            <4>4. CASE Login \/ GatewayUp \/ GatewayDies
                BY <4>4 DEF Login, Dropped, GatewayUp, GatewayDies
            <4> QED BY <1>1, <4>1, <4>2, <4>3, <4>4, NextCases
        <3>2. Rank(at'[r]) <= Rank(at[r])
            BY <2>0, <3>1, RankType DEF Ended
        <3> QED BY <2>0, <2>1, <3>2 DEF ToDo, Unbuilt
    <2>5. Active(r) => ToDo(r)' <= ToDo(r)
        <3>1. ToDo(r)' \in 0..20
            BY <2>0 DEF ToDo, Unbuilt
        <3> QED BY <2>2, <2>3, <2>4, <3>1
    <2> QED BY <2>2, <2>3, <2>5
<1>2. ASSUME IInv, [Next]_vars PROVE [Shortens]_vars
    BY <1>1, <1>2 DEF IInv
<1> QED BY <1>2, Invariance, PTL DEF Spec, RunsAreShort
=============================================================================
