----------------------------- MODULE HostAgent -----------------------------
(***************************************************************************)
(* The Agent on a remote Linux host: the commands that NewHostAgent        *)
(* registers (components/datadog/agent/host.go), executed by the engine    *)
(* over successive updates of a stack, each with its own parameters.       *)
(*                                                                         *)
(* The commands remove the package, install it, write the configuration    *)
(* files, the integrations and other files, set permissions and restart    *)
(* the service.  The host is the packages on it, the files and what the    *)
(* running service read when it last started.                              *)
(***************************************************************************)
EXTENDS MovedFile, Integers, Sequences, SequencesExt

CONSTANTS
  CoreConfig,   \* datadog.yaml
  OtherConfig,  \* system-probe.yaml, security-agent.yaml
  UserFile,     \* paths of the integrations and of other files
  Flavor,       \* packages of the Agent
  Mode,         \* what SetupPermissionsCommand may set on a file
  Params,       \* the parameters an update may have
  Existing,     \* paths that hold a file before the program
  MaxUpdates,   \* bound: updates of the stack
  MaxFailures,  \* bound: updates that fail
  NoAgent,      \* the parameters of an update that registers no Agent
  Original,     \* content of a file that was there before
  Stopped,      \* the service is not running
  None

VARIABLES
  phase, goal, checkpoint, stale, done,  \* of the engine
  params,    \* the parameters of the current update
  packages,  \* what is installed of each flavor
  disk,      \* the paths the commands write
  loaded,    \* what the running service read of each path
  outcome,   \* how the last update ended
  restarted, \* (ghost) did the service restart in this update, or in one that failed
  hidden,    \* (ghost) a failed removal of the package passed for a success
  updates, failures  \* (bounds) how many there were

engineVars == <<phase, goal, checkpoint, stale, done>>
host == <<packages, disk, loaded>>
bounds == <<updates, failures>>
ghosts == <<restarted, hidden>>
vars == <<engineVars, params, host, outcome, ghosts, bounds>>

ConfigPath == {CoreConfig} \cup OtherConfig
Path == ConfigPath \cup UserFile

(* A path registered twice would be one urn twice, which is refused.       *)
ASSUME PathAssumption == IsFiniteSet(UserFile) /\ ConfigPath \cap UserFile = {}

ASSUME FlavorAssumption == \A pr \in Params : pr.version.flavor \in Flavor

----------------------------------------------------------------------------
(* The commands that are registered, and what they wait for.               *)

Uninstall(flavor) == <<"uninstall", flavor>>
Install           == <<"install-agent">>
Move(path)        == <<"move-file", path>>
Permissions(path, mode) == <<"set-permissions", path, mode>>
OnRemoval         == <<"running-on-intg-removal">>
Restart           == <<"running">>

Command ==
  {Install, OnRemoval, Restart}
    \cup {Uninstall(fl) : fl \in Flavor}
    \cup {Move(p) : p \in Path}
    \cup {Permissions(p, m) : p \in UserFile, m \in Mode}

(* restartAgentServices(DependsOn(h)) waits for the children of the Agent: *)
(* the commands registered with its options.  Permissions and OnRemoval    *)
(* are registered with the runner's, as children of the host.              *)
Children ==
  {Install} \cup {Uninstall(fl) : fl \in Flavor} \cup {Move(p) : p \in Path}

(* Mutants of WaitsFor: the final restart waits for the installation only; *)
(* the restart on removal waits for the Agent like the final one.          *)
WaitsForInstall(c) ==
  CASE c = Install            -> {Uninstall(fl) : fl \in Flavor}
    [] c = Restart            -> {Install}
    [] c[1] = "move-file"     -> {Install, OnRemoval}
    [] c[1] = "set-permissions" -> {Move(c[2])}
    [] OTHER                  -> {}

WaitsForAgent(c) ==
  CASE c = Install              -> {Uninstall(fl) : fl \in Flavor}
    [] c \in {Restart, OnRemoval} -> Children
    [] c[1] = "move-file"       -> {Install, OnRemoval}
    [] OTHER                    -> {}

WaitsFor(c) ==
  CASE c = Install            -> {Uninstall(fl) : fl \in Flavor}
    [] c = Restart            -> Children
    [] c[1] = "move-file"     -> IF c[2] \in UserFile THEN {Install, OnRemoval}
                                 ELSE {Install}
    [] c[1] = "set-permissions" -> {Move(c[2])}
    [] OTHER                  -> {}

DependsOn == [c \in Command |-> WaitsFor(c)]

(* MoveFile is registered with DeleteBeforeReplace, and its source has a   *)
(* random name: CopyInlineFile writes a new temporary file in each run.    *)
Moves == {Move(p) : p \in Path}

Engine == INSTANCE PulumiEngine
            WITH Resource <- Command, DeleteFirst <- Moves, AlwaysNew <- Moves

----------------------------------------------------------------------------
(* The inputs of the commands, from the parameters of the update.          *)

(* The part of the version that the install script is called with.         *)
InstallScript(v) ==
  IF v.pipeline # "" THEN <<v.pipeline, v.major, v.flavor>>
  ELSE <<v.major, v.minor, IF v.channel = "stable" THEN "" ELSE v.channel, v.flavor>>

(* Mutant: the minor version is not a trigger.                             *)
MajorTriggers(v) == <<v.major, v.pipeline, v.flavor, v.channel>>

VersionTriggers(v) == <<v.major, v.minor, v.pipeline, v.flavor, v.channel>>

Wanted(pr) == {f \in UserFile : pr.files[f] # None}

(* The content that is written: datadog.yaml is merged with the extra      *)
(* configuration and the API key.                                          *)
Merged(pr) == <<pr.config[CoreConfig], pr.extra, pr.apiKey>>

Written(pr, p) ==
  IF p = CoreConfig THEN Merged(pr)
  ELSE IF p \in OtherConfig THEN pr.config[p]
  ELSE pr.files[p].content

(* The hash of the integrations and files: the names and contents, in the  *)
(* order in which the run happens to iterate over the maps.                *)
Hashes(pr) ==
  {[i \in DOMAIN order |-> <<order[i], pr.files[order[i]].content>>] :
     order \in SetToSeqs(Wanted(pr))}

(* Mutant: the configuration is not a trigger.                             *)
FileTriggers(pr, hash) == <<hash, VersionTriggers(pr.version)>>

RestartTriggers(pr, hash) == <<pr.config, hash, VersionTriggers(pr.version)>>

Inputs(pr, hash, c) ==
  CASE c[1] = "uninstall" ->
         IF c[2] = pr.version.flavor
         THEN [triggers |-> VersionTriggers(pr.version)] ELSE None
    [] c = Install ->
         [triggers |-> <<>>, script |-> InstallScript(pr.version),
          flavor |-> pr.version.flavor, apiKey |-> pr.apiKey]
    [] c[1] = "move-file" ->
         IF c[2] \in ConfigPath \cup Wanted(pr)
         THEN [triggers |-> <<>>, content |-> Written(pr, c[2])] ELSE None
    [] c[1] = "set-permissions" ->
         IF c[2] \in Wanted(pr) /\ pr.files[c[2]].mode = c[3]
         THEN [triggers |-> <<>>] ELSE None
    [] c = OnRemoval -> [triggers |-> hash]
    [] c = Restart -> [triggers |-> RestartTriggers(pr, hash)]

(* The inputs of a command that is registered are not None.                *)
ASSUME InputsAssumption ==
  \A pr \in Params : \A hash \in Hashes(pr) :
    /\ \A c \in {Install, OnRemoval, Restart, Uninstall(pr.version.flavor)} :
         Inputs(pr, hash, c) # None
    /\ \A p \in ConfigPath \cup Wanted(pr) : Inputs(pr, hash, Move(p)) # None

Goal(pr, hash) ==
  [c \in Command |-> IF pr = NoAgent THEN None ELSE Inputs(pr, hash, c)]

----------------------------------------------------------------------------
(* What the commands do to the host.                                       *)

Installed == \E fl \in Flavor : packages[fl] # None

RemovePackage(flavor) ==
  /\ packages' = [packages EXCEPT ![flavor] = None]
  /\ loaded' = IF packages[flavor] # None THEN Stopped ELSE loaded
  /\ UNCHANGED disk

(* DD_INSTALL_ONLY: the package is installed and the service not started.  *)
InstallPackage(in) ==
  /\ packages' = [packages EXCEPT ![in.flavor] = in.script]
  /\ UNCHANGED <<disk, loaded>>

(* Mutant: an option that is not set is used as the mode.                  *)
ChangeModeUnset(p, mode) ==
  /\ Exists(disk[p].dest)
  /\ disk' = [disk EXCEPT ![p] = SetMode(@, None)]
  /\ UNCHANGED <<packages, loaded>>

(* chmod fails on a missing file.                                          *)
ChangeMode(p, mode) ==
  /\ Exists(disk[p].dest)
  /\ disk' = [disk EXCEPT ![p] = SetMode(@, mode)]
  /\ UNCHANGED <<packages, loaded>>

WritePath(p, path) ==
  /\ disk' = [disk EXCEPT ![p] = path]
  /\ UNCHANGED <<packages, loaded>>

(* `systemctl restart' fails when there is no service.                     *)
RestartService ==
  /\ Installed
  /\ loaded' = [p \in Path |-> disk[p].dest.content]
  /\ UNCHANGED <<packages, disk>>

(* The create command of c; OnRemoval has none.                            *)
RunCreate(c, in) ==
  \/ c[1] = "uninstall" /\ RemovePackage(c[2])
  \/ c = Install /\ InstallPackage(in)
  \/ c[1] = "move-file" /\ WritePath(c[2], MoveFileCreate(disk[c[2]], in.content))
  \/ c[1] = "set-permissions" /\ ChangeMode(c[2], c[3])
  \/ c = Restart /\ RestartService
  \/ c = OnRemoval /\ UNCHANGED host

(* The delete command of c; only these commands have one.                  *)
RunDelete(c) ==
  \/ c[1] = "move-file" /\ WritePath(c[2], MoveFileDelete(disk[c[2]]))
  \/ c[1] = "set-permissions" /\ ChangeMode(c[2], "default")
  \/ c = OnRemoval /\ RestartService
  \/ /\ c[1] = "uninstall" \/ c \in {Install, Restart}
     /\ UNCHANGED host

----------------------------------------------------------------------------
Init ==
  /\ Engine!EngineInit
  /\ params = NoAgent
  /\ packages = [fl \in Flavor |-> None]
  /\ disk = [p \in Path |->
               Untouched(IF p \in Existing THEN File(Original, "default") ELSE Missing)]
  /\ loaded = Stopped
  /\ outcome = "none"
  /\ restarted = "no"
  /\ hidden = FALSE
  /\ updates = 0
  /\ failures = 0

Deploy(pr) ==
  /\ updates < MaxUpdates
  /\ updates' = updates + 1
  /\ \E hash \in IF pr = NoAgent THEN {<<>>} ELSE Hashes(pr) :
       Engine!Begin(Goal(pr, hash))
  /\ params' = pr
  /\ outcome' = "running"
  /\ restarted' = IF restarted = "stray" THEN "stray" ELSE "no"
  /\ UNCHANGED <<host, hidden, failures>>

KeepCommand(c) ==
  /\ Engine!Keep(c)
  /\ UNCHANGED <<host, params, outcome, ghosts, bounds>>

CreateCommand(c) ==
  /\ Engine!Create(c) \/ Engine!Replace(c)
  /\ RunCreate(c, goal[c])
  /\ restarted' = IF c = Restart THEN "yes" ELSE restarted
  /\ UNCHANGED <<params, outcome, hidden, bounds>>

(* Without an Update of its own, a command that changes in place runs its  *)
(* Create again.                                                           *)
UpdateCommand(c) ==
  /\ Engine!Update(c)
  /\ RunCreate(c, goal[c])
  /\ UNCHANGED <<params, outcome, ghosts, bounds>>

DeleteOldCommand(c) ==
  /\ Engine!DeleteOld(c)
  /\ RunDelete(c)
  /\ UNCHANGED <<params, outcome, ghosts, bounds>>

StartDeletes ==
  /\ Engine!StartDeletes
  /\ UNCHANGED <<host, params, outcome, ghosts, bounds>>

(* Commands that cannot succeed: a restart when an earlier update removed  *)
(* the package and did not install it again, and the reset of permissions  *)
(* of a file that is gone.                                                 *)
CreateRefused(c) ==
  /\ c = Restart /\ ~Installed
  /\ Engine!Ready(c)
  /\ checkpoint[c] = None \/ Engine!MustReplace(c)

DeleteRefused(x) ==
  /\ \/ x[1] = OnRemoval /\ ~Installed
     \/ x[1][1] = "set-permissions" /\ ~Exists(disk[x[1][2]].dest)
  /\ Engine!Deletable(x)

CommandRefused ==
  /\ CreateRefused(Restart) \/ \E x \in Engine!Condemned : DeleteRefused(x)
  /\ Engine!Abort
  /\ outcome' = "failed"
  /\ restarted' = IF restarted = "yes" THEN "stray" ELSE restarted
  /\ UNCHANGED <<host, params, hidden, bounds>>

DeleteCommand(x) ==
  /\ Engine!Delete(x)
  /\ RunDelete(x[1])
  /\ restarted' = IF x[1] = OnRemoval /\ restarted = "no" THEN "yes" ELSE restarted
  /\ UNCHANGED <<params, outcome, hidden, bounds>>

EndUpdate ==
  /\ Engine!EndUpdate
  /\ outcome' = "ok"
  /\ UNCHANGED <<host, params, ghosts, bounds>>

----------------------------------------------------------------------------
(* Failures.  A command may fail or be cut off without having acted ...    *)
Fail(now) ==
  /\ Engine!Abort
  /\ outcome' = "failed"
  /\ restarted' = IF now THEN "stray" ELSE restarted
  /\ failures < MaxFailures
  /\ failures' = failures + 1
  /\ UNCHANGED <<params, hidden, updates>>

FailBefore ==
  /\ Fail(restarted = "yes")
  /\ UNCHANGED host

(* ... or after it acted, before the engine recorded it.                   *)
FailAfterCreate(c) ==
  /\ Engine!Ready(c)
  /\ \/ checkpoint[c] = None
     \/ Engine!MustUpdate(c)
     \/ Engine!MustReplace(c) /\ c \notin Moves
  /\ RunCreate(c, goal[c])
  /\ Fail(restarted = "yes" \/ c = Restart)

FailAfterDelete(x) ==
  /\ \/ Engine!Deletable(x)
     \/ x[1] \in Moves /\ Engine!Ready(x[1]) /\ Engine!MustReplace(x[1])
        /\ x[2] = checkpoint[x[1]]
  /\ RunDelete(x[1])
  /\ Fail(restarted = "yes" \/ x[1] = OnRemoval)

(* A removal that fails, having stopped the service or not, succeeds all   *)
(* the same: its command ends in `|| exit 0'.                              *)
HideRemoval(flavor) ==
  /\ Engine!Create(Uninstall(flavor)) \/ Engine!Replace(Uninstall(flavor))
  /\ packages[flavor] # None
  /\ loaded' \in {loaded, Stopped}
  /\ hidden' = TRUE
  /\ failures < MaxFailures
  /\ failures' = failures + 1
  /\ UNCHANGED <<packages, disk, params, outcome, restarted, updates>>

----------------------------------------------------------------------------
InState == stale \cup {<<c, checkpoint[c]>> : c \in {d \in Command : checkpoint[d] # None}}

Step ==
  \/ \E c \in Command : KeepCommand(c)
  \/ \E c \in Command : CreateCommand(c)
  \/ \E c \in Command : UpdateCommand(c)
  \/ \E c \in Command : DeleteOldCommand(c)
  \/ StartDeletes
  \/ \E x \in Engine!Condemned : DeleteCommand(x)
  \/ CommandRefused
  \/ EndUpdate

Next ==
  \/ \E pr \in Params \cup {NoAgent} : Deploy(pr)
  \/ Step
  \/ FailBefore
  \/ \E fl \in Flavor : HideRemoval(fl)
  \/ \E c \in Command : FailAfterCreate(c)
  \/ \E x \in InState : FailAfterDelete(x)

Spec == Init /\ [][Next]_vars

(* The engine executes what is ready, and what is refused fails.           *)
FairSpec == Spec /\ WF_vars(Step)

----------------------------------------------------------------------------
(* Properties.                                                             *)

AnyContent(p) ==
  {Written(pr, p) : pr \in {q \in Params : p \in ConfigPath \cup Wanted(q)}}
    \cup {Original, NoFile}

AnyFile(p) == [content : AnyContent(p), mode : Mode \cup {"default"}]

TypeOK ==
  /\ phase \in {"idle", "steps", "deletes"}
  /\ done \subseteq Engine!Registered
  /\ params \in Params \cup {NoAgent}
  /\ packages \in [Flavor -> {InstallScript(pr.version) : pr \in Params} \cup {None}]
  /\ \A p \in Path : disk[p] \in [dest : AnyFile(p), backup : AnyFile(p)]
  /\ loaded # Stopped => \A p \in Path : loaded[p] \in AnyContent(p)
  /\ outcome \in {"none", "running", "ok", "failed"}
  /\ restarted \in {"no", "yes", "stray"}
  /\ hidden \in BOOLEAN

(* When an update is over, the service, if it runs, has read the contents  *)
(* that are at its paths, whatever failed in this update or in earlier     *)
(* ones, unless one that failed restarted it: then its triggers are those  *)
(* it was recorded with and it may not be restarted again (the triggers of *)
(* installAgent's restart, and the restart on removal of                   *)
(* installIntegrationConfigsAndFiles, after the files are removed).        *)
ConfigurationLoaded ==
  outcome = "ok" /\ params # NoAgent /\ loaded # Stopped /\ restarted # "stray" =>
    \A p \in Path : loaded[p] = disk[p].dest.content

(* An update never leaves another version of the package than the one it   *)
(* asked for, even when an earlier update failed between removing and      *)
(* installing it (ensureAgentUninstalled: the triggers on the version),    *)
(* unless a removal failed unnoticed.                                      *)
NoOtherVersion ==
  outcome = "ok" /\ params # NoAgent /\ ~hidden =>
    packages[params.version.flavor] \in {None, InstallScript(params.version)}

(* The service is only started when everything the update asks for is      *)
(* written, and when it is restarted because of a removal, everything that *)
(* was to be removed is gone (DependsOn(h), and the integrations' DependsOn*)
(* on the restart on removal).                                             *)
StartedLast ==
  [][loaded' # loaded /\ loaded' # Stopped =>
       /\ \A p \in Path :
            goal[Move(p)] # None => disk[p].dest.content = goal[Move(p)].content
       /\ phase = "deletes" =>
            \A f \in UserFile : goal[Move(f)] = None => checkpoint[Move(f)] = None
    ]_vars

(* When an update is over, the files have the permissions asked for        *)
(* (WithFileWithPermissions).                                              *)
PermissionsSet ==
  outcome = "ok" /\ params # NoAgent =>
    \A f \in Wanted(params) :
      params.files[f].mode # None => disk[f].dest.mode = params.files[f].mode

(* When an update is over, the Agent it asked for is installed and runs    *)
(* (NewHostAgent).                                                         *)
AgentRuns ==
  outcome = "ok" /\ params # NoAgent =>
    /\ packages[params.version.flavor] = InstallScript(params.version)
    /\ loaded # Stopped

(* When an update is over, the service runs with the configuration that    *)
(* the update wrote.                                                       *)
CoreConfigLoaded ==
  outcome = "ok" /\ params # NoAgent /\ loaded # Stopped =>
    loaded[CoreConfig] = Merged(params)

(* An update that is not interrupted comes to an end: no command waits for *)
(* itself through the restarts.                                            *)
UpdateEnds == phase # "idle" ~> phase = "idle"
=============================================================================
