# Formal models of test-infra-definitions

The repository deploys test infrastructure with Pulumi: a Go program registers resources and remote
commands, and the Pulumi engine carries them out against the checkpoint of a stack. Little of the
program runs concurrently in the ordinary sense. What is hard is what happens *across updates*:
commands that are replaced, run again, or fail half way on hosts that keep their state; the order in
which the engine runs commands that only some dependencies tie together; and values computed while
the program runs and used by the engine later. That is what is modelled here, in TLA+, checked
with TLC and proved with TLAPS for all values of the constants.

There are two kinds of models. `FileManager`, `HostAgent`, `MicroVMNetwork`, `DomainPlan` and `Logger`
look at one mechanism closely. `Stack` looks at all of the program at once: each function that
registers resources is an operator that returns the resources it registers, with what each waits for,
makes and refers to; a scenario is a function from a configuration to such a set; and a stack goes
through deploys, changes of configuration and destroys of it.

## The parts of the system

| Part | State it keeps | Operations | What is hard | What makes it correct | Modelled |
|---|---|---|---|---|---|
| Remote files: `components/command/filemanager.go`, `unixOSCommand.go` | files on the host, backups, temporary files | `CopyInlineFile`, `copyRemoteFile`, `MoveFile` create/delete, `CreateDirectory`, `CopyFSFolder` | create and delete commands run twice; a `mv` without its `cp`; delete-before-replace | originals survive and come back; contents end up in place | `MovedFile`, `ManagedFile`, `FileManager` |
| Command runners: `runner.go`, `osCommand.go`, `script.go` | none; options and connection | `Command`, `newCopyFile` | which component a command is a child of decides what waits for it | commands have their dependencies | within the other modules |
| Pulumi engine (external) | checkpoint | create, update, replace, delete steps | order; failures; what is recorded | (assumed) | `PulumiEngine` |
| Host Agent: `components/datadog/agent/host*.go`, `agentparams/` | package, configuration, files, permissions, running service | `NewHostAgent` and the commands it registers | stale triggers; partial failures; restarts at the right moment | the running Agent has what the last update asked for | `HostAgent` (Linux) |
| Micro-VM networks: `microvms/network.go`, `libvirt.go` | subnets, libvirt networks | `BuildVMCollections`, `getMicroVMGroupSubnet`, `generateNetworkResource` | look now, create later; several groups on one machine | no two networks on one subnet | `MicroVMNetwork` |
| Micro-VM domains: `microvms/domain.go`, `libvirt.go` | CPU pins, gdb ports, addresses, VMs | `getCPUTuneXML`, `GenerateDomainConfigurationsForVMSet`, `LaunchVMCollections` | counters that wrap; map order; ports that are free only now | pins spread, ports and addresses distinct and stable | `DomainPlan` |
| Micro-VM file systems and launch: `libvirt_fs.go`, `pool.go`, `volume.go`, `provision.go`, `run.go` | images, pools, volumes | downloads, extraction, provisioning | missing dependencies; images shared by VM sets | a VM starts when its image is there; a volume is created once | `MicroVMLaunch` |
| Package managers: `components/os/*packagemanager*.go` | chain of dependencies, update command | `Ensure`, `EnsureUninstalled`, `updateDB` | commands must not run in parallel | one package command at a time | `HostResources`; `HostAgent` |
| Docker manager: `components/docker/component.go` | compose files, containers | `ComposeFileUp`, `ComposeStrUp`, `install` | which options reach which command | containers start when docker, compose and their files are there | `HostResources` |
| Hosts: `components/remote`, `resources/*/{ec2,compute}`, `scenarios/*/…/vm.go` | machines | `NewVM` of each cloud, `InitHost` | what waits for the machine, and what the machine's deletion waits for | commands find their machine, on the way up and on the way down | `CloudHosts` |
| Agents on Windows and macOS, docker Agent, updater, Active Directory, IIS, fake intakes on a machine | commands | `NewHostAgent`, `NewDockerAgent`, `NewHostUpdater`, `NewActiveDirectory`, `NewServer`, `NewVMInstance` | parents and options; reboots | as above | `CloudHosts` |
| Kubernetes clusters and add-ons: `components/kubernetes`, `scenarios/*/{eks,aks,gke}` | commands on a host, cloud clusters, node groups, releases | `NewKindCluster`, `NewOpenShiftCluster`, `NewCluster`, … | binaries, kubeconfigs and clusters in the right order | each command finds what it runs | `KubernetesClusters` |
| Agents and operator on Kubernetes, CSI driver, standalone DogStatsD | namespaces, secrets, releases | `NewHelmInstallation`, `NewOperator`, `NewDDAWithOperator`, … | namespaces and definitions that others use; one way of installing replaced by another | what is referred to exists; nothing of others goes away | `KubernetesAgent` |
| Test applications: `apps/*` | namespaces, workloads, definitions of metrics and scalers | `K8sAppDefinition`, `EcsAppDefinition`, … | API versions; definitions that the Agent brings | each object is one the cluster knows | `KubernetesApps`, `EcsResources` |
| ECS: `resources/aws/ecs`, `scenarios/aws/{ecs,fakeintake}` | clusters, services, load balancers, parameters | `NewCluster`, `NewECSFargateInstance`, … | services and what they are reached through | as above | `EcsResources` |
| Environment: `common/config`, `resources/*/environment.go` | configuration of a stack | getters with defaults | defaults of clouds and accounts; values that are ignored | — | `Environment` |
| Scenarios: `scenarios/*/run.go`, `registry` | none | `Run` | components that have to wait for one another, in every configuration | all of the above, together | `Scenarios`, `Stack` |
| Python tasks: `tasks/deploy.py`, `destroy.py` | stacks | `_deploy`, `destroy` | a failed destroy run again | what is created can be destroyed | `Stack` |
| Logger: `apps/logger/images/logger/main.go` | connection | `Connect`, `handleRequest`, shutdown | concurrent first requests; messages that cannot be decoded | answers say what was written; one connection | `Logger` |
| Agent parameters: `agentparams/params.go`, `version.go` | parameters of an update | options | options override each other | the version asked for is installed | constants of `HostAgent` |
| Naming, hashes, YAML: `common/namer`, `common/utils` | none | `ResourceName`, `DisplayName`, `StrHash`, `MergeYAMLWithSlices` | truncation, collisions | names unique and short enough | no (functions on strings) |
| Setup and local configuration: `tasks/setup.py`, `config.py`, … | files of the developer | prompts | — | — | no (dialogue) |

How they interact: a scenario builds a remote host, its runner, its file manager, package manager and
service manager; `NewHostAgent` calls all of these, and each call registers commands with the engine.
The calls of one run of the program are sequential. From then on the only interaction is through the
engine (dependencies, triggers, the checkpoint) and through the state of the hosts. The micro-VM
scenario also reads the state of the machine it runs on (interfaces, ports) while it registers
resources, which is the one place where two stacks that are updated at the same time interfere.

## Modules

- `MovedFile` — what the shell commands of `unixOSCommand.MoveFile` do to a path and its backup, as
  operators. Used by `FileManager` and `HostAgent`.
- `ManagedFile` — the abstract promise: a path shows what was there, nothing, or a content of the
  program, and never goes from one content to another or over an original directly.
- `FileManager` — `CopyInlineFile`, `copyRemoteFile` and `MoveFile` over any number of updates. Each
  path goes through the stages `temp` (copy to the temporary directory), `replace` (delete command of
  the recorded `MoveFile`), `move` and `copy` (the two halves of its create command), or `remove`.
  `recorded` is the checkpoint. `Interrupt`, `CopyUnsaved` and `DeleteUnsaved` are the ways an update
  stops: before a command acts, or after it acted (or half acted) and before that was recorded.
- `PulumiEngine` — the engine as the program relies on it: creates, updates and replacements once
  what they depend on is over, then deletions, dependents first; `DeleteBeforeReplace`; triggers that
  replace and other inputs that run the create command again; a failed step ends the update.
- `HostAgent` — instantiates `PulumiEngine` with the commands of `NewHostAgent`: `uninstall-<flavor>`,
  `install-agent`, one `move-file` per configuration file, integration or other file,
  `set-permissions`, the restart on removal and the final restart. `WaitsFor` are the dependencies,
  `Inputs` the triggers and other inputs, `RunCreate` and `RunDelete` the effects on the host. The
  random order of maps shows in `Hashes`; the temporary file's random name in `AlwaysNew`.
- `MicroVMNetwork` — the choice of subnets (`plan`) and what the engine and libvirt make of it
  (`apply`, `delete`), for several groups at once. A group is one collection of one stack; a stack
  with several architectures has one collection on each of its machines.
- `DomainPlan` — one group: vCPU by vCPU, the pins; VM by VM, the gdb port; the addresses; then
  replacement, start and removal of VMs.
- `ResourceGraph` — what a program registers: a resource has a urn, the urns it waits for (`after`: its
  dependencies, its parent, and for a component those of its children), the objects it makes (`makes`),
  those it refers to by a name only (`needs`), and those that stay when it is deleted (`keeps`). An
  object is outside of the engine: a file or package on a machine, a namespace, the definition of a
  kind, a volume. `Before` is the closure of `after`; `Contents` is what goes away with a namespace, a
  machine or a definition.
- `HostResources`, `CloudHosts`, `KubernetesClusters`, `KubernetesAgent`, `KubernetesApps`,
  `EcsResources`, `MicroVMLaunch` — one operator per function of the code that registers resources; it
  returns them as a set. The chain of the package manager is carried in the machine (`After`).
- `Environment` — the getters of the configuration; `Scenarios` — the `Run` functions on them.
- `Stack` — the engine and the tasks over such programs: `Deploy`, `Destroy` and `RetryDestroy` begin
  an update; `Keep`, `Create`, `Refuse` and `Stop` are its steps while what is registered is created
  or changed in any order that `after` allows; `Delete` takes away what is not registered any more,
  dependents first. `Refused` says when a provider or a command says no: a needed object is missing,
  or one that can be made only once is there already. `PulumiEngine` has replacement and triggers,
  for the commands of one machine; `Stack` has many programs and the objects they share.
- `Logger` — one action per step of a request's goroutine between which others may run; `stdout`,
  `stderr` and `connected` are the fields of `loggerHandler`, and `conn` is that of its dialer (`t.c`,
  `u.c`), which every `Dial` assigns and then reads again for each of the two writers that it returns
  (`Dial`, `ReturnStdout`, `ReturnStderr`). A dial that fails may leave `conn` nil (`DialFails`).
- `MC*` — the small instances. `*Proofs` — the theorems and their proofs: one module for each of the
  six models, `ResourceGraphProofs` for what `Before` means, which `StackProofs` rests on, and
  `HostResourcesProofs` for what the functions that register resources return: the chain of the
  package manager, the commands of the docker manager, the images and volumes of micro-VMs.

Definitions keep the names of the code where there is one. Operators marked "Mutant" are variants of
the definition after them, each a plausible bug that some property must catch.

## Runs

| Run | Instance | Shows |
|---|---|---|
| `FileManager` | 2 paths, 2 contents, any number of updates and failures (289,600 states) | `OriginalKept`, `InPlace`, `NothingLeftBehind`, refinement of `ManagedFile`, `UpdateEnds` |
| `HostAgent` | datadog.yaml and 2 files, 4 sets of parameters (configuration, version, files, permissions change) and none, 3 updates, 1 failure (100,063 states) | `ConfigurationLoaded`, `NoOtherVersion`, `StartedLast`, `UpdateEnds` |
| `MicroVMNetwork` | 2 local groups, 2 VM sets, 4 subnets, any number of updates (153,399 states) | `SubnetsDistinct`, `SerialNeverRefused`, `UpdateEnds` |
| `DomainPlan` | 3 VMs with 1 or 2 vCPUs in 1 or 2 sets, 3 CPUs, 5 ports of which 1 busy, addresses modulo 4 (15,505 states) | `PinsSpread`, `SingleSetStarts`, `AddressesDistinct`, `SameHost`, `UpdateEnds` |
| `Stack` | 47 configurations of 28 stacks, 2 updates (or 1 and a destroy with its retry), 1 failure in the smaller ones (36,134 states) | `InPlace`, `Served`, `BuiltOnce`, `PackagesSerial`, `OthersKept`, `NothingLeft`, `Destroyed`, `EveryUpdateEnds` |
| `Logger` | 3 requests (the one of `--data`, one with a message that cannot be decoded, one of any method and body), 3 connections that may be refused, or a file (219,784 states) | `WritersReady`, `AnswersMatch`, `Settled`, `Terminates`, `Answered` |
| `StackNoAgent` | the configurations of `Stack` | `MetricsDefined` is violated |
| `HostAgentPermissions` | as `HostAgent`, no failure | `PermissionsSet` is violated |
| `HostAgentExtraConfig` | only the extra configuration changes, no failure | `CoreConfigLoaded` is violated |
| `HostAgentReverted` | as `HostAgent`, 1 failure | `AgentRuns` is violated |
| `MicroVMNetworkRemoved` | 1 remote group | `NoConflict` is violated |
| `MicroVMNetworkDrift` | 1 local group | `SameAddresses` is violated |

### Bounds and why they are enough

- `FileManager` has no bound on updates or failures: all its variables are finite. Paths interact only
  through "deletions come last", for which two are enough; two contents tell an old one from a new one.
- `HostAgent` counts updates (`MaxUpdates`) and failures (`MaxFailures`), since the engine's `stale`
  set and the parameters would make the graph too large. Three updates are: install, change, change
  back or on. With one failure every command can fail in every update before or after it acted. The
  same invariants and `StartedLast` also hold with 4 updates and 2 failures on a single file.
  Deadlock is not checked in this module's runs, since nothing happens after the last update.
- `MicroVMNetwork`: 4 subnets for 4 possible networks make subnets run out, since an update wants new
  ones while the old ones exist. The configurations add a set before another and remove it.
- `DomainPlan`: 3 CPUs make the assignment wrap; 5 ports, one busy, run out; `Width` = 4 makes an
  address wrap. The VMs of a set are not listed in the order of their ids, so that the sort matters.
- `Stack`: two updates are all pairs of configurations of a scenario, each also followed by a destroy
  and its retry. A stack of up to `Tiny` = 6 resources takes its steps in every order; a larger one in
  one order out of many, what is unchanged first, since dozens of resources have too many orders. What an
  order can change is covered otherwise: `InPlace`, `BuiltOnce` and `PackagesSerial` look at the
  program as a whole and not at an order, and the theorems `MakersComeFirst`, `RedeployServed`,
  `PackageCommandsAlone` and `ServedAlways` (below) show what they mean for every order and any number
  of updates. `Served` is evaluated on every step that is possible in a state. A stack of up to
  `Small` = 16 resources may also be stopped after any of its steps. `ResourceGraph` has sets: two
  components that register exactly the same resource count as one.
- `Known` in `MCStack` lists the steps that are known to fail, each with the line of the code that
  makes it fail; `InPlace`, `Served`, `PackagesSerial` and `OthersKept` hold for all others. They are,
  besides the finding below: the DatadogAgent that does not wait for the operator; `kind create
  cluster` run again for another version next to the old cluster; `docker run --name fakeintake` run
  again for another retention period next to the old container; the allowlist of Autopilot that is
  not waited for; volumes of images that are not compressed, and of images shared by VM sets, which
  are named after the set that a map lists first; memory pools of two hosts that have one urn; Active
  Directory and IIS on one machine, which both register the wait for its reboot; and the machines of
  Azure, whose address is that of an interface that is there before, so that a destroy may delete a
  machine before the commands that undo what was done on it. No comment in the code promises
  otherwise, so that they are exceptions and not violation runs. `OthersKept` also leaves out a change
  from one way of installing the Agent in a cluster to another: both have the namespace under a urn of
  their own, and the deletion of the old one takes the contents of the new one with it.
  The versions of Kubernetes are 20 and 32 for kind, 22 and 32 for EKS: the last ones without
  `policy/v1` (21) and without `autoscaling/v2` (23), and one that no longer has the betas (25, 26).
- `Logger`: three requests are two that race to connect and one that comes before, between or after.
  A nil writer takes two: one that has connected, and one whose dial is refused before the first returns.

### Fairness

`UpdateEnds` assumes that the program and the engine go on with a step that stays possible (weak
fairness of `Step`; in `FileManager` of each path's step and of `Finish`): the engine has no step that
waits for anything but other steps, and a command has a timeout. Nothing is assumed of users (new
updates), of failures, or of other groups. In `MicroVMNetwork` fairness is per group, since each group
is a process of its own.

`EveryUpdateEnds` of `Stack` assumes the same of the engine's steps, and that `destroy.py` runs the
second `pulumi destroy` once the first has failed. `Logger` assumes that the goroutine of a request
goes on (`Handle`), which includes that a write does not block for ever, and that the ten seconds of
`Shutdown` end (`Exit`). Nothing is assumed of clients — the body of a request may never come, which is
why `ReadBody` is not fair and `Answered` begins after it — of signals, or of `ListenAndServe`.

### Disagreements

The six violation runs show where the code does something else than a comment or the documentation
says. Each is in `PROJECT.json`, with the line and the quotation:

1. Permissions set with `WithFileWithPermissions` are lost in the next update, since the file is
   replaced in each update and `set-permissions` is not.
2. A change of only the extra configuration (or the API key) is written to datadog.yaml and does not
   restart the Agent: the trigger is the configuration before the merge.
3. An upgrade that fails between the removal and the installation, followed by an update with the old
   version, leaves no Agent: `install-agent` is unchanged and not run.
4. A remote group's subnets are chosen by the interfaces of the machine that runs the program: after
   a VM set is removed, another is moved to its subnet and refused.
5. A local group's own bridges count as taken, so that an update that changes nothing moves the group
   to other subnets.
6. Without the Agent (`ddagent:deploy=false`) the kind scenario still asks for autoscaling by Datadog
   metrics: redis and nginx register a DatadogMetric, whose definition comes with the Agent only.

## Proofs

The theorems hold for every value of the constants that satisfies the named assumptions of the
module, and have no other hypothesis than those given here.

**`FileManager`**: `TypeOK`, `OriginalKept`, `InPlace`, `NothingLeftBehind` and the refinement of
`ManagedFile`. The inductive invariant is `IInv` = `TypeOK`, `Placement` and `Progress`.
`OriginalKept` alone is not inductive: that a `mv` does not overwrite the backup with a file of the
program follows from what `Placement` says of every path — with a record, the program's file is at
the path and the original at the backup path; without one, the original is at the path, or has just
been moved aside — and from `Progress`, which says that a create command only runs for a path
without a record. The refinement maps each step that shows a difference on the host to `Hide`,
`Show`, `Reveal` or `GiveUp`, and all others to a stutter. From `ContentAssumption`: the original,
the torn copy and "no file" are not contents the program writes.

**`HostAgent`**: `TypeOK`, `NoOtherVersion`, `ConfigurationLoaded` and `StartedLast`, for any
parameters, flavors and files, and any number of updates and failures. What the host holds is related
to what the stack has recorded, since that is what the engine compares the next update with:
`Versions` (a package that is there is of the version that its removal is recorded with, unless a
removal failed unseen), `Restarted` (a service that runs has read what the last recorded restart was
registered for, unless the restart on removal has started it since), `Moved` (what is done holds what
was asked for). Files that were removed are the hard part: `Watched` says that no file is in the stack
without a restart on removal that covers it, unless such a restart is still to run, and `Unwatched`
that a running service has read every other path as it is. `Recorded`, `Goals` and `Phases` tie the
engine's state to the parameters.
- `UpdatesNeverStuck`: until all that an update registers is done some command is ready, and as long as
  something is to be deleted something may be. The dependencies go both ways in the code (files wait for the
  restart on removal, the final restart waits for files), so that a circle would be easy to make; each
  command has a `Stage`, and waits for earlier stages only, also in the mixture of
  versions that deletions see. This is the safety half of `UpdateEnds`.
- `ConfigurationLoaded` is proved (`AllLoaded`) for parameters of which two with the same configuration
  have the same extra configuration and API key; without that hypothesis it is false, which is what the
  run `HostAgentExtraConfig` shows. `FilesLoaded` is the part that needs no such hypothesis: every
  path but that of datadog.yaml.
- From `PathAssumption` (there are finitely many files, and none is one of the Agent's own
  configuration), `FlavorAssumption` (the flavors asked for are flavors) and `InputsAssumption` (the
  inputs of a command that is registered are not `None`). TLC evaluates them in each run.

**`MicroVMNetwork`**: `TypeOK`, `SubnetsDistinct`, `SerialNeverRefused`. `IInv` adds `Alone` (an update
that no other overlapped is the only one), `Clear` (then the subnet picked for a set is on no local
network but, once created, the set's own) and `AllPicked` (nothing is created before it has a
subnet). From `NetworkAssumption`: local groups are groups, subnets are numbered.

**`DomainPlan`**: `TypeOK`, `PinsSpread`, `SingleSetStarts`, `AddressesDistinct`, `SameHost`. `IInv` adds
`AtRest` (what is forgotten between updates), `Balanced` (each CPU but 0 has been handed out as often
as the last one, and once more before the next one), `Clear` (a planned port is planned once and no
other VM has it) and `AllPlanned`. For the addresses the invariant is `Ranked`: the address of a VM is
one more than the number of VMs of the set it had then whose id is not greater than its own
(`HostIsRank`, by a bijection between those VMs and a prefix of the sorted sequence). That does not
mention an order of the maps, hence `SameHost`; and two VMs of one set have two such numbers, which do
not wrap around in a set that fits, hence `AddressesDistinct`. From `DomainAssumption`.

**`ResourceGraph`**, for any finite set of resources that wait for what is in it (`SelfContained`):
`Before` is a recursive function over sets of urns. `BeforeLeast` shows that it is
the least set that has what a resource waits for and is closed under dependencies, by taking, of the
sets for which it would not be, one with the fewest urns missing. `OneComesFirst` and `LongerChain`
follow from it.

**`Stack`**, for any programs that wait for what they register (`ProgramAssumption`) and register
nothing for an empty stack (`NothingAssumption`):
- `TypeOK`, `Destroyed`. `Inductive` adds what the engine guarantees for any programs:
  `DependenciesLive` (the dependencies of what is in the stack are in it), `Owned` (what is there is
  made by the stack or was left by it), `Converges` (an update that is over has what its program
  registers), `DoneLive` (what an update is done with is in the stack as the program registers it),
  `OneVersion` (a urn is once in the stack, so that a replacement
  takes away all that is old), `DoneClosed` (what is done has its dependencies done), and `Destroying`
  (a destroy that runs a second time has used up a failure).
- `DeletesAreNeverStuck`: versions of resources that come from different programs never depend on each
  other in a circle (`NoCircle`, with `LiveClosed`), so that there is always one to delete.
  `CreationsAreNeverStuck` is the same for creations, of programs in which no resource waits for
  itself; TLC finds that true of every configuration of `MCStack`.
- What a run checks once for a program holds in every order of the engine's steps:
  `MakersComeFirst` (`InPlace`: a resource that is ready has in the stack, in its new version, what makes the
  objects it refers to), `PackageCommandsAlone` (`PackagesSerial`: never two package commands of one
  machine are ready), by `OrderedNeverTogether`. `RedeployServed`: a deploy of one program that stopped
  anywhere can be run again any number of times without a step being refused, if the program satisfies
  `InPlace` and `BuiltOnce` and registers no urn twice. These are implications between what is always
  true of the program and what is always true of the steps.
- `DestroyLeavesNothing` (`NothingLeft`): for a scenario whose programs leave objects behind only on
  machines that what makes them waits for, directly or not (`RestOnMachines`). The invariant is `Held`:
  what is there is made by a resource of the stack, or is on a machine of the stack, or stays for good.
  The sets that the hypothesis asks for exist for 26 of the 28 stacks of `MCStack`. The other two are
  those on Azure, where no command waits for the machine (`AzureKnown`): there `NothingLeft` holds in
  the run, and the proof does not apply.
- `OthersStay` (`OthersKept`): for a scenario in whose programs everything in a namespace, on a machine or
  of a kind waits for what makes that, through other resources or not, and in which no two resources
  make one object (`WaitForOwners`). `NoDescent`, the dual of `NoCircle`, gives the argument: of what is
  left of that on a deletion, some resource would depend on none of the rest, and so on the one that is
  deleted, which has no dependents. With the exceptions that `OthersKept` itself makes, the hypothesis
  holds for 26 of the 28 stacks; the two with micro-VMs that share a volume, or a pool's urn, are outside.
- `NoneIsMissing`: the same hypothesis without exceptions gives the invariant `AllThere`, all that the
  resources of the stack have made is there, and with `InPlace` that in any sequence of configurations
  no step is refused for an object that its program makes. `Served` checks that for two updates. The
  hypothesis holds for 23 of the 28 stacks; outside are also the two on Azure, and kind, which goes from
  one way of installing the Agent to another.
- `ServedAlways` (`Served`): adds the other half, that nothing is in the way. By `Owned` what
  is there is made by the stack or was left by a command of one of its programs (`OwnedBy`); if no
  object that can be made only once is ever left, and a urn makes the same of such objects in all
  programs (`Settled`), then what would be in the way is of a resource of the stack that is already
  registered or goes first. With `WaitForOwners`, programs that register no urn twice and programs that
  prepare what they look up (`Prepared`), no step is refused in any sequence of deploys, changes of configuration
  and destroys, in any order and wherever they stopped. TLC finds the hypotheses true of 18 of the 28
  stacks, that the theorem therefore covers without the bounds of the run. The others are the five
  outside of `WaitForOwners`; the domain controller, which registers a urn twice; and the four on Google
  Cloud, for which the conclusion is false. The command that starts their fake intake is undone by
  `docker stop`, and the stopped container keeps its name (`gcp/fakeintake/fakeintake.go:47`): a
  destroy that stops after that command, runs again and stops before the machine is deleted, followed
  by a deploy, has `docker run --name fakeintake` refused. With three updates and two failures TLC
  gives that sequence; within the bounds of the run `Served` holds of them, and `NoneIsMissing`
  covers the objects that they look up.

**`HostResources`** and **`MicroVMLaunch`**: what the functions of the code return, for any arguments
and any program that registers it. `Managed` says that of two commands of a machine's package manager one waits for
the other, and that the manager remembers all of them that count: each is a package it remembers, or
the update of the lists, which one of the packages waits for. It holds of a new machine
(`NewMachineManaged`), and `Ensure` (`EnsureKeepsManaged`), `EnsureUninstalled` and zypper's `Ensure`
(`OthersOfManager`) keep it, and so does all that is registered besides (`OthersKeepManaged`). This is why
`PackagesSerial` holds of programs however many packages they ask for, as long as the component that
asks for one is given the machine as the one before left it. `EnsureUninstalled` does not wait for the
update of the lists; that is enough because the package that made the manager run it does.
- `ManifestsInPlace`, `ComposeFileInPlace`: in any program that registers a docker manager and what is
  brought up with it, each of these commands comes after what it refers to: the package and the
  daemon's configuration before the service, and the service, docker-compose, the directory and the
  files before `docker compose up`. The argument follows the code's chain of commands to `docker-group`,
  on which `opts` depend, and takes the rest from `BeforeTransitive`. It holds whatever the caller
  passes as options; which options reach which command is what is easy to get wrong there.
- `VolumesBuiltOnce`, `DisksHaveVolumes`: pruning the images that another VM set has keeps each image in
  exactly one set, the first in the order of the map; so no volume is built twice, and every disk waits
  for the volume that it is over, whichever set builds it. The hypothesis `ImagesNamed` is that
  an image has one path and one volume and no other image of a set has that path; two kernels with one
  directory and different tags would break it, and then the code prunes a volume that a disk names. All
  collections of `MCStack` satisfy it. `ImagesExtracted`: the volume of a compressed image waits for its
  extraction; for the others this is false (`MicroVMKnown`).

**`Logger`**: `TypeOK`, `WritersReady`, `AnswersMatch` and `Settled`, for any number of requests, messages
and connections. The invariant adds that `connected` implies both writers, what the steps of `Connect`
have assigned so far, and for the shared connection that it, what `Dial` is returning and the writers
are each opened, or nil with a refused request to show for it (`Usable`). That a request was refused stays
true (`RefusedStays`), and only a request that is connecting touches the connection (`AwayConnects`), from
which `Settled` follows. From `NoneAssumption`, `StartupAssumption` and `DataAssumption`.

The proofs of steps have one case per action; `MinFree` in the modules on micro-VMs shows what `Min` of
the free subnets or ports returns.

Only model-checked: that the concrete programs satisfy `InPlace`, `BuiltOnce` and `PackagesSerial` in
all their configurations — these are facts about 47 given sets of resources, which TLC evaluates; the
theorems on `HostResources` and `MicroVMLaunch` show for which components they hold of any program —
`Served` for the stacks outside of the hypotheses of `ServedAlways`, and all liveness, which is out of
the prover's reach.

## What is assumed or left out

- The engine is modelled from how the code uses it. It creates, updates and replaces in the order of
  dependencies, then deletes in reverse (the comment at `host.go:157`); a plain `DependsOn` replaces
  nothing; `DependsOn` of a component waits for its children; a failed step starts no deletion.
  `DeletedWith` is not modelled, nor are steps that were running beside a failed one and end later.
- In `Stack` a resource is unchanged when it makes the same objects; replacement creates and deletes
  in one step, and what triggers it is in `PulumiEngine`. Objects are told apart by kind, place and
  name; the contents of manifests, charts and images only count as far as they refer to other objects.
  A pod starts, and then waits or does without, when a webhook, an operator or an injector is not there
  (`Soft`). The GPU images are assumed to have curl, which `kind.go` uses and nothing installs there.
- Values of the configuration stay from one `pulumi up` to the next when a flag is not given
  (`deploy.py`); a configuration of the model stands for all that is set after the merge. Lists of load
  balancers, subnets and prefixes that are configured are ignored by the code, and so by `Environment`
  (`GetObjectWithDefault` is given a copy to fill in).
- In `Logger` a dial that is refused beside another that succeeds may leave the handler a nil connection
  with `connected` set, and by `Settled` that is for good: every later message is lost or ends its
  request in a panic (`WritePanics`), until the container restarts. No comment or test promises
  otherwise, so that `WritersReady` says just when it can happen. A read of the connection that races
  with an assignment gives the old or the new value. The error of a write is ignored as in the code,
  so that "written" means handed to the writer and not received.
- The `mv` of `MoveFile` does not fail when the path exists (`unixOSCommand.go:111`): it is run by root in
  one directory. If it did, the shell would go on to the `cp`, and the original would be overwritten.
- `HostAgent` leaves out the commands that create the directory of a file: `mkdir -p` changes none of
  its files. `CloudHosts` has them (`WriteFile`).
- AKS is assumed to define the vertical autoscaler's kind from the start, since the programs that use it
  register nothing that does.
- Nested directories and `CopyToRemoteFile` are not modelled; installation from a local package is
  in `CloudHosts` only.
- A removal of the Agent finds the package by a command with the name of the flavor (`command -v`);
  for a flavor whose package has no such command nothing is removed. The runs have one flavor for
  which there is one. A removal that fails passes for a success (`HideRemoval`), and is counted as
  one of the failures.
- `OriginalKept` and the other properties of `FileManager` exclude a path for which a command acted
  without being recorded; then the engine runs it again and the original may really be lost.
- libvirt refuses a network whose subnet is in use on its machine, and a VM does not start when
  something listens on its gdb port. Ports that other programs use do not change in the middle of an
  update (`Busy` is a constant), and addresses of other interfaces than bridges are not modelled.
- In `DomainPlan` a VM is replaced when its port changes. In the code a change of its pins or of its
  memory replaces it as well; ports are asked for by all VM sets of a group or by none; the VM sets of
  a configuration have different VMs. Two VM sets may get the same port (`RefuseVM` is reachable), and
  a set without a number of CPUs makes the next one start at CPU 0 (`PinsSpread` excludes it).
- Not modelled at all: the naming, hashing and merging functions (string functions; a bounded check would
  restate them), XML templates, prompts and local configuration of the Python tasks, the load generators
  and the FIPS test server (requests without shared state), the registry of providers (it has a lock,
  and one goroutine that uses it), the wait for DHCP leases on macOS (it needs a model of the DHCP
  server, of which the code only shows the file it reads), and the scripts of the Windows and macOS Agents.

## Plan

Done, in this order: `MovedFile`, `ManagedFile`, `FileManager`; `PulumiEngine`, `HostAgent`;
`MicroVMNetwork`; `DomainPlan`; the resource graphs, `Scenarios` and `Stack`; `Logger`; the proofs of
`FileManager`, `MicroVMNetwork`, `DomainPlan`, `Stack` and `Logger`; those of `HostAgent`, `ResourceGraph`
and `HostResources`, the addresses of `DomainPlan`, of `Stack` what needs `Before`, then `Served` for any
updates and the components of `HostResources` and `MicroVMLaunch` for any program.

Left: changes of a machine or cluster to another one under the same stack (replacement of the machine
under its commands), with `DeletedWith`.
