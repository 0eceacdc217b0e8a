------------------------------ MODULE MCStack ------------------------------
(***************************************************************************)
(* Stacks of every scenario, under configurations that change from one     *)
(* update to the next, and programs that use the components that no        *)
(* scenario of the repository has (the ones of its users' tests do).       *)
(***************************************************************************)
EXTENDS Stack, Scenarios, TLC

CONSTANTS
  Small,  \* the size up to which a stack may fail halfway
  Tiny    \* the size up to which the steps go in any order

Default == [p \in {} |-> ""]

Set(param, value) == param :> value

Operator_   == Set("ddagent:deployWithOperator", "true")
                 @@ Set("ddagent:imagePullRegistry", "registry")
NoAgent     == Set("ddagent:deploy", "false")
SharedLB    == Set("ddinfra:env", "aws/agent-qa")
Argo        == Set("ddtestworkload:deployArgoRollout", "true")
Version(v)  == Set("ddinfra:kubernetesVersion", v)
Flavor(os)  == Set("ddinfra:osDescriptor", os)
NoWorkload  == Set("ddtestworkload:deploy", "false")
Retention(t) == Set("ddagent:fakeintakeRetentionPeriod", t)
NoDogstatsd == Set("dddogstatsd:deploy", "false")

----------------------------------------------------------------------------
(* Micro-VMs: two sets that have a disk for docker in common, one of them  *)
(* on ARM; what is kept in memory; images that are not compressed, one of  *)
(* them in the backing store of the host; and what runs on the machine of  *)
(* the developer, with Linux or macOS.                                     *)

Root(name) == [name |-> name, path |-> "/kmt/" \o name, http |-> TRUE,
               compressed |-> TRUE, pool |-> "global", mount |-> "/"]
Disk == [Root("docker.qcow2") EXCEPT !.mount = DockerMountpoint]
Uncompressed(image) == [image EXCEPT !.compressed = FALSE]

Guests(id, images, vms, nvram) ==
  [id |-> id, images |-> images, nvram |-> nvram,
   vms |-> {[id |-> id \o "-" \o v, images |-> images] : v \in vms}]

On(m, pools, sets) == [machine |-> m, pools |-> pools, sets |-> sets]

Jammy == Guests("jammy", {Root("jammy"), Disk}, {"5.4", "5.15"}, FALSE)
Focal == Guests("focal", {Root("focal"), Disk}, {"4.15"}, TRUE)
Raw   == Guests("raw", {Uncompressed(Root("raw")),
                        [Uncompressed(Root("stored")) EXCEPT !.http = FALSE, !.mount = "/mnt"]},
                {"6.1"}, FALSE)
InRAM(id) == Guests(id, {[Root(id) EXCEPT !.pool = "ram"]}, {"6.8"}, FALSE)

Bionic == Guests("bionic", {Root("bionic"), Disk}, {"4.15-hwe"}, FALSE)

Metal(name) == Machine(name, "ubuntu")
LocalLinux  == [LocalMachine EXCEPT !.os = "ubuntu"]

----------------------------------------------------------------------------
(* Programs with what the scenarios do not use.                            *)

LocalKind ==
  LET kube == KubeProvider("k8s-provider", {CommandUrn(LocalMachine, "kind-kubeconfig")})
      istio == InstallIstio({kube.urn})
      agent == HelmAgent([ns |-> "datadog", registries |-> TRUE, windows |-> FALSE,
                          autopilot |-> FALSE], {kube.urn})
      driver == CSIDriver(TRUE, {kube.urn})
      httpbin == NewHttpbinServiceInstallation({kube.urn} \cup DependsOn(istio))
  IN NewLocalKindCluster(LocalMachine, "local", {}) \cup {kube} \cup istio \cup agent
     \cup driver \cup httpbin
     \cup NewHttpbinGatewayRoutesInstallation({kube.urn} \cup DependsOn(istio \cup httpbin))
     \cup Logger("workload-logger", {kube.urn})
     \cup NpmTools("workload-npm-tools", {kube.urn})
     \cup YAMLWorkload("manifest", {kube.urn})

CiliumKind ==
  LET m    == Machine("cilium", "ubuntu")
      kube == KubeProvider("k8s-provider", KindKubeConfig(m))
  IN EC2VM(m, "", {}) \cup NewKindClusterForCilium(m, "cilium", TRUE, {}) \cup {kube}
     \cup InstallCilium({kube.urn})

(* The images with the drivers of the GPUs have curl, that nothing here    *)
(* installs.                                                               *)
GPUKind ==
  LET m == Machine("gpu", "ubuntu")
  IN {IF r.urn = Instance(m) THEN [r EXCEPT !.makes = @ \cup {Package(m, "curl")}] ELSE r :
        r \in EC2VM(m, "", {})}
     \cup NewNvkindCluster(m, "gpu", {})

LocalOpenShift == NewLocalOpenShiftCluster(LocalMachine, "crc", {})

WindowsServer == Machine("server", "windows-server")

DomainUsers(m) ==
  EC2VM(m, "", {}) \cup
  NewActiveDirectory(m, [join |-> FALSE, controller |-> TRUE, users |-> {"user1", "user2"}], {})

WebServer(m) == EC2VM(m, "", {}) \cup NewIISServer(m, {"site1", "site2"})

AgentFromFile(m) ==
  EC2VM(m, "", {}) \cup
  NewHostAgent(m, [local |-> TRUE, files |-> {"conf.d/a.yaml", "conf.d/b.yaml"},
                   permissions |-> {"conf.d/a.yaml"}, fakeintake |-> {}], {})

ComposeFile ==
  LET m == Machine("compose", "debian")
      d == Docker(m, "", {})
  IN EC2VM(m, "", {}) \cup NewManager(m, "", {})
     \cup ComposeFileUp(d, "docker-compose.yaml", {<<"Port", m.name, "80/tcp">>}, {})

OldSuse ==
  LET m == Machine("suse", "suse")
      first == EnsureByZypper(m, m.type, "curl", {})
  IN EC2VM(m, "", {}) \cup first \cup EnsureByZypper(After(m, first), m.type, "docker", {})

NodeImages2023 ==
  NewEKSCluster([podSubnets |-> TRUE, al2023 |-> TRUE,
                 groups |-> {"linux", "linux-arm", "windows"}])

ProbeTools ==
  ECS(NoWorkload) \cup NpmToolsEC2("ecs")
  \cup CpuStressFargate("ecs", FakeintakeURL("ecs", FALSE))

HyperVHost == LET m == Machine("hyperv", "windows-server") IN HyperV(m)

----------------------------------------------------------------------------
(* The configurations of each scenario, under a name.  1.20 and 1.22 are   *)
(* the last versions of Kubernetes without an API that the applications    *)
(* ask the later ones for.                                                 *)

Only == [default |-> Default]

Settings ==
  [kind |->
     [default |-> Default, operator |-> Operator_, noAgent |-> NoAgent @@ Argo,
      oldShared |-> SharedLB @@ Version(20)],
   eks |->
     [default |-> Argo, initOnly |-> Set("ddinfra:initOnly", "true") @@ SharedLB,
      v22 |-> SharedLB @@ Version(22) @@ NoDogstatsd],
   aks |-> [default |-> Default, noWorkload |-> NoWorkload],
   gke |-> [default |-> Default, noDogstatsd |-> NoDogstatsd,
            autopilot |-> Set("ddinfra:gcp/gke/enableAutopilot", "true")],
   openshift |-> [default |-> Default, retention |-> Retention("30m")],
   ecs |-> [default |-> Default, noAgent |-> NoAgent],
   vm |-> [default |-> Default, noAgent |-> NoAgent,
           updater |-> NoAgent @@ Set("ddupdater:deploy", "true")],
   otherVm |-> [windows |-> Flavor("windows-server"), mac |-> Flavor("macos") @@ SharedLB],
   docker |-> [default |-> Flavor("ubuntu"), noAgent |-> Flavor("ubuntu") @@ NoAgent],
   azure |-> [default |-> Default, windows |-> Flavor("windows-server")],
   gcp |-> [default |-> Default, noAgent |-> NoAgent],
   podman |-> Only,
   lab |-> Only]

Hosts ==
  LET metal == Metal("metal")
  IN [default    |-> <<On(metal, <<"global">>, <<Jammy, Focal>>)>>,
      otherOrder |-> <<On(metal, <<"global">>, <<Focal, Jammy>>)>>,
      raw        |-> <<On(metal, <<"global">>, <<Raw>>),
                       On(LocalLinux, <<"global">>, <<Bionic>>)>>,
      two        |-> <<On(metal, <<"global", "ram">>, <<Jammy, InRAM("ram")>>),
                       On(LocalMachine, <<"global">>, <<Focal>>)>>,
      inMemory   |-> <<On(metal, <<"ram">>, <<InRAM("a")>>),
                       On(Metal("other"), <<"ram">>, <<InRAM("b")>>)>>]

Others == {"localKind", "cilium", "gpu", "crc", "domain", "sites", "web", "agentFile",
           "compose", "suse", "nodes", "hyperv", "ecsTools"}

MCConfigs ==
  UNION {{<<scen, name>> : name \in DOMAIN Settings[scen]} : scen \in DOMAIN Settings}
  \cup {<<"microvms", name>> : name \in DOMAIN Hosts}
  \cup {<<name, "default">> : name \in Others}

(* A stack goes from one configuration of a scenario to another, if it can *)
(* without a machine or a cluster that has to be another one.              *)
MCScenario ==
  [c \in MCConfigs |->
     CASE c[1] = "sites"    -> "domain"
       [] c[1] = "ecsTools" -> "ecs"
       [] c[1] = "otherVm"  -> c[2]
       [] c = <<"gke", "autopilot">> -> "autopilot"
       [] c \in {<<"microvms", "two">>, <<"microvms", "inMemory">>} -> "twoHosts"
       [] OTHER -> c[1]]

MCNothing == <<"nothing", "default">>

Run(scen, p) ==
  CASE scen = "kind"      -> KindVM(p)
    [] scen = "eks"       -> EKS(p)
    [] scen = "aks"       -> AKS(p)
    [] scen = "gke"       -> GKE(p)
    [] scen = "openshift" -> OpenShiftVM(p)
    [] scen = "ecs"       -> ECS(p)
    [] scen \in {"vm", "otherVm"} -> VM(p)
    [] scen = "docker"    -> DockerVM(p)
    [] scen = "azure"     -> AzureVMRun(p)
    [] scen = "gcp"       -> GCPVMRun(p)
    [] scen = "podman"    -> LocalPodmanRun(p)
    [] scen = "lab"       -> InstallerLab

Other(name) ==
  CASE name = "localKind" -> LocalKind
    [] name = "cilium"    -> CiliumKind
    [] name = "gpu"       -> GPUKind
    [] name = "crc"       -> LocalOpenShift
    [] name = "domain"    -> DomainUsers(WindowsServer)
    [] name = "sites"     -> DomainUsers(WindowsServer) \cup WebServer(WindowsServer)
    [] name = "web"       -> WebServer(WindowsServer)
    [] name = "agentFile" -> AgentFromFile(Machine("host", "debian"))
    [] name = "compose"   -> ComposeFile
    [] name = "suse"      -> OldSuse
    [] name = "nodes"     -> NodeImages2023
    [] name = "hyperv"    -> HyperVHost
    [] name = "ecsTools"  -> ProbeTools

(* A resource with its sets written out, for TLC to evaluate them once.    *)
Plain(r) ==
  [urn |-> r.urn, after |-> {u : u \in r.after}, makes |-> {o : o \in r.makes},
   needs |-> {o : o \in r.needs}, keeps |-> {o : o \in r.keeps}]

MCPrograms ==
  LET Registers(c) ==
        IF c[1] = "microvms" THEN MicroVMs(Hosts[c[2]])
        ELSE IF c[1] \in Others THEN Other(c[1])
        ELSE Run(c[1], Settings[c[1]][c[2]])
  IN [c \in MCConfigs |-> {Plain(r) : r \in Registers(c)}] @@ (MCNothing :> {})

(* The LET keeps TLC from counting, for its statistics, every step of the  *)
(* evaluation of every program.                                            *)
MCProgram == LET programs == MCPrograms IN programs

----------------------------------------------------------------------------
(* What is known to fail.                                                  *)

(* The DatadogAgent, and the secrets that it comes with, do not wait for   *)
(* the operator (aws/kindvm/run.go:172-206).                               *)
OperatorKnown ==
  {<<<<"kind", "operator">>, u>> : u \in
     {<<"ConfigGroup", "DatadogAgent", "datadog/dda-with-operator">>,
      <<"dd:agent-with-operator", "Secret", "registry-credentials">>,
      <<"dd:agent-with-operator", "Secret", "datadog-credentials">>}}

(* Without the Agent, nothing defines the metrics that the applications    *)
(* register (kindvm/run.go:229 and 233).                                   *)
NoAgentKnown ==
  {<<<<"kind", "noAgent">>, <<"dd:apps", "DatadogMetric", name>>>> :
     name \in {"redis", "workload-nginx/nginx"}}

(* kind create cluster is replaced when the file changes only: another     *)
(* version of Kubernetes is another name of an image, that runs the command *)
(* again next to the cluster that there is (kind.go:112-120).              *)
KindKnown ==
  {<<c, <<"dd:Cluster", "Command", "kind-cmd-kind-create-cluster">>>> :
     c \in {c \in MCConfigs : c[1] = "kind"}}

(* Other options of the fake intake are another docker run, of a name that *)
(* the container that there is has (gcp/fakeintake/fakeintake.go:46).      *)
FakeintakeKnown ==
  {<<c, <<"dd:Host", "Command", "fakeintake-cmd-docker_run_fakeintake">>>> :
     c \in {c \in MCConfigs : c[1] = "openshift"}}

(* The list of what Autopilot admits is not waited for (cluster.go:70).    *)
AutopilotKnown ==
  {<<<<"gke", "autopilot">>, <<"dd:KubernetesAgent$dd:agent", "Release", "dda-linux">>>>}

(* The volume of an image that is not compressed does not wait for it      *)
(* (libvirt_fs.go:279); the volume that sets share has the name of the set *)
(* that comes first (libvirt.go:118); the pools in memory of two hosts     *)
(* have one name (pool.go:180).                                            *)
MicroVMKnown ==
  {<<<<"microvms", c>>, <<"dd:Host", "Command", "metal-cmd-" \o v \o "-build-libvirt-basevolume">>>> :
     <<c, v>> \in {<<"raw", "raw-raw">>, <<"raw", "stored-raw">>,
                  <<"default", "docker.qcow2-jammy">>, <<"otherOrder", "docker.qcow2-focal">>}}
  \cup
  {<<<<"microvms", "inMemory">>, u>> : u \in
     {<<"", "Pool", "ram-pool-create-libvirt-ram-pool">>,
      <<"dd:Host", "Command", "other-cmd-b-b-build-libvirt-basevolume">>}}

(* Active Directory and IIS on one machine both wait for it to reboot.     *)
WindowsKnown ==
  {<<<<"sites", "default">>, <<"", "Sleep", "server-wait-for-host-to-reboot">>>>}

(* On Azure the address of a machine is the one of its network interface,  *)
(* so that no command on it waits for the machine, and the machine may be  *)
(* deleted before what the commands undo (azure/compute/vm.go).            *)
AzureKnown ==
  {<<c, <<"", "VirtualMachine", m>>>> :
     c \in {MCNothing} \cup {c \in MCConfigs : c[1] \in {"azure", "aks"}},
     m \in {"vm", "fakeintake"}}

MCKnown == AzureKnown \cup OperatorKnown \cup NoAgentKnown \cup KindKnown \cup FakeintakeKnown
             \cup AutopilotKnown \cup MicroVMKnown \cup WindowsKnown

----------------------------------------------------------------------------
(* The steps of a larger stack go in one order out of many, what is kept   *)
(* first: what any order can change is in InPlace, that looks at the       *)
(* program as a whole, and in the theorem on it.                           *)
Size == Cardinality(Wanted \cup live)

Picked(S) == IF S = {} \/ Size <= Tiny THEN S ELSE {CHOOSE r \in S : TRUE}

MCCreate ==
  /\ phase = "create"
  /\ LET kept == {r \in Ready : Unchanged(r)}
         new  == {r \in Ready : ~Unchanged(r) /\ ~Refused(r)}
     IN \/ \E r \in Picked(kept) : Keep(r)
        \/ (Size <= Tiny \/ kept = {}) /\ \E r \in Picked(new) : Create(r)

MCDelete ==
  /\ phase = "delete"
  /\ \E r \in Picked({r \in Unwanted : ~HasDependents(r)}) : Delete(r)

MCStep ==
  \/ MCCreate
  \/ Refuse
  \/ StartDeletes
  \/ MCDelete
  \/ End

MCNext == Task \/ MCStep \/ (Size <= Small /\ Stop)

MCSpec == Init /\ [][MCNext]_vars /\ WF_vars(MCStep \/ RetryDestroy)
=============================================================================
