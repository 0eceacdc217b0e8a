----------------------------- MODULE Scenarios -----------------------------
(***************************************************************************)
(* The programs (registry/scenarios.go): what each registers with a        *)
(* configuration.  Where the code passes the Agent to an application as    *)
(* something to wait for, it waits for all that the Agent is made of.      *)
(***************************************************************************)
EXTENDS Environment, KubernetesAgent, KubernetesClusters, EcsResources,
        MicroVMLaunch

(* What the API server that resource `cluster' creates serves.             *)
Serving(G, cluster, config) ==
  {IF r.urn = cluster
   THEN [r EXCEPT !.makes = @ \cup {API(v) : v \in ServedAPIs(KubernetesVersion(config))}]
   ELSE r : r \in G}

----------------------------------------------------------------------------
(* The fake intake of a stack: its resources, and what its address waits   *)
(* for.  NONE where there is none.                                         *)
NONE == [all |-> {}, url |-> {}]

ECSFakeintake(config, name) ==
  LET lb == InfraShouldDeployFakeintakeWithLB(config) /\ DefaultFakeintakeLBs(config)
  IN IF AgentUseFakeintake(config)
     THEN [all |-> NewECSFargateInstance(name, lb), url |-> FakeintakeURL(name, lb)]
     ELSE NONE

VMFakeintake(config, cloud, period) ==
  LET m == Machine("fakeintake", "ubuntu")
  IN CASE ~AgentUseFakeintake(config) -> NONE
       [] cloud = "azure" -> [all |-> AzureFakeintake(m, period), url |-> AzureAddress(m)]
       [] cloud = "gcp"   -> [all |-> GCPFakeintake(m, period), url |-> {Instance(m)}]
       [] cloud = "local" -> [all |-> LocalFakeintake, url |-> {}]

----------------------------------------------------------------------------
(* Kubernetes.                                                             *)

(* The applications that kind and EKS have in common.                      *)
TestingWorkload(config, kube, agent, vpa) ==
  LET minor == KubernetesVersion(config)
  IN Nginx("workload-nginx", minor, TRUE, kube \cup agent \cup vpa)
     \cup Redis("workload-redis", minor, TRUE, kube \cup agent \cup vpa)
     \cup CpuStress("workload-cpustress", kube)
     \cup Dogstatsd("workload-dogstatsd", "8125", kube \cup agent)
     \cup (IF DogstatsdDeploy(config)
           THEN Dogstatsd("workload-dogstatsd-standalone", "8128", kube \cup agent)
           ELSE {})
     \cup Tracegen("workload-tracegen", kube)
     \cup Prometheus("workload-prometheus", kube)
     \cup MutatedByAdmissionController("workload-mutated", "workload-mutated-lib-injection",
                                       kube \cup agent)
     \cup Etcd(kube)

Standalone(config, kube, fakeintake) ==
  IF DogstatsdDeploy(config)
  THEN DogstatsdStandalone("dogstatsd-standalone", ImagePullRegistry(config), fakeintake.url, kube)
  ELSE {}

Agents(config, p, opts) ==
  HelmAgent([ns |-> p.ns, registries |-> ImagePullRegistry(config), windows |-> p.windows,
             autopilot |-> p.autopilot], opts)

OnLinux(ns) == [ns |-> ns, windows |-> FALSE, autopilot |-> FALSE]

(* aws/kind.  With the operator, the components that use it wait for the   *)
(* provider only.                                                          *)
KindVM(config) ==
  LET m       == Machine("kind", OS(config, "amazon-linux-ecs"))
      ecr     == InstallECRCredentialsHelper(m)
      kube    == KubeProvider("k8s-provider", KindKubeConfig(m))
      vpa     == VpaCRD({kube.urn})
      intake  == ECSFakeintake(config, "kind")
      helm    == AgentDeploy(config) /\ ~AgentDeployWithOperator(config)
      opts    == {kube.urn} \cup intake.url
      agents  == CASE helm -> Agents(config, OnLinux("datadog"), opts)
                   [] AgentDeploy(config) /\ ~helm ->
                        DDAWithOperator("datadog", "dda-with-operator",
                                        ImagePullRegistry(config), opts)
                   [] OTHER -> {}
      operator == IF AgentDeploy(config) /\ ~helm
                  THEN Operator("datadog", ImagePullRegistry(config), {kube.urn}) ELSE {}
      argo    == IF AgentDeployArgoRollout(config) THEN ArgoRollouts({kube.urn}) ELSE {}
      load    == ~AgentDeployWithOperator(config) /\ TestingWorkloadDeploy(config)
  IN EC2VM(m, "", {}) \cup ecr
     \cup Serving(NewKindClusterWithConfig(After(m, ecr), "kind", EcrConfig(m)),
                  CommandUrn(m, "kind-create-cluster"), config)
     \cup {kube, vpa} \cup argo \cup intake.all \cup operator \cup agents
     \cup Standalone(config, {kube.urn}, intake)
     \cup (IF load THEN TestingWorkload(config, {kube.urn}, DependsOn(agents), {vpa.urn}) ELSE {})
     \cup (IF load /\ argo # {}
           THEN NginxRollout("workload-argo-rollout-nginx", {kube.urn} \cup DependsOn(argo))
           ELSE {})

(* aws/eks                                                                 *)
EKSNodes(config) ==
  {g \in {"linux", "linux-arm", "bottlerocket", "windows"} :
     CASE g = "linux"        -> EKSLinuxNodeGroup(config)
       [] g = "linux-arm"    -> EKSLinuxARMNodeGroup(config)
       [] g = "bottlerocket" -> EKSBottlerocketNodeGroup(config)
       [] g = "windows"      -> EKSWindowsNodeGroup(config)}

EKS(config) ==
  LET kube    == {EKSProvider}
      cluster == NewEKSCluster([podSubnets |-> EKSPODSubnets(config), al2023 |-> FALSE,
                                groups |-> EKSNodes(config)])
      vpa     == VpaCRD(kube)
      argo    == IF AgentDeployArgoRollout(config) THEN ArgoRollouts(kube) ELSE {}
      intake  == ECSFakeintake(config, "ecs")
      agents  == Agents(config, [OnLinux("datadog") EXCEPT !.windows = EKSWindowsNodeGroup(config)],
                        kube \cup DependsOn(cluster) \cup intake.url)
      opts    == kube \cup DependsOn(agents)
      load    == TestingWorkload(config, kube, DependsOn(agents), {vpa.urn})
                 \cup NginxFargate("workload-nginx-fargate", ClusterAgentToken, opts)
                 \cup DogstatsdFargate("workload-dogstatsd-fargate", ClusterAgentToken, opts)
                 \cup (IF argo # {}
                       THEN NginxRollout("workload-argo-rollout-nginx", kube \cup DependsOn(argo))
                       ELSE {})
  IN Serving(cluster, EKSClusterUrn, config) \cup {vpa} \cup argo \cup
     IF InitOnly(config) \/ ~AgentDeploy(config) THEN {}
     ELSE intake.all \cup agents \cup Standalone(config, kube, intake)
          \cup IF TestingWorkloadDeploy(config) THEN load ELSE {}

(* az/aks: no definition of the vertical autoscaler, and nginx twice.      *)
AKS(config) ==
  LET minor  == KubernetesVersion(config)
      intake == VMFakeintake(config, "azure", AgentFakeintakeRetentionPeriod(config))
      agents == IF AgentDeploy(config)
                THEN Agents(config, OnLinux("datadog"), Provider \cup intake.url) ELSE {}
      opts   == Provider \cup DependsOn(agents)
      load   == Nginx("workload-nginx", minor, TRUE, opts)
                \cup Nginx("workload-nginx-kata", minor, TRUE, opts)
                \cup Redis("workload-redis", minor, TRUE, opts)
                \cup CpuStress("workload-cpustress", Provider)
                \cup Dogstatsd("workload-dogstatsd", "8125", opts)
                \cup (IF DogstatsdDeploy(config)
                      THEN Dogstatsd("workload-dogstatsd-standalone", "8128", opts) ELSE {})
                \cup Prometheus("workload-prometheus", Provider)
                \cup MutatedByAdmissionController("workload-mutated",
                                                  "workload-mutated-lib-injection", opts)
                \cup Etcd(Provider)
  IN Serving(NewAKSCluster, <<"", "ManagedCluster", "aks">>, config)
     \cup (IF AgentDeploy(config) THEN intake.all ELSE {})
     \cup agents \cup Standalone(config, Provider, NONE)
     \cup IF TestingWorkloadDeploy(config) THEN load ELSE {}

(* gcp/gke: on Autopilot, no definition of the autoscaler, and none of     *)
(* what mounts a directory of the node.                                    *)
GKE(config) ==
  LET auto   == GKEAutopilot(config)
      vpa    == IF auto THEN {} ELSE {VpaCRD(Provider)}
      intake == VMFakeintake(config, "gcp", AgentFakeintakeRetentionPeriod(config))
      agents == IF AgentDeploy(config)
                THEN Agents(config, [OnLinux("datadog") EXCEPT !.autopilot = auto],
                            Provider \cup intake.url) ELSE {}
      opts   == Provider \cup DependsOn(agents)
      load   == Nginx("workload-nginx", KubernetesVersion(config), TRUE, opts \cup Urns(vpa))
                \cup CpuStress("workload-cpustress", Provider)
                \cup Prometheus("workload-prometheus", Provider)
                \cup MutatedByAdmissionController("workload-mutated",
                                                  "workload-mutated-lib-injection", opts)
                \cup Etcd(Provider)
      node   == Standalone(config, Provider, NONE)
                \cup (IF DogstatsdDeploy(config)
                      THEN Dogstatsd("workload-dogstatsd-standalone", "8128", opts) ELSE {})
                \cup Dogstatsd("workload-dogstatsd", "8125", opts)
                \cup Tracegen("workload-tracegen", Provider)
  IN Serving(NewGKECluster(auto), <<"", "GKE", "gke">>, config) \cup vpa
     \cup (IF AgentDeploy(config) THEN intake.all ELSE {}) \cup agents
     \cup (IF TestingWorkloadDeploy(config) THEN load \cup (IF auto THEN {} ELSE node) ELSE {})

(* gcp/openshiftvm                                                         *)
OpenShiftVM(config) ==
  LET m      == Machine("openshift", "redhat")
      kube   == KubeProvider("openshift-k8s-provider", OpenShiftKubeConfig(m))
      vpa    == VpaCRD({kube.urn})
      intake == VMFakeintake(config, "gcp", AgentFakeintakeRetentionPeriod(config))
      agents == IF AgentDeploy(config)
                THEN Agents(config, OnLinux("datadog-openshift"), {kube.urn} \cup intake.url)
                ELSE {}
      opts   == {kube.urn} \cup DependsOn(agents)
      load   == Redis("workload-redis", KubernetesVersion(config), TRUE, opts \cup {vpa.urn})
                \cup Prometheus("workload-prometheus", {kube.urn})
                \cup CpuStress("workload-cpustress", {kube.urn})
                \cup Tracegen("workload-tracegen", {kube.urn})
                \cup Dogstatsd("workload-dogstatsd", "8125", opts)
  IN GCPVM(m)
     \cup Serving(NewOpenShiftCluster(m, "openshift", {}), CommandUrn(m, "crc-start"), config)
     \cup {kube, vpa} \cup intake.all \cup agents
     \cup IF TestingWorkloadDeploy(config) THEN load ELSE {}

----------------------------------------------------------------------------
(* ECS.                                                                    *)

ECSNodes(config) ==
  {g \in {"linux", "linux-arm", "bottlerocket", "windows"} :
     CASE g = "linux"        -> ECSLinuxECSOptimizedNodeGroup(config)
       [] g = "linux-arm"    -> ECSLinuxECSOptimizedARMNodeGroup(config)
       [] g = "bottlerocket" -> ECSLinuxBottlerocketNodeGroup(config)
       [] g = "windows"      -> ECSWindowsNodeGroup(config)}

ECS(config) ==
  LET intake == ECSFakeintake(config, "ecs")
      agents == intake.all
                \cup {AgentKey, ECSLinuxDaemonDefinition("ec2-linux-dd-agent", "ecs", intake.url)}
      load   == NginxEC2("ecs") \cup RedisEC2("ecs") \cup CpuStressEC2("ecs")
                \cup DogstatsdEC2("ecs") \cup PrometheusEC2("ecs") \cup TracegenEC2("ecs")
      tasks  == RedisFargate("ecs", intake.url) \cup NginxOnFargate("ecs", intake.url)
                \cup AspNetSample("ecs", intake.url)
  IN NewCluster("ecs", ECSNodes(config))
     \cup (IF AgentDeploy(config) THEN agents ELSE {})
     \cup (IF TestingWorkloadDeploy(config) THEN load ELSE {})
     \cup (IF TestingWorkloadDeploy(config) /\ AgentDeploy(config) THEN tasks ELSE {})

----------------------------------------------------------------------------
(* Machines.                                                               *)

HostAgent(m, fakeintake) ==
  NewHostAgent(m, [local |-> FALSE, files |-> {}, permissions |-> {},
                   fakeintake |-> fakeintake.url], {})

(* aws/vm: a stack with the Agent does not get the updater.                *)
VM(config) ==
  LET m      == Machine("vm", OS(config, "amazon-linux-ecs"))
      intake == ECSFakeintake(config, "vm")
  IN EC2VM(m, "", {}) \cup
     CASE AgentDeploy(config) -> intake.all \cup HostAgent(m, intake)
       [] ~AgentDeploy(config) /\ UpdaterDeploy(config) -> NewHostUpdater(m)
       [] OTHER -> {}

(* aws/dockervm                                                            *)
DockerVM(config) ==
  LET m      == Machine("vm", OS(config, "amazon-linux-ecs"))
      ecr    == InstallECRCredentialsHelper(m)
      docker == After(m, ecr)
      intake == ECSFakeintake(config, "vm")
      sender == IF TestingWorkloadDeploy(config)
                THEN {[name |-> "dogstatsd", after |-> {}]} ELSE {}
  IN EC2VM(m, "", {}) \cup ecr \cup NewManager(docker, "", EcrConfig(m)) \cup
     IF AgentDeploy(config)
     THEN intake.all
          \cup NewDockerAgent(Docker(docker, "", EcrConfig(m)), sender, intake.url)
     ELSE {}

(* az/vm, gcp/vm, localpodman/vm                                           *)
AzureVMRun(config) ==
  LET m      == Machine("vm", OS(config, "ubuntu"))
      intake == VMFakeintake(config, "azure", "")
  IN AzureVM(m, {}) \cup
     IF AgentDeploy(config) THEN intake.all \cup HostAgent(m, intake) ELSE {}

GCPVMRun(config) ==
  LET m      == Machine("gcp-vm", "ubuntu")
      intake == VMFakeintake(config, "gcp", "")
  IN GCPVM(m) \cup IF AgentDeploy(config) THEN intake.all \cup HostAgent(m, intake) ELSE {}

LocalPodmanRun(config) ==
  LET m      == Machine("podman-vm", "ubuntu")
      intake == VMFakeintake(config, "local", "")
  IN PodmanVM(m) \cup IF AgentDeploy(config) THEN intake.all \cup HostAgent(m, intake) ELSE {}

(* aws/installer                                                           *)
InstallerLab ==
  UNION {EC2VM(m, "", {}) \cup LabHost(m) :
           m \in {Machine("ubuntu-22", "ubuntu"), Machine("ubuntu-20", "ubuntu"),
                  Machine("debian-12", "debian"), Machine("debian-12-small", "debian"),
                  Machine("suse-15", "suse")}}
=============================================================================
