---------------------------- MODULE Environment ----------------------------
(***************************************************************************)
(* The configuration of a stack, and what the program reads in it          *)
(* (common/config/environment.go and resources/*/environment.go).  A       *)
(* configuration is a function: its domain is the set of parameters that   *)
(* somebody set, and its values are strings.                               *)
(***************************************************************************)
EXTENDS Naturals, Sequences

(* A value that is not a Boolean is logged, and the default used.          *)
GetBoolWithDefault(config, param, default) ==
  IF param \in DOMAIN config /\ config[param] \in {"true", "false"}
  THEN config[param] = "true"
  ELSE default

GetStringWithDefault(config, param, default) ==
  IF param \in DOMAIN config THEN config[param] ELSE default

(* The callers pass the object to fill in by value, which is an error that *)
(* is logged: what is configured is never used.                            *)
GetObjectWithDefault(config, param, default) == default

----------------------------------------------------------------------------
(* What all the clouds have.                                               *)

AgentDeploy(config)             == GetBoolWithDefault(config, "ddagent:deploy", TRUE)
AgentDeployWithOperator(config) == GetBoolWithDefault(config, "ddagent:deployWithOperator", FALSE)
AgentUseFakeintake(config)      == GetBoolWithDefault(config, "ddagent:fakeintake", TRUE)
AgentFakeintakeRetentionPeriod(config) ==
  GetStringWithDefault(config, "ddagent:fakeintakeRetentionPeriod", "")
AgentDeployArgoRollout(config)  ==
  GetBoolWithDefault(config, "ddtestworkload:deployArgoRollout", FALSE)
TestingWorkloadDeploy(config)   == GetBoolWithDefault(config, "ddtestworkload:deploy", TRUE)
DogstatsdDeploy(config)         == GetBoolWithDefault(config, "dddogstatsd:deploy", TRUE)
UpdaterDeploy(config)           == GetBoolWithDefault(config, "ddupdater:deploy", FALSE)
InitOnly(config)                == GetBoolWithDefault(config, "ddinfra:initOnly", FALSE)
InfraShouldDeployFakeintakeWithLB(config) ==
  GetBoolWithDefault(config, "ddinfra:deployFakeintakeWithLoadBalancer", TRUE)

(* An empty descriptor stands for the default of the scenario.             *)
InfraOSDescriptor(config) == GetStringWithDefault(config, "ddinfra:osDescriptor", "")
OS(config, default) ==
  IF InfraOSDescriptor(config) = "" THEN default ELSE InfraOSDescriptor(config)

(* semver.NewVersion: only the minor number is used, and stands for the    *)
(* version here.                                                           *)
KubernetesVersion(config) == GetStringWithDefault(config, "ddinfra:kubernetesVersion", 32)

(* A registry with a user and a password: the pods need a secret.          *)
ImagePullRegistry(config) == GetStringWithDefault(config, "ddagent:imagePullRegistry", "") # ""

----------------------------------------------------------------------------
(* The defaults of the AWS accounts: the shared load balancers for the     *)
(* fake intakes, the subnets of the pods, the nodes of the clusters.       *)

InfraEnvironment(config) == GetStringWithDefault(config, "ddinfra:env", "aws/sandbox")

EnvDefaultLBs(config) ==
  InfraEnvironment(config) \in {"aws/agent-sandbox", "aws/agent-qa"}

DefaultFakeintakeLBs(config) ==
  GetObjectWithDefault(config, "ddinfra:aws/ecs/defaultfakeintakeLBs", EnvDefaultLBs(config))

EKSPODSubnets(config) ==
  GetObjectWithDefault(config, "ddinfra:aws/eks/podSubnets", EnvDefaultLBs(config))

EKSLinuxNodeGroup(config) ==
  GetBoolWithDefault(config, "ddinfra:aws/eks/linuxNodeGroup", TRUE)
EKSLinuxARMNodeGroup(config) ==
  GetBoolWithDefault(config, "ddinfra:aws/eks/linuxARMNodeGroup", TRUE)
EKSBottlerocketNodeGroup(config) ==
  GetBoolWithDefault(config, "ddinfra:aws/eks/linuxBottlerocketNodeGroup", TRUE)
EKSWindowsNodeGroup(config) ==
  GetBoolWithDefault(config, "ddinfra:aws/eks/windowsNodeGroup", TRUE)

ECSLinuxECSOptimizedNodeGroup(config) ==
  GetBoolWithDefault(config, "ddinfra:aws/ecs/linuxECSOptimizedNodeGroup", TRUE)
ECSLinuxECSOptimizedARMNodeGroup(config) ==
  GetBoolWithDefault(config, "ddinfra:aws/ecs/linuxECSOptimizedARMNodeGroup", FALSE)
ECSLinuxBottlerocketNodeGroup(config) ==
  GetBoolWithDefault(config, "ddinfra:aws/ecs/linuxBottlerocketNodeGroup", TRUE)
ECSWindowsNodeGroup(config) ==
  GetBoolWithDefault(config, "ddinfra:aws/ecs/windowsLTSCNodeGroup", TRUE)

GKEAutopilot(config) == GetBoolWithDefault(config, "ddinfra:gcp/gke/enableAutopilot", FALSE)

----------------------------------------------------------------------------
(* Kubernetes: the versions of the APIs in question that it serves.        *)

ServedAPIs(minor) ==
  {v \in {"policy/v1beta1", "policy/v1", "autoscaling/v2beta2", "autoscaling/v2"} :
     CASE v = "policy/v1beta1"      -> minor < 25
       [] v = "policy/v1"           -> minor >= 21
       [] v = "autoscaling/v2beta2" -> minor < 26
       [] v = "autoscaling/v2"      -> minor >= 23}
=============================================================================
