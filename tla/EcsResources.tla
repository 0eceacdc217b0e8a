---------------------------- MODULE EcsResources ----------------------------
(***************************************************************************)
(* What programs register for ECS (resources/aws/ecs, scenarios/aws/ecs,   *)
(* scenarios/aws/fakeintake, and the ECS and Fargate variants of the Agent *)
(* and of the applications).  A task takes the key of the Agent from a     *)
(* parameter, by its name.                                                 *)
(***************************************************************************)
EXTENDS ResourceGraph

Parameter(object) == <<"Parameter", "", object>>

NewParameter(owner, name, object, after) ==
  Resource(<<owner, "Parameter", name>>, after, {Parameter(object)}, {})

----------------------------------------------------------------------------
(* The cluster: nodes join it by its name, that the data of their template *)
(* carries.  Nothing is a child of the component.                          *)

CreateEcsCluster(name) ==
  Resource(<<"", "EcsCluster", name>>, {}, {<<"EcsCluster", "", name>>}, {})

ClusterArn(name) == {<<"", "EcsCluster", name>>}

NewNodeGroup(cluster, name) ==
  LET step(type, after, makes) == Resource(<<"", type, name>>, after, makes, {})
      template == step("LaunchTemplate", {cluster.urn}, {})
      group    == [step("AutoscalingGroup", {template.urn}, {<<"Nodes", "", name>>})
                   EXCEPT !.needs = cluster.makes]
  IN {template, group, step("CapacityProvider", {group.urn}, {})}

NodeGroupName(kind) ==
  CASE kind = "linux"        -> "ecs-optimized-ng"
    [] kind = "linux-arm"    -> "ecs-optimized-arm-ng"
    [] kind = "bottlerocket" -> "bottlerocket-ng"
    [] kind = "windows"      -> "win2022-ng"

NewCluster(name, kinds) ==
  LET cluster == CreateEcsCluster(name)
      groups  == UNION {NewNodeGroup(cluster, NodeGroupName(k)) : k \in kinds}
      names   == {r.urn : r \in {r \in groups : r.urn[2] = "CapacityProvider"}}
  IN {Component("dd:Cluster", name, {}), cluster} \cup groups
     \cup {Resource(<<"", "ClusterCapacityProviders", "stack">>,
                    {cluster.urn} \cup names, {}, {})}

----------------------------------------------------------------------------
(* Tasks and services on Fargate.                                          *)

(* The Agent and the router of its logs run in the task, with the key.     *)
TaskDefinitionWithAgent(owner, name, key, fakeintake, after) ==
  Resource(<<owner, "FargateTaskDefinition", name>>, after \cup {key.urn} \cup fakeintake,
           {<<"TaskDefinition", "", name>>}, key.makes)

(* A service is there once its tasks run, unless it is not waited for.     *)
FargateService(owner, name, task, after) ==
  Resource(<<owner, "FargateService", name>>, after \cup {task.urn},
           {<<"EcsService", "", name>>}, task.makes)

----------------------------------------------------------------------------
(* The fake intake: its address is the one of the task, once it answers;   *)
(* or the name that a load balancer forwards, which is known before.       *)

FakeintakeOwner == "dd:Fakeintake"

FakeintakeKey(name, own) ==
  NewParameter(FakeintakeOwner, "fakeintake-" \o name \o "-agent-apikey",
               name \o "-apikey", own)

FakeintakeTask(name, own) ==
  TaskDefinitionWithAgent(FakeintakeOwner, "fakeintake-" \o name \o "-taskdef",
                          FakeintakeKey(name, own), {}, own)

FakeintakeService(name, after) ==
  [FargateService(FakeintakeOwner, "fakeintake-" \o name \o "-srv",
                  FakeintakeTask(name, after), after)
   EXCEPT !.makes = @ \cup {<<"Fakeintake", "", name>>}]

(* The listener's rule is registered before the service, which does not    *)
(* wait for it.                                                            *)
FakeintakeBalancer(name, own) ==
  LET target == Resource(<<FakeintakeOwner, "TargetGroup", "fakeintake-" \o name>>,
                         own, {<<"TargetGroup", "", "fakeintake">>}, {})
  IN {target,
      Resource(<<FakeintakeOwner, "ListenerRule", "fakeintake-" \o name>>,
               own \cup {target.urn}, {<<"ListenerRule", "", name>>}, {})}

NewECSFargateInstance(name, withLoadBalancer) ==
  LET comp     == Component(FakeintakeOwner, name, {})
      own      == {comp.urn}
      balancer == IF withLoadBalancer THEN FakeintakeBalancer(name, own) ELSE {}
      targets  == {r.urn : r \in {r \in balancer : r.urn[2] = "TargetGroup"}}
      service  == FakeintakeService(name, own)
  IN {comp, FakeintakeKey(name, own), FakeintakeTask(name, own)} \cup balancer
     \cup {[service EXCEPT !.after = @ \cup targets]}

(* What has the address of the fake intake waits for.                      *)
FakeintakeURL(name, withLoadBalancer) ==
  IF withLoadBalancer THEN {}
  ELSE {FakeintakeTask(name, {}).urn, FakeintakeService(name, {}).urn}

----------------------------------------------------------------------------
(* The Agent on each node.                                                 *)

AgentKey == NewParameter("", "agent-apikey", "agent-apikey", {})

ECSLinuxDaemonDefinition(name, cluster, fakeintake) ==
  Resource(<<"", "EC2Service", name>>, ClusterArn(cluster) \cup {AgentKey.urn} \cup fakeintake,
           {<<"EcsService", "", name>>}, AgentKey.makes)

----------------------------------------------------------------------------
(* The applications: a component, and services that are its children.      *)

EcsWorkload(prefix, after) == Component("dd:apps", prefix \o "-grp", after)

EcsApp(prefix, services, cluster) ==
  LET comp == EcsWorkload(prefix, {})
  IN {comp} \cup
     {Resource(<<"dd:apps", "EC2Service", prefix \o "-" \o s>>,
               {comp.urn} \cup ClusterArn(cluster),
               {<<"EcsService", "", prefix \o "-" \o s>>}, {}) : s \in services}

NginxEC2(cluster)      == EcsApp("nginx-ec2", {"server"}, cluster)
RedisEC2(cluster)      == EcsApp("redis-ec2", {"server"}, cluster)
CpuStressEC2(cluster)  == EcsApp("cpustress-ec2", {"stress-ng"}, cluster)
DogstatsdEC2(cluster)  == EcsApp("dogstatsd", {"uds", "udp"}, cluster)
PrometheusEC2(cluster) == EcsApp("prometheus", {"server"}, cluster)
TracegenEC2(cluster)   == EcsApp("tracegen", {"uds", "tcp"}, cluster)
NpmToolsEC2(cluster)   == EcsApp("npm-tools", {"curl-dig"}, cluster)

FargateApp(prefix, taskName, service, cluster, fakeintake) ==
  LET comp == EcsWorkload(prefix, {})
      task == TaskDefinitionWithAgent("dd:apps", taskName, AgentKey, fakeintake, {comp.urn})
  IN {comp, task, FargateService("dd:apps", prefix \o "-" \o service, task,
                                 {comp.urn} \cup ClusterArn(cluster))}

RedisFargate(cluster, fakeintake) ==
  FargateApp("redis-fg", "redis-fg", "server", cluster, fakeintake)

NginxOnFargate(cluster, fakeintake) ==
  FargateApp("nginx-fg", "nginx-fg", "server", cluster, fakeintake)

AspNetSample(cluster, fakeintake) ==
  FargateApp("aspnetsample-fg", "aspnet-fg-server", "server", cluster, fakeintake)

CpuStressFargate(cluster, fakeintake) ==
  FargateApp("cpustress-fg", "stress-ng-fg", "stress-ng", cluster, fakeintake)
=============================================================================
