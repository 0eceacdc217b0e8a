--------------------------- MODULE KubernetesApps ---------------------------
(***************************************************************************)
(* The applications that run in Kubernetes (components/datadog/apps, and   *)
(* the side car of Fargate): what each of them registers.  `opts' is what  *)
(* the caller passes as resource options: the provider of the cluster and  *)
(* what to wait for.  An application is a component with a namespace; its  *)
(* objects wait for both.                                                  *)
(***************************************************************************)
EXTENDS ResourceGraph, Integers

App(name) == <<"", "dd:apps", name>>

Workload(name, ns, opts, objects) ==
  LET all == opts \cup {App(name)}
      N   == Namespace("dd:apps", ns, all)
  IN {Component("dd:apps", name, opts), N}
     \cup {InNamespace("dd:apps", ns, all \cup {N.urn}, o) : o \in objects}

(* What the admission controller and the CSI driver of the Agent change in *)
(* a pod is decided when the pod is created.                               *)
Webhook == <<"Webhook", "", "datadog-admission">>

Mutated(o) == Needing(o, {Webhook})

----------------------------------------------------------------------------
(* dogstatsd                                                               *)

(* The service account of the pods that mount the socket, and its binding. *)
DogstatsdAccount(port) ==
  {Object("ServiceAccount", "dogstatsd-uds-sa-" \o port, "dogstatsd-uds-sa"),
   Awaiting(Object("RoleBinding", "dogstatsd-uds-scc-binding-" \o port,
                   "dogstatsd-scc-binding"),
            {<<"dd:apps", "ServiceAccount", "dogstatsd-uds-sa-" \o port>>})}

(* Two Deployments that use the socket; the first one by the CSI driver.   *)
DogstatsdUDS(port) ==
  LET sa == <<"dd:apps", "ServiceAccount", "dogstatsd-uds-sa-" \o port>>
      uds(name) == Object("Deployment", name \o "-" \o port, name)
  IN {Awaiting(Mutated(uds("dogstatsd-uds-with-csi")), {sa}),
      Awaiting(uds("dogstatsd-uds"), {sa})}

(* Two that send to the port on the node.                                  *)
DogstatsdUDP(port) ==
  {Object("Deployment", name \o "-" \o port, name) :
     name \in {"dogstatsd-udp", "dogstatsd-udp-origin-detection"}}

(* Two that name their origin, the last one by what is injected in it.     *)
DogstatsdOrigin(port) ==
  LET udp(name) == Object("Deployment", name \o "-" \o port, name)
  IN {udp("dogstatsd-udp-contname-injected"),
      Mutated(udp("dogstatsd-udp-external-data-only"))}

Dogstatsd(ns, port, opts) ==
  Workload("dogstatsd-" \o port, ns, opts,
           DogstatsdAccount(port) \cup DogstatsdUDS(port)
             \cup DogstatsdUDP(port) \cup DogstatsdOrigin(port))

----------------------------------------------------------------------------
(* nginx and redis                                                         *)

(* Mutant: the threshold is one version too low.                           *)
EarlyBudgetAPI(minor) == IF minor < 20 THEN "policy/v1beta1" ELSE "policy/v1"

(* The version of an API that a cluster of version 1.minor is asked for.   *)
BudgetAPI(minor) == IF minor < 21 THEN "policy/v1beta1" ELSE "policy/v1"
ScalerAPI(minor) ==
  IF minor < 23 THEN "autoscaling/v2beta2" ELSE "autoscaling/v2"

API(version) == <<"API", "", version>>

DisruptionBudget(name, object, minor) ==
  Needing(Object("PodDisruptionBudget", name, object), {API(BudgetAPI(minor))})

(* A DatadogMetric, the autoscaler that uses it, and a vertical one.       *)
Autoscaling(name, object, minor) ==
  LET ddm == <<"dd:apps", "DatadogMetric", name>>
  IN {Needing(Object("DatadogMetric", name, object), {CRD("DatadogMetric")}),
      Awaiting(Needing(Object("HorizontalPodAutoscaler", name, object),
                       {API(ScalerAPI(minor))}),
               {ddm})}

VerticalAutoscaler(name, object) ==
  Needing(Object("VerticalPodAutoscaler", name, object),
          {CRD("VerticalPodAutoscaler")})

(* The manifests that the applications with nginx have in common.          *)
NginxDeployment(name) == Object("Deployment", name, "nginx")
NginxQuery(ns)   == Object("Deployment", ns \o "/nginx-query", "nginx-query")
NginxService(ns) == Object("Service", ns \o "/nginx", "nginx")

Nginx(ns, minor, withDatadogAutoscaling, opts) ==
  LET name == ns \o "/nginx" IN
  Workload(name, ns, opts,
    {NginxDeployment(name), DisruptionBudget(name, "nginx", minor),
     NginxService(ns), NginxQuery(ns)}
    \cup IF withDatadogAutoscaling
         THEN Autoscaling(name, "nginx", minor) \cup {VerticalAutoscaler(name, "nginx")}
         ELSE {})

(* The rollout is made from a Deployment, by the controller of Argo.       *)
NginxRollout(ns, opts) ==
  Workload(ns \o "/nginx", ns, opts,
    {Needing(Object("Rollout", ns \o "/nginx", "nginx-rollout"),
             {CRD("Rollout")})})

Redis(ns, minor, withDatadogAutoscaling, opts) ==
  Workload("redis", ns, opts,
    {Deployment("redis"), DisruptionBudget("redis", "redis", minor),
     Service("redis"), Deployment("redis-query")}
    \cup IF withDatadogAutoscaling
         THEN Autoscaling("redis", "redis", minor) \cup {VerticalAutoscaler("redis", "redis")}
         ELSE {})

----------------------------------------------------------------------------
(* The others.                                                             *)

CpuStress(ns, opts) == Workload("cpustress", ns, opts, {Deployment("stress-ng")})

TracegenTCP(ns) == Object("Deployment", ns \o "/tracegen-tcp", "tracegen-tcp")
TracegenUDS(ns) == Object("Deployment", ns \o "/tracegen-uds", "tracegen-uds")

(* The namespace of the account and of its binding is a literal, whatever  *)
(* the namespace of the application is.                                    *)
Tracegen(ns, opts) ==
  LET sa   == <<"dd:apps", "ServiceAccount", "tracegen-uds-sa">>
      N    == <<"dd:apps", "Namespace", ns>>
      all  == opts \cup {App(ns \o "-tracegen"), N}
  IN Workload(ns \o "-tracegen", ns, opts,
              {Awaiting(TracegenUDS(ns), {sa}), TracegenTCP(ns)})
     \cup {InNamespace("dd:apps", "workload-tracegen", all, o) : o \in
             {Object("ServiceAccount", "tracegen-uds-sa", "tracegen-uds-sa"),
              Awaiting(Object("RoleBinding", "tracegen-uds-scc-binding",
                              "tracegen-scc-binding"), {sa})}}

Prometheus(ns, opts) ==
  Workload("prometheus", ns, opts, {Deployment("prometheus")})

Etcd(opts) ==
  Workload("etcd", "etcd", opts, {Deployment("etcd"), Service("etcd")})

Logger(ns, opts) ==
  Workload("logger", ns, opts, {Deployment("logger"), Service("logger")})

NpmTools(ns, opts) ==
  Workload("npm-tools", ns, opts, {Deployment("curl-dig")})

(* Two namespaces; the Deployments are children of theirs.                 *)
MutatedDeployment(name) == Mutated(Deployment(name))

MutatedByAdmissionController(nsWithout, nsWith, opts) ==
  LET all == opts \cup {App("mutated")}
      child(ns, o) == InNamespace("dd:apps$Namespace", ns,
                        all \cup {<<"dd:apps", "Namespace", ns>>}, o)
  IN {Component("dd:apps", "mutated", opts),
      Namespace("dd:apps", nsWithout, all), Namespace("dd:apps", nsWith, all),
      child(nsWithout, MutatedDeployment("mutated")),
      child(nsWith, MutatedDeployment("mutated-with-lib-annotation")),
      child(nsWith, MutatedDeployment("mutated-with-auto-detected-language"))}

----------------------------------------------------------------------------
(* Applications on Fargate, with the Agent in a side car.                  *)

(* The secret with the token of the cluster Agent, an account, and a role  *)
(* of the whole cluster that is bound to it.                               *)
DatadogSecret(ns, token) ==
  Awaiting(Object("Secret", ns \o "-datadog-secret", "datadog-secret"), token)

SidecarAccount(ns) == Object("ServiceAccount", ns \o "-datadog-service-account",
                             "datadog-service-account")

(* An object of the whole cluster.                                         *)
ClusterObject(kind, name, after) ==
  Resource(<<"dd:apps", kind, name>>, after, {<<kind, "", name>>}, {})

SidecarPermissions(name, ns, token, opts) ==
  LET all  == opts \cup {App(name), <<"dd:apps", "Namespace", ns>>}
      sa   == <<"dd:apps", "ServiceAccount", SidecarAccount(ns).name>>
      role == ClusterObject("ClusterRole", ns \o "-datadog-cluster-role", all)
  IN {InNamespace("dd:apps", ns, all, o) :
        o \in {DatadogSecret(ns, token), SidecarAccount(ns)}}
     \cup {role, ClusterObject("ClusterRoleBinding",
                   ns \o "-datadog-cluster-role-binding", all \cup {sa, role.urn})}

(* A pod with the label of the side car.                                   *)
Sidecar(o, ns) == Mutated(o)

NginxFargate(ns, token, opts) ==
  LET sa == <<"dd:apps", "ServiceAccount", SidecarAccount(ns).name>>
  IN SidecarPermissions("nginx-fargate", ns, token, opts)
     \cup Workload("nginx-fargate", ns, opts,
            {Awaiting(Sidecar(NginxDeployment(ns \o "/nginx-fargate"), ns), {sa}),
             NginxService(ns), Sidecar(NginxQuery(ns), ns)})

DogstatsdFargate(ns, token, opts) ==
  LET sa == <<"dd:apps", "ServiceAccount", SidecarAccount(ns).name>>
  IN SidecarPermissions("dogstatsd-fargate", ns, token, opts)
     \cup Workload("dogstatsd-fargate", ns, opts,
            {Awaiting(Sidecar(Deployment("dogstatsd-fargate"), ns), {sa})})
=============================================================================
