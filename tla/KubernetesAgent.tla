-------------------------- MODULE KubernetesAgent --------------------------
(***************************************************************************)
(* The Datadog components that run in a Kubernetes cluster: the Agent by   *)
(* its Helm chart, the Agent by the operator, the stand-alone dogstatsd,   *)
(* the CSI driver, and the charts and definitions of third parties that    *)
(* the applications use.  `opts' are the urns that the caller makes a      *)
(* component wait for, the provider of the cluster among them.             *)
(***************************************************************************)
EXTENDS KubernetesApps

(* Named for what a test looks up; nothing waits for it.                   *)
ObjRef(name) == Component("dd:KubernetesObjectRef", name, {})

ObjRefs(base) ==
  {ObjRef(base \o "-" \o role) :
     role \in {"nodeAgent", "clusterAgent", "clusterChecks"}}

(* Helm may create the namespace of a release itself.                      *)
Release(owner, name, ns, after, makes, needs) ==
  Resource(<<owner, "Release", name>>, after,
           {<<"Release", ns, name>>} \cup makes, needs)

(* registries: whether images come from a registry with credentials.       *)
ImagePullSecret(owner, ns, after, registries) ==
  IF registries
  THEN {InNamespace(owner, ns, after,
          Object("Secret", "registry-credentials", "registry-credentials"))}
  ELSE {}

SecretObject(ns) == <<"Secret", ns, "dda-datadog-credentials">>

Credentials(owner, ns, after) ==
  InNamespace(owner, ns, after,
    Object("Secret", "datadog-credentials", "dda-datadog-credentials"))

----------------------------------------------------------------------------
(* The Agent, by Helm.                                                     *)

(* What the chart installs with the values of a Linux cluster: the cluster *)
(* Agent with its admission controller and the metrics it serves.  The     *)
(* values name the secret with the keys.                                   *)
LinuxValues(ns) ==
  [makes |-> {Webhook, CRD("DatadogMetric"), <<"Service", ns, "cluster-agent">>},
   needs |-> {SecretObject(ns)}]

AutopilotValues(ns) ==
  [LinuxValues(ns) EXCEPT !.needs = @ \cup {Allowlist}]

(* No cluster Agent: the nodes join the one of the Linux release, whose    *)
(* service and secret the pods wait for.                                   *)
WindowsValues(ns) == [makes |-> {}, needs |-> {SecretObject(ns)}]

(* The installation is a child of the component that the caller gets.  The *)
(* releases wait for the namespace, the secrets, the token and whatever    *)
(* the caller asked for, fake intake included.                             *)
HelmInstallation(p, opts) ==
  LET owner  == "dd:KubernetesAgent$dd:agent"
      all    == opts \cup {<<"", "dd:agent", "dda">>}
      N      == Namespace(owner, p.ns, all)
      token  == Resource(<<owner, "RandomString", "datadog-cluster-agent-token">>,
                         all, {}, {})
      secret == Credentials(owner, p.ns, all \cup {N.urn})
      pull   == ImagePullSecret(owner, p.ns, all \cup {N.urn, secret.urn},
                                p.registries)
      before == all \cup {N.urn, secret.urn} \cup Urns(pull)
      linux  == IF p.autopilot THEN AutopilotValues(p.ns) ELSE LinuxValues(p.ns)
  IN {Component("dd:agent", "dda", opts), N, token, secret,
      Release(owner, "dda-linux", p.ns, before \cup {token.urn},
              linux.makes, linux.needs)}
     \cup pull
     \cup IF p.windows
          THEN {Release(owner, "dda-windows", p.ns, before,
                        WindowsValues(p.ns).makes, WindowsValues(p.ns).needs)}
          ELSE {}

HelmAgent(p, opts) ==
  {Component("dd:KubernetesAgent", "datadog-agent", {})}
  \cup HelmInstallation(p, opts \cup {<<"", "dd:KubernetesAgent", "datadog-agent">>})
  \cup ObjRefs("dda-linux")
  \cup IF p.windows THEN ObjRefs("dda-windows") ELSE {}

ClusterAgentToken ==
  {<<"dd:KubernetesAgent$dd:agent", "RandomString",
     "datadog-cluster-agent-token">>}

----------------------------------------------------------------------------
(* The Agent, by the operator.                                             *)

(* installCRDs, with those of the Agent and of its metrics.                *)
OperatorValues(ns) ==
  [makes |-> {CRD("DatadogAgent"), CRD("DatadogMetric"),
              <<"Operator", "", "datadog">>},
   needs |-> {SecretObject(ns)}]

OperatorInstallation(ns, registries, opts) ==
  LET owner  == "dd:Operator$dd:operator"
      all    == opts \cup {<<"", "dd:operator", "operator">>}
      N      == Namespace(owner, ns, all)
      secret == Credentials(owner, ns, all \cup {N.urn})
      pull   == ImagePullSecret(owner, ns, all \cup {N.urn, secret.urn}, registries)
  IN {Component("dd:operator", "operator", opts), N, secret,
      Release(owner, "datadog-operator-linux", ns,
              all \cup {N.urn, secret.urn} \cup Urns(pull),
              OperatorValues(ns).makes, OperatorValues(ns).needs)}
     \cup pull

Operator(ns, registries, opts) ==
  {Component("dd:Operator", "dd-operator", {}), ObjRef("datadog-operator")}
  \cup OperatorInstallation(ns, registries, opts \cup {<<"", "dd:Operator", "dd-operator">>})

(* buildDDAConfig: one group of objects, whatever the configuration comes  *)
(* from, with one DatadogAgent.                                            *)
DDAConfig(ns, name, after) ==
  LET group == Component("ConfigGroup", name, after)
  IN {group,
      InNamespace("ConfigGroup", ns, {group.urn},
        Needing(Object("DatadogAgent", ns \o "/" \o name, name),
                {CRD("DatadogAgent"), <<"Operator", "", "datadog">>, SecretObject(ns)}))}

(* dda.K8sAppDefinition: the last Parent wins, so that this is a child of  *)
(* the provider and not of the component that NewDDAWithOperator returns.  *)
DDAWorkload(ns, name, registries, opts) ==
  LET owner  == "dd:agent-with-operator"
      all    == opts \cup {<<"", owner, "dda">>}
      secret == Credentials(owner, ns, all)
      pull   == ImagePullSecret(owner, ns, all \cup {secret.urn}, registries)
  IN {Component(owner, "dda", opts), secret} \cup pull
     \cup DDAConfig(ns, name, all \cup {secret.urn} \cup Urns(pull))

DDAWithOperator(ns, name, registries, opts) ==
  {Component("dd:KubernetesAgent", "datadog-agent-with-operator", {})}
  \cup DDAWorkload(ns, name, registries, opts)
  \cup ObjRefs("dda-with-operator-linux")

----------------------------------------------------------------------------
(* The stand-alone dogstatsd, and the CSI driver.                          *)

(* An account, a role of the whole cluster with a binding, a priority and  *)
(* a DaemonSet, all of one name.  Only the DaemonSet has the secret and the *)
(* address of the fake intake.                                             *)
StandaloneObjects(all, ns, last) ==
  LET owner == "dd:dogstatsd-standalone"
      name  == "dogstatsd-standalone"
      object(kind, after) == InNamespace(owner, ns, after, Object(kind, name, name))
  IN {object("ServiceAccount", all), object("DaemonSet", all \cup last)}
     \cup {Resource(<<owner, kind, name>>, all, {<<kind, "", name>>}, {}) :
             kind \in {"ClusterRole", "ClusterRoleBinding", "PriorityClass"}}

DogstatsdStandalone(ns, registries, fakeintake, opts) ==
  LET owner == "dd:dogstatsd-standalone"
      all   == opts \cup {<<"", owner, "dogstatsd">>}
      N     == Namespace(owner, ns, all)
      pull  == ImagePullSecret(owner, ns, all \cup {N.urn}, registries)
  IN {Component(owner, "dogstatsd", opts), N} \cup pull
     \cup StandaloneObjects(all \cup {N.urn}, ns, Urns(pull) \cup fakeintake)

(* The driver needs the credentials of a registry: without them the program *)
(* ends with an error, once the namespace is registered.                   *)
CSIDriver(registries, kube) ==
  LET N    == Namespace("", "datadog-csi", kube)
      pull == ImagePullSecret("", "datadog-csi", kube \cup {N.urn}, registries)
      all  == kube \cup {N.urn} \cup Urns(pull)
      comp == Component("dd:csi", "datadog-csi", all)
  IN {N} \cup
     IF ~registries THEN {}
     ELSE pull \cup
          {comp, Release("dd:csi", "datadog-csi", "datadog-csi",
                         all \cup {comp.urn}, {<<"CSIDriver", "", "datadog">>},
                         {NamespaceObject("datadog-csi")})}

----------------------------------------------------------------------------
(* Third parties.                                                          *)

VpaCRD(kube) ==
  Resource(<<"", "CustomResourceDefinition", "vertical-pod-autoscaler">>, kube,
           {CRD("VerticalPodAutoscaler")}, {})

(* The release is a child of its namespace.                                *)
ArgoRollouts(opts) ==
  LET all == opts \cup {<<"", "dd:argorollouts", "argorollouts">>}
      N   == Namespace("dd:argorollouts", "argo-rollout", all)
  IN {Component("dd:argorollouts", "argorollouts", opts), N,
      Release("dd:argorollouts$Namespace", "argo-rollouts", "argo-rollout",
              all \cup {N.urn}, {CRD("Rollout")}, {})}
=============================================================================
