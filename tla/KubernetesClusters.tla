------------------------- MODULE KubernetesClusters -------------------------
(***************************************************************************)
(* The Kubernetes clusters that programs create (components/kubernetes,    *)
(* scenarios/aws/eks, resources/aws/eks, scenarios/azure/aks and           *)
(* scenarios/gcp/gke), and what runs in all of their nodes.  For each kind *)
(* of cluster there is the set of resources, and the urns that what is     *)
(* installed in it waits for.                                              *)
(***************************************************************************)
EXTENDS HostResources

ClusterComponent(name, opts) == Component("dd:Cluster", name, opts)

KubeProvider(name, after) == Resource(<<"", "Provider", name>>, after, {}, {})

(* A command of a cluster on machine m.                                    *)
ClusterCommand(m, name, after, makes, needs) ==
  Command(m, "dd:Cluster", name, after, makes, needs)

CommandUrn(m, name) == <<"dd:Cluster", "Command", m.name \o "-cmd-" \o name>>

----------------------------------------------------------------------------
(* kind, on a machine.                                                     *)

KindBinary(m) == File(m, "/usr/local/bin/kind")
Kind(m) == <<"KindCluster", m.name, "kind">>

(* Mutant: curl may not be there yet.                                      *)
InstallKindBinaryAtOnce(m, after) ==
  ClusterCommand(m, "kind-install", {}, {KindBinary(m)}, {Package(m, "curl")})

InstallKindBinary(m, after) ==
  ClusterCommand(m, "kind-install", after, {KindBinary(m)}, {Package(m, "curl")})

(* The cluster, from a file, and the file that says how to reach it.       *)
KindCommands(m, name, after) ==
  LET install == InstallKindBinary(m, after)
      config  == CopyInlineFile(m, "dd:Cluster", "kind-cluster-" \o name, after)
      create  == WithDelete(ClusterCommand(m, "kind-create-cluster",
                   after \cup {config.urn, install.urn}, {Kind(m)},
                   config.makes \cup {KindBinary(m), Service_(m, "docker")}))
  IN {install, config, create,
      ClusterCommand(m, "kind-kubeconfig", after \cup {create.urn},
                     {<<"KubeConfig", m.name, name>>}, {Kind(m), KindBinary(m)})}

NewKindClusterWithConfig(m, name, opts) ==
  LET comp   == ClusterComponent(name, opts)
      all    == opts \cup {comp.urn}
      curl   == Ensure(m, "dd:Cluster", "curl", all)
      docker == NewManager(After(m, curl), "dd:Cluster", all)
  IN {comp} \cup curl \cup docker
     \cup KindCommands(m, name, all \cup Urns(curl) \cup Urns(docker))

(* What has an output of the cluster waits for.                            *)
KindKubeConfig(m) == {CommandUrn(m, "kind-kubeconfig")}

(* The same on the machine of the developer: no docker to install.         *)
NewLocalKindCluster(m, name, opts) ==
  LET comp   == ClusterComponent(name, opts)
      all    == opts \cup {comp.urn}
      config == WithDelete(ClusterCommand(m, "kind-config", all,
                             {File(m, "/tmp/kind-cluster-" \o name)}, {}))
      create == WithDelete(ClusterCommand(m, "kind-create-cluster",
                             all \cup {config.urn}, {Kind(m)}, config.makes))
  IN {comp, config, create,
      ClusterCommand(m, "kind-kubeconfig", all \cup {create.urn},
                     {<<"KubeConfig", m.name, name>>}, {Kind(m)})}

(* Cilium without kube-proxy asks the cluster for its address from inside. *)
NewKindClusterForCilium(m, name, kubeProxyReplacement, opts) ==
  LET cluster == NewKindClusterWithConfig(m, name, opts)
  IN cluster \cup
     IF kubeProxyReplacement
     THEN {Command(m, m.type, "kube-kubeconfig-internal", opts \cup Urns(cluster),
                   {}, {Kind(m), KindBinary(m)})}
     ELSE {}

----------------------------------------------------------------------------
(* kind with GPUs.                                                         *)

(* Two more runtimes for docker; the check runs a container.               *)
ConfigureContainerToolkit(m, opts) ==
  LET docker == NewManager(m, "", opts)
      all    == opts \cup Urns(docker)
      ctk    == Command(m, m.type, "nvidia-ctk-configure", all,
                        {File(m, "nvidia-ctk")}, {Service_(m, "docker")})
  IN docker \cup
     {ctk, Command(m, m.type, "nvidia-ctk-check", all \cup {ctk.urn}, {},
                   ctk.makes \cup {Service_(m, "docker")})}

Nvkind(m) == File(m, "/usr/local/bin/nvkind")

InstallNvkind(m, all) ==
  LET kind    == InstallKindBinary(m, all)
      kubectl == ClusterCommand(m, "kubectl-install", all, {File(m, "kubectl")}, {})
      golang  == ClusterCommand(m, "golang-install", all, {File(m, "go")}, {})
  IN {kind, kubectl, golang,
      ClusterCommand(m, "nvkind-install",
                     all \cup Urns({kind, kubectl, golang}), {Nvkind(m)},
                     golang.makes)}

InitNvkindCluster(m, name, opts) ==
  LET comp   == ClusterComponent(name, opts)
      all    == opts \cup {comp.urn}
      nvkind == InstallNvkind(m, all)
      ready  == all \cup {CommandUrn(m, "nvkind-install")}
      files  == {CopyInlineFile(m, "dd:Cluster", f, ready) :
                   f \in {"nvkind-config", "nvkind-values"}}
      create == WithDelete(ClusterCommand(m, "nvkind-create", ready \cup Urns(files),
                  {Kind(m)}, Makes(files) \cup {Nvkind(m), KindBinary(m),
                                                File(m, "kubectl"), File(m, "nvidia-ctk")}))
  IN {comp, create} \cup nvkind \cup files \cup
     {ClusterCommand(m, "kind-kubeconfig", ready \cup Urns(files) \cup {create.urn},
                     {<<"KubeConfig", m.name, name>>}, {Kind(m), KindBinary(m)})}

InstallGPUOperator(opts) ==
  LET N == Namespace("Provider", "gpu-operator", opts)
  IN {N, Resource(<<"Provider", "Release", "gpu-operator">>, opts \cup {N.urn},
                  {<<"Release", "gpu-operator", "gpu-operator">>}, N.makes)}

NewNvkindCluster(m, name, opts) ==
  LET toolkit == ConfigureContainerToolkit(m, opts)
      ready   == opts \cup {<<m.type, "Command", m.name \o "-cmd-nvidia-ctk-check">>}
      kube    == KubeProvider("k8s-provider", KindKubeConfig(m))
  IN toolkit \cup InitNvkindCluster(After(m, toolkit), name, ready) \cup {kube}
     \cup InstallGPUOperator(ready \cup {kube.urn})

----------------------------------------------------------------------------
(* OpenShift: on a machine, one command after the other; the secret that   *)
(* the start reads is copied apart.                                        *)

CRC(m) == File(m, "/usr/local/bin/crc")

InstallOpenShiftBinary(m, after) ==
  ClusterCommand(m, "crc-install", after, {CRC(m)}, {})

PullSecret(m) == CopyInlineFile(m, m.type, "/tmp/pull-secret.txt", {})

NewOpenShiftCluster(m, name, opts) ==
  LET comp == ClusterComponent(name, opts)
      all  == opts \cup {comp.urn}
      step(n, after, makes, needs) ==
        ClusterCommand(m, n, all \cup Urns(after), makes, needs)
      crc     == InstallOpenShiftBinary(m, all)
      libvirt == step("install-libvirt", {crc}, {Package(m, "libvirt")}, {})
      linger  == step("enable-linger", {libvirt}, {}, {})
      setup   == step("crc-setup", {PullSecret(m), linger}, {<<"CRC", m.name, "setup">>},
                      {CRC(m), Package(m, "libvirt")})
      start   == WithDelete(step("crc-start", {setup}, {<<"CRC", m.name, "cluster">>},
                   {CRC(m), <<"CRC", m.name, "setup">>} \cup PullSecret(m).makes))
      socat   == step("install-socat", {start}, {Package(m, "socat")}, {})
      proxy   == step("socat-kubeapi-proxy", {socat}, {<<"Port", m.name, "8443">>},
                      {Package(m, "socat"), <<"CRC", m.name, "cluster">>})
  IN {comp, PullSecret(m), crc, libvirt, linger, setup, start, socat, proxy,
      step("get-kubeconfig", {proxy}, {<<"KubeConfig", m.name, name>>},
           {<<"CRC", m.name, "cluster">>})}

OpenShiftKubeConfig(m) == {CommandUrn(m, "get-kubeconfig")}

NewLocalOpenShiftCluster(m, name, opts) ==
  LET comp  == ClusterComponent(name, opts)
      all   == opts \cup {comp.urn}
      setup == ClusterCommand(m, "crc-setup", all, {<<"CRC", m.name, "setup">>}, {})
      start == WithDelete(ClusterCommand(m, "crc-start", all \cup {setup.urn},
                            {<<"CRC", m.name, "cluster">>}, setup.makes))
  IN {comp, setup, start,
      ClusterCommand(m, "get-kubeconfig", all \cup {start.urn},
                     {<<"KubeConfig", m.name, name>>}, start.makes)}

----------------------------------------------------------------------------
(* EKS.                                                                    *)

Role(name) == Resource(<<"", "Role", name>>, {}, {}, {})

EKSNodeRoles == {Role("eks-linux-node-role"), Role("eks-windows-node-role")}

(* The cluster, with Fargate for the pods of the system and for the ones   *)
(* that ask for the side car, and its provider.                            *)
EKSControlPlane(comp) ==
  LET sg      == Resource(<<"", "SecurityGroup", "eks-sg">>, {}, {}, {})
      roles   == {Role("eks-cluster-role")} \cup EKSNodeRoles
      cluster == Resource(<<"dd:Cluster", "Cluster", "eks">>,
                          {comp.urn, sg.urn} \cup Urns(roles),
                          {<<"EKS", "", "eks">>}, {})
  IN {sg, cluster} \cup roles \cup
     {Resource(<<"dd:Cluster", "Provider", "k8s-provider">>,
               {comp.urn, cluster.urn}, {}, {})}

EKSClusterUrn == <<"dd:Cluster", "Cluster", "eks">>
EKSProvider   == <<"dd:Cluster", "Provider", "k8s-provider">>

(* What the network plug-in of the nodes reads when they start.            *)
NewENIConfigs(all) ==
  {Resource(<<"dd:Cluster", "ConfigGroup", "eks-eni-configs">>, all,
            {<<"ENIConfig", "", "eks">>}, {})}

CustomNetwork(all) ==
  LET eni == NewENIConfigs(all)
  IN eni \cup
     {Resource(<<"dd:Cluster", "DaemonSetPatch", "eks-custom-network">>,
               all \cup Urns(eni), {<<"Patch", "kube-system", "aws-node">>}, {})}

WindowsPatch(all) ==
  Resource(<<"dd:Cluster", "ConfigMapPatch", "eks-cni-cm">>, all,
           {<<"Patch", "kube-system", "amazon-vpc-cni">>}, {})

(* NewLinuxNodeGroup and the others: without a launch template, or with    *)
(* one and a group that lets SSH in.                                       *)
NewManagedNodeGroup(name, role, after, needs) ==
  Resource(<<"dd:Cluster", "ManagedNodeGroup", name>>,
           after \cup {<<"dd:Cluster", "Cluster", "eks">>, Role(role).urn},
           {<<"Nodes", "", name>>}, needs)

NewAL2023LaunchTemplate(name, after) ==
  LET ssh == Resource(<<"", "SecurityGroup", name \o "-remote-access-sg">>, {}, {}, {})
  IN {ssh, Resource(<<"dd:Cluster", "LaunchTemplate", name>>, after \cup {ssh.urn},
                    {}, {})}

LinuxNodeGroup(name, al2023, after, needs) ==
  LET template == IF al2023 THEN NewAL2023LaunchTemplate(name \o "-launch-template", after)
                            ELSE {}
  IN template \cup
     {NewManagedNodeGroup(name, "eks-linux-node-role", after \cup Urns(template), needs)}

(* NewCluster.  c: the node groups that are asked for, and whether there   *)
(* are subnets for the pods.  Windows nodes wait for one more patch.       *)
EKSNodeGroups(c, all) ==
  LET network == IF c.podSubnets THEN CustomNetwork(all) ELSE {}
      deps    == all \cup Urns(network)
      reads   == Makes(network)
      patch   == WindowsPatch(all)
  IN network
     \cup UNION {LinuxNodeGroup(g, c.al2023, deps, reads) :
                   g \in c.groups \cap {"linux", "linux-arm"}}
     \cup {NewManagedNodeGroup(g, "eks-linux-node-role", deps, reads) :
             g \in c.groups \cap {"bottlerocket"}}
     \cup IF "windows" \in c.groups
          THEN {patch, NewManagedNodeGroup("windows", "eks-windows-node-role",
                         deps \cup {patch.urn}, reads \cup patch.makes)}
          ELSE {}

NewEKSCluster(c) ==
  LET comp == ClusterComponent("eks", {})
      all  == {comp.urn, EKSProvider}
  IN {comp} \cup EKSControlPlane(comp)
     \cup {Resource(<<"dd:Cluster", "ClusterRoleBinding",
                      "eks-cluster-role-binding-read-only">>, all, {}, {})}
     \cup EKSNodeGroups(c, all)

----------------------------------------------------------------------------
(* AKS and GKE: nothing is a child of the component.                       *)

(* An assumption about the cloud: AKS and Autopilot come with a definition *)
(* of the vertical autoscaler.  The scenarios register autoscalers there   *)
(* and no definition, as they do on every other cluster.                   *)
VerticalAutoscaling == {CRD("VerticalPodAutoscaler")}

NewAKSCluster ==
  LET identity == Resource(<<"", "UserAssignedIdentity", "identity">>, {}, {}, {})
      roles    == {Resource(<<"", "RoleAssignment", n>>, {identity.urn},
                            {<<"Role", "", n>>}, {}) :
                     n \in {"role-assignment", "role-assignment-acr"}}
      cluster  == Resource(<<"", "ManagedCluster", "aks">>,
                           {identity.urn} \cup Urns(roles), VerticalAutoscaling, Makes(roles))
  IN {ClusterComponent("aks", {}), identity, cluster,
      KubeProvider("k8s-provider", {cluster.urn})} \cup roles

NewGKECluster(autopilot) ==
  LET cluster == Resource(<<"", "GKE", "gke">>, {},
                          IF autopilot THEN VerticalAutoscaling ELSE {}, {})
      kube    == KubeProvider("k8s-provider", {cluster.urn})
  IN {ClusterComponent("gke", {}), cluster, kube} \cup
     IF autopilot
     THEN {Resource(<<"", "ConfigGroup", "autopilot-allowlist">>, {kube.urn},
                    {Allowlist}, {})}
     ELSE {}

Provider == {<<"", "Provider", "k8s-provider">>}

----------------------------------------------------------------------------
(* Cilium, Istio, and what a file of definitions holds.                    *)

InstallCilium(opts) ==
  LET comp == Component("dd:cilium", "cilium", opts)
  IN {comp, Resource(<<"dd:cilium", "Release", "cilium">>, opts \cup {comp.urn},
                     {<<"Release", "kube-system", "cilium">>}, {})}

IstioRelease(name, ns, after, makes, needs) ==
  Resource(<<"dd:istio", "Release", name>>, after,
           {<<"Release", ns, name>>} \cup makes, needs \cup {NamespaceObject(ns)})

(* The definitions, the control plane that injects the proxies, a gateway; *)
(* then every pod of the default namespace gets a proxy.                   *)
InstallIstio(opts) ==
  LET comp    == Component("dd:istio", "istio", opts)
      root    == opts \cup {comp.urn}
      system  == Namespace("dd:istio", "istio-system", root)
      base    == IstioRelease("istio-base", "istio-system", root \cup {system.urn},
                              {CRD("Gateway"), CRD("VirtualService")}, {})
      istiod  == IstioRelease("istiod", "istio-system", root \cup Urns({system, base}),
                              {<<"Injector", "", "istio">>}, {CRD("Gateway")})
      ingress == Namespace("dd:istio", "istio-ingress", root \cup {istiod.urn})
      gateway == IstioRelease("istio-ingress", "istio-ingress", root \cup {ingress.urn},
                              {}, {<<"Injector", "", "istio">>})
  IN {comp, system, base, istiod, ingress, gateway,
      Resource(<<"dd:istio", "NamespacePatch", "default">>, root \cup {gateway.urn},
               {<<"Patch", "", "default">>}, {})}

NewHttpbinServiceInstallation(opts) ==
  LET o(kind, after) == Resource(<<"", kind, "httpbin">>, opts \cup Urns(after),
                                 {<<kind, "default", "httpbin">>}, {})
      sa     == o("ServiceAccount", {})
      deploy == o("Deployment", {sa})
  IN {sa, deploy, o("Service", {deploy})}

(* The routes refer to the gateway by its name, and wait for it.           *)
NewHttpbinGatewayRoutesInstallation(opts) ==
  LET o(kind, name, object, after) ==
        Resource(<<"", kind, name>>, opts \cup after,
                 {<<kind, "default", object>>}, {CRD(kind)})
      gateway == o("Gateway", "gateway", "httpbin-gateway", {})
      routes  == o("VirtualService", "virtualservice", "httpbin", {gateway.urn})
  IN {gateway, [routes EXCEPT !.needs = @ \cup gateway.makes],
      Resource(<<"", "ReadService", "istio-ingress">>, opts \cup {routes.urn}, {},
               {<<"Release", "istio-ingress", "istio-ingress">>})}

YAMLWorkload(name, kube) ==
  LET comp == Component("dd:apps", "k8s-apply-" \o name, {})
  IN {comp, Resource(<<"dd:apps", "ConfigFile", name>>, kube \cup {comp.urn}, {}, {})}
=============================================================================
