--------------------------- MODULE ResourceGraph ---------------------------
(***************************************************************************)
(* What one run of the program registers, as a value: a set of resources.  *)
(* A resource has                                                          *)
(*   urn    its parent's type, its own type and its name.  The engine      *)
(*          refuses a program that registers the same urn twice;           *)
(*   after  the urns it waits for: its parent, its provider, DependsOn,    *)
(*          and the resources whose outputs it takes;                      *)
(*   makes  the objects there are outside of the engine once it is created,*)
(*          under names that the program chooses;                          *)
(*   needs  the objects that it refers to by such a name, so that the      *)
(*          engine knows nothing of it.  The provider looks it up when the *)
(*          resource is created;                                           *)
(*   keeps  those of the objects that stay when the resource is deleted: a *)
(*          command without a delete command undoes nothing.               *)
(* Resources with a random name, and what is looked up much later (the     *)
(* service account or the volume of a pod), make and need nothing.         *)
(***************************************************************************)
EXTENDS FiniteSets, Sequences

Resource(urn, after, makes, needs) ==
  [urn |-> urn, after |-> after, makes |-> makes, needs |-> needs, keeps |-> {}]

(* A component has no step of its own: it is there once what it waits for  *)
(* is, and its children wait for it.                                       *)
Component(type, name, after) ==
  Resource(<<"", type, name>>, after, {}, {})

Urns(G) == {r.urn : r \in G}

Makes(G) == UNION {r.makes : r \in G}

(* DependsOn of a component waits for its children, those it has so far.   *)
DependsOn(G) == Urns(G)

(* The urns that r waits for in G, directly or not.                        *)
Before(G, r) ==
  LET closure[S \in SUBSET Urns(G)] ==
        LET T == S \cup UNION {q.after : q \in {q \in G : q.urn \in S}}
        IN IF T \subseteq S THEN S ELSE closure[T]
  IN closure[r.after \cap Urns(G)]

Ordered(G, r, q) == r.urn \in Before(G, q) \/ q.urn \in Before(G, r)

(* All that the resources of G wait for is registered by G.                *)
SelfContained(G) ==
  LET urns == Urns(G) IN IsFiniteSet(urns) /\ \A q \in G : q.after \subseteq urns

----------------------------------------------------------------------------
(* Objects: of a Kubernetes cluster (kind, namespace, name), or of a       *)
(* machine (kind, machine, name).                                          *)

NamespaceObject(ns) == <<"Namespace", "", ns>>
CRD(kind)           == <<"CustomResourceDefinition", "", kind>>
MachineObject(name) == <<"Machine", "", name>>

(* What goes away with object o: all that is in a namespace, all that is   *)
(* on a machine, all of a kind that is not defined any more.               *)
Contents(o, objects) ==
  {x \in objects :
     \/ o = NamespaceObject(x[2])
     \/ o = MachineObject(x[2])
     \/ o = CRD(x[1])}

(* GKE Autopilot only admits the privileged pods that a list allows.       *)
Allowlist == <<"WorkloadAllowlist", "", "datadog">>

(* An object that a workload registers besides its namespace: its kind and *)
(* Pulumi name, its name in the cluster, and what else it waits for.       *)
Object(kind, name, object) ==
  [kind |-> kind, name |-> name, object |-> object, after |-> {}, needs |-> {}]

Deployment(name) == Object("Deployment", name, name)
Service(name)    == Object("Service", name, name)

Needing(o, needs) == [o EXCEPT !.needs = needs]
Awaiting(o, urns) == [o EXCEPT !.after = urns]

InNamespace(owner, ns, after, o) ==
  Resource(<<owner, o.kind, o.name>>, after \cup o.after,
           {<<o.kind, ns, o.object>>}, o.needs \cup {NamespaceObject(ns)})

(* A namespace, and the urn it has.                                        *)
Namespace(owner, ns, after) ==
  Resource(<<owner, "Namespace", ns>>, after, {NamespaceObject(ns)}, {})
=============================================================================
