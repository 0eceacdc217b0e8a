------------------------------- MODULE Stack -------------------------------
(***************************************************************************)
(* The life of a stack: what `inv deploy' and `inv destroy' make of the    *)
(* programs of module Scenarios, update after update (tasks/deploy.py,     *)
(* tasks/destroy.py).  The engine creates what a program registers in an   *)
(* order that only the dependencies constrain, several steps at a time,    *)
(* and then deletes what the stack has and the program does not register.  *)
(* Module PulumiEngine has the engine in more detail, for the commands of  *)
(* one machine.                                                            *)
(***************************************************************************)
EXTENDS ResourceGraph, Naturals

CONSTANTS
  Configs,     \* the configurations that stacks are deployed with
  Nothing,     \* what a stack is when it is new, and when it is destroyed
  Program,     \* Program[c]: what the program registers with c
  Scenario,    \* Scenario[c]: the scenario that c configures
  Known,       \* <<c, urn>>: the steps of an update to c known to fail
  MaxUpdates,  \* bound on the deploys and destroys of a stack
  MaxStops     \* bound on the steps that fail for a reason of their own

VARIABLES
  scenario,  \* the scenario of the stack
  goal,      \* the last configuration it was deployed with
  phase,     \* "idle", "create" or "delete"
  done,      \* the urns that this update is done with
  live,      \* the resources that the stack has, in their last version
  there,     \* the objects that there are outside of the engine
  retry,     \* whether a destroy that fails is run once more
  updates,   \* deploys and destroys so far
  stops      \* failed steps so far

vars == <<scenario, goal, phase, done, live, there, retry, updates, stops>>

ASSUME NothingAssumption == Nothing \notin Configs /\ Program[Nothing] = {}

(* A program waits for what it has registered.                             *)
ASSUME ProgramAssumption == \A c \in Configs : SelfContained(Program[c])

Wanted == Program[goal]

Init ==
  /\ scenario \in {Scenario[c] : c \in Configs}
  /\ goal = Nothing
  /\ phase = "idle"
  /\ done = {} /\ live = {} /\ there = {}
  /\ retry = FALSE
  /\ updates = 0 /\ stops = 0

----------------------------------------------------------------------------
(* The tasks.                                                              *)

(* Mutant: an update goes on with the urns of the one before.              *)
DeployOn(c) ==
  /\ phase = "idle" /\ ~retry /\ updates < MaxUpdates
  /\ Scenario[c] = scenario
  /\ goal' = c /\ phase' = "create"
  /\ updates' = updates + 1
  /\ UNCHANGED <<scenario, done, live, there, retry, stops>>

Deploy(c) ==
  /\ phase = "idle" /\ ~retry /\ updates < MaxUpdates
  /\ Scenario[c] = scenario
  /\ goal' = c /\ phase' = "create" /\ done' = {}
  /\ updates' = updates + 1
  /\ UNCHANGED <<scenario, live, there, retry, stops>>

(* Mutant: a destroy that fails is not run again.                          *)
DestroyOnce ==
  /\ phase = "idle" /\ ~retry /\ updates < MaxUpdates
  /\ goal' = Nothing /\ phase' = "delete" /\ done' = {}
  /\ updates' = updates + 1
  /\ UNCHANGED <<scenario, live, there, retry, stops>>

Destroy ==
  /\ phase = "idle" /\ ~retry /\ updates < MaxUpdates
  /\ goal' = Nothing /\ phase' = "delete" /\ done' = {} /\ retry' = TRUE
  /\ updates' = updates + 1
  /\ UNCHANGED <<scenario, live, there, stops>>

(* A destroy that failed is run again, once (with a refresh, that finds    *)
(* what is modelled here: nothing changes behind the engine's back).       *)
RetryDestroy ==
  /\ phase = "idle" /\ retry
  /\ phase' = "delete" /\ retry' = FALSE
  /\ UNCHANGED <<scenario, goal, done, live, there, updates, stops>>

----------------------------------------------------------------------------
(* Creations.                                                              *)

IsReady(r) == r.urn \notin done /\ r.after \subseteq done

Ready == {r \in Wanted : IsReady(r)}

(* The update is done with all that the program registers.                 *)
Complete == \A r \in Wanted : r.urn \in done

Old(r) == {q \in live : q.urn = r.urn}

(* The same inputs: the step only records the new dependencies.            *)
Unchanged(r) == \E q \in Old(r) : q.makes = r.makes

(* What a pod finds, or does without, when it starts.                      *)
Soft(o) == o[1] \in {"Webhook", "Injector", "Operator"}

Missing(r) == {o \in r.needs : o \notin there /\ ~Soft(o)}

(* What cannot be created where there is one: kind create cluster, virsh   *)
(* vol-create, docker run --name.                                          *)
Exclusive(o) == o[1] \in {"KindCluster", "Volume", "Fakeintake"}

Taken(r) == {o \in r.makes \cap there : Exclusive(o)}

Refused(r) == ~Unchanged(r) /\ (Missing(r) # {} \/ Taken(r) # {})

(* The engine refuses a program that registers a urn twice.                *)
Duplicates == \E r, q \in Wanted : r # q /\ r.urn = q.urn

Registered(r) ==
  /\ live' = (live \ Old(r)) \cup {r}
  /\ done' = done \cup {r.urn}
  /\ UNCHANGED <<scenario, goal, phase, retry, updates, stops>>

Keep(r) ==
  /\ phase = "create" /\ IsReady(r) /\ Unchanged(r)
  /\ Registered(r)
  /\ UNCHANGED there

(* A new resource, or a new version of one.                                *)
Replaced(r) == UNION {q.makes \ q.keeps : q \in Old(r)}

Create(r) ==
  /\ phase = "create" /\ IsReady(r) /\ ~Unchanged(r) /\ ~Refused(r)
  /\ Registered(r)
  /\ there' = (there \ Replaced(r)) \cup r.makes

Aborted ==
  /\ phase' = "idle"
  /\ UNCHANGED <<scenario, goal, done, live, there, retry, updates>>

(* Mutant: a step that fails is tried for ever.                            *)
RefuseDuplicates ==
  /\ phase = "create"
  /\ Complete /\ Duplicates
  /\ Aborted
  /\ UNCHANGED stops

(* The provider, or a command, or the engine itself says no.               *)
Refuse ==
  /\ phase = "create"
  /\ \/ \E r \in Ready : Refused(r)
     \/ Complete /\ Duplicates
  /\ Aborted
  /\ UNCHANGED stops

(* A step fails for a reason that is not in the program.                   *)
Stop ==
  /\ phase # "idle" /\ stops < MaxStops
  /\ stops' = stops + 1
  /\ Aborted

----------------------------------------------------------------------------
(* Deletions: what the program does not register, dependents first.        *)

StartDeletes ==
  /\ phase = "create"
  /\ Complete /\ ~Duplicates
  /\ phase' = "delete"
  /\ UNCHANGED <<scenario, goal, done, live, there, retry, updates, stops>>

Unwanted == LET urns == Urns(Wanted) IN {r \in live : r.urn \notin urns}

HasDependents(r) == \E q \in live : r.urn \in q.after

Gone(r) ==
  LET objects == r.makes \ r.keeps
  IN objects \cup UNION {Contents(o, there) : o \in objects}

Delete(r) ==
  /\ phase = "delete" /\ r \in Unwanted /\ ~HasDependents(r)
  /\ live' = live \ {r}
  /\ there' = there \ Gone(r)
  /\ UNCHANGED <<scenario, goal, phase, done, retry, updates, stops>>

End ==
  /\ phase = "delete" /\ Unwanted = {}
  /\ phase' = "idle" /\ retry' = FALSE
  /\ UNCHANGED <<scenario, goal, done, live, there, updates, stops>>

----------------------------------------------------------------------------
Task == (\E c \in Configs : Deploy(c)) \/ Destroy \/ RetryDestroy

Step ==
  \/ \E r \in Wanted : Keep(r) \/ Create(r)
  \/ Refuse
  \/ StartDeletes
  \/ \E r \in live : Delete(r)
  \/ End

Next == Task \/ Step \/ Stop

Spec == Init /\ [][Next]_vars

(* The engine takes the steps there are; the task waits for its end.       *)
FairSpec == Spec /\ WF_vars(Step \/ RetryDestroy)

----------------------------------------------------------------------------
(* Properties.                                                             *)

Registrable == UNION {Program[c] : c \in Configs}

TypeOK ==
  /\ goal \in Configs \cup {Nothing}
  /\ phase \in {"idle", "create", "delete"}
  /\ done \subseteq Urns(Wanted)
  /\ live \subseteq Registrable

Makers(G, o) == {r \in G : o \in r.makes}

(* An object that a resource refers to by its name, and that the same      *)
(* program makes, is made by something the resource waits for, directly or *)
(* not: no order of the engine's steps looks it up too early.  It is about *)
(* a program as a whole, so that it is checked when an update begins.      *)
InPlace ==
  phase = "create" /\ done = {} =>
    LET M == Makes(Wanted)
    IN \A r \in {r \in Wanted : r.needs \cap M # {} /\ <<goal, r.urn>> \notin Known} :
         LET urns == Before(Wanted, r)
         IN \A o \in r.needs \cap M : \E q \in Makers(Wanted, o) : q.urn \in urns

(* No step is refused for an object that is missing or in the way, after   *)
(* whatever update before, and no program for a urn that it registers      *)
(* twice, but those that are known to be.                                  *)
Served ==
  phase = "create" =>
    /\ \A r \in Ready : Refused(r) => <<goal, r.urn>> \in Known
    /\ done = {} => \A r, q \in Wanted : r # q /\ r.urn = q.urn => <<goal, r.urn>> \in Known

(* What cannot be created twice, a program only creates once: two sets of  *)
(* micro-VMs that have an image in common have one volume of it            *)
(* (libvirt.go:118), even though the sets do not know of each other.       *)
BuiltOnce ==
  phase = "create" /\ done = {} =>
    \A r, q \in {r \in Wanted : \E o \in r.makes : Exclusive(o)} :
      (\E o \in r.makes \cap q.makes : Exclusive(o)) => r = q

(* Two commands of the package manager of a machine never run at the same  *)
(* time, whatever component asked for the packages: one waits for the other *)
(* (generic_packagemanager.go:128).                                        *)
PackageCommand(r) == \E o \in r.makes : o[1] \in {"Package", "PackageLists", "NoPackage"}
OnMachine(r) == {o[2] : o \in r.makes}
PackagesSerial ==
  phase = "create" /\ done = {} =>
    LET packages == {r \in Wanted : PackageCommand(r) /\ r.urn[2] = "Command"}
    IN \A r, q \in packages :
         r # q /\ OnMachine(r) \cap OnMachine(q) # {}
           => <<goal, r.urn>> \in Known \/ <<goal, q.urn>> \in Known \/ Ordered(Wanted, r, q)

(* A stack that is destroyed leaves nothing but what is on the machine of  *)
(* the developer, and the dedicated hosts, that cannot be deleted at once. *)
NothingLeft ==
  phase = "idle" /\ live = {} =>
    \A o \in there : o[2] = "local" \/ o[1] = "DedicatedHost"

(* A destroy leaves an empty stack, even when a step of it fails: it is    *)
(* run once more (destroy.py:57).                                          *)
Destroyed ==
  goal = Nothing /\ phase = "idle" /\ ~retry /\ stops <= 1 => live = {}

(* The deletions at the end of a deploy take nothing away that what stays  *)
(* in the stack has made.  The ways to install the Agent in a cluster have *)
(* their namespace in common, under two urns: going from one to the other  *)
(* deletes it with all it holds.                                           *)
InstallsAgent(r) ==
  r.urn[1] \in {"dd:KubernetesAgent$dd:agent", "dd:Operator$dd:operator",
                "dd:agent-with-operator"}
OthersKept ==
  [][\A r \in live \ live' :
       phase = "delete" /\ ~InstallsAgent(r) /\ <<goal, r.urn>> \notin Known =>
         Makes(live') \cap (there \ there') = {}]_vars

(* An update ends: no two resources wait for each other, or for one that   *)
(* is not registered, and what is to be deleted can be.                    *)
EveryUpdateEnds == phase # "idle" ~> phase = "idle"

(* A DatadogMetric is registered with what defines it, that it waits for:   *)
(* "It also creates a DatadogMetric and an HPA if dependsOnCrd is not nil"  *)
(* (apps/nginx/k8s.go:24).                                                 *)
MetricsDefined ==
  phase = "create" /\ done = {} =>
    \A r \in {r \in Wanted : r.urn[2] = "DatadogMetric"} :
      LET urns == Before(Wanted, r)
      IN CRD("DatadogMetric") \in Makes({q \in Wanted : q.urn \in urns})
=============================================================================
