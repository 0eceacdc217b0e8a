--------------------------- MODULE MicroVMNetwork ---------------------------
(***************************************************************************)
(* The networks of micro-VM groups (scenarios/aws/microVMs/microvms).  A   *)
(* group is one stack; each of its VM sets gets a libvirt network of its   *)
(* own, on a subnet that BuildVMCollections picks while the program runs:  *)
(* the first one that no earlier set of the run has and that no interface  *)
(* of the machine that runs the program has an address in.  The networks   *)
(* are created later, by the engine, one per set in any order, and libvirt *)
(* refuses a network whose subnet is in use on its machine.                *)
(*                                                                         *)
(* The VMs of a local group run on the machine that runs the program, so   *)
(* the program sees the bridges of all local groups, its own included.     *)
(* Those of another group run on a metal instance of its own.              *)
(***************************************************************************)
EXTENDS Integers, Sequences, FiniteSetsExt

CONSTANTS
  Group,       \* stacks
  Local,       \* those whose VMs run where the program runs
  SetID,       \* ids of VM sets
  Configs,     \* the sequences of VM sets that a configuration file may list
  LastSubnet   \* the last subnet that is tried (253 in the code)

ASSUME NetworkAssumption ==
  /\ Local \subseteq Group
  /\ LastSubnet \in Nat
  /\ Configs \subseteq Seq(SetID)

VARIABLES
  stage,      \* "idle", "plan" (the program runs), "apply" or "delete"
  config,     \* the VM sets of the current update
  subnets,    \* collection.subnets: what was picked for each set, or 0
  bridge,     \* the subnet of the network that each set has, or 0
  refused,    \* libvirt refused a network in the last update
  overlapped  \* (ghost) another group was being updated at the same time

vars == <<stage, config, subnets, bridge, refused, overlapped>>

Subnet == 1 .. LastSubnet
Picks == [SetID -> 0 .. LastSubnet]
NoPicks == [s \in SetID |-> 0]

Listed(g) == {config[g][k] : k \in DOMAIN config[g]}

TypeOK ==
  /\ stage \in [Group -> {"idle", "plan", "apply", "delete"}]
  /\ config \in [Group -> Configs \cup {<<>>}]
  /\ subnets \in [Group -> Picks]
  /\ bridge \in [Group -> Picks]
  /\ refused \in [Group -> BOOLEAN]
  /\ overlapped \in [Group -> BOOLEAN]

Init ==
  /\ stage = [g \in Group |-> "idle"]
  /\ config = [g \in Group |-> <<>>]
  /\ subnets = [g \in Group |-> NoPicks]
  /\ bridge = [g \in Group |-> NoPicks]
  /\ refused = [g \in Group |-> FALSE]
  /\ overlapped = [g \in Group |-> FALSE]

(* The update is over: what the program computed is forgotten.             *)
End(g) ==
  /\ stage' = [stage EXCEPT ![g] = "idle"]
  /\ config' = [config EXCEPT ![g] = <<>>]
  /\ subnets' = [subnets EXCEPT ![g] = NoPicks]

----------------------------------------------------------------------------
(* The program runs.                                                       *)

Active(g) == stage[g] # "idle"

Update(g, c) ==
  /\ ~Active(g)
  /\ stage' = [stage EXCEPT ![g] = "plan"]
  /\ config' = [config EXCEPT ![g] = c]
  /\ subnets' = [subnets EXCEPT ![g] = NoPicks]
  /\ refused' = [refused EXCEPT ![g] = FALSE]
  /\ overlapped' = [h \in Group |->
                      IF h = g THEN \E k \in Group \ {g} : Active(k)
                      ELSE overlapped[h] \/ Active(h)]
  /\ UNCHANGED bridge

(* The subnets of the local networks, on the machine of the program.       *)
LocalBridges == {bridge[h][s] : h \in Local, s \in SetID}

(* Mutant: the interfaces are not looked at.                               *)
NothingVisible == {}

(* freeSubnet: the addresses of the interfaces of this machine.            *)
Visible == LocalBridges

(* Mutant: the subnets of the other sets are not looked at.                *)
NothingTaken(g) == {}

(* subnetIsTaken: by another set of this run.                              *)
Taken(g) == {subnets[g][s] : s \in SetID}

(* Mutant: the loop ends one subnet late.                                  *)
FreeToTheEnd(g) == (1 .. LastSubnet + 1) \ (Taken(g) \cup Visible)

Free(g) == Subnet \ (Taken(g) \cup Visible)

(* The first set in the order of the configuration that has no subnet.     *)
NextSet(g, s) ==
  \E k \in DOMAIN config[g] :
    /\ s = config[g][k]
    /\ subnets[g][s] = 0
    /\ \A j \in 1 .. k - 1 : subnets[g][config[g][j]] # 0

PickSubnet(g, s) ==
  /\ stage[g] = "plan"
  /\ NextSet(g, s)
  /\ Free(g) # {}
  /\ subnets' = [subnets EXCEPT ![g][s] = Min(Free(g))]
  /\ UNCHANGED <<stage, config, bridge, refused, overlapped>>

(* Mutant: it looks again until there is one.                              *)
WaitForSubnet(g) ==
  /\ stage[g] = "plan"
  /\ \E s \in Listed(g) : subnets[g][s] = 0
  /\ Free(g) = {}
  /\ UNCHANGED vars

(* "could not find subnet": the program ends with an error.                *)
NoSubnet(g) ==
  /\ stage[g] = "plan"
  /\ \E s \in Listed(g) : subnets[g][s] = 0
  /\ Free(g) = {}
  /\ End(g)
  /\ UNCHANGED <<bridge, refused, overlapped>>

Planned(g) ==
  /\ stage[g] = "plan"
  /\ \A s \in Listed(g) : subnets[g][s] # 0
  /\ stage' = [stage EXCEPT ![g] = "apply"]
  /\ UNCHANGED <<config, subnets, bridge, refused, overlapped>>

----------------------------------------------------------------------------
(* The engine carries it out, and libvirt answers.                         *)

(* On the machine where the networks of g are.                             *)
InUse(g) ==
  IF g \in Local THEN LocalBridges ELSE {bridge[g][s] : s \in SetID}

(* Another address replaces the network, with DeleteBeforeReplace.         *)
DeleteOld(g, s) ==
  /\ stage[g] = "apply"
  /\ s \in Listed(g)
  /\ bridge[g][s] \notin {0, subnets[g][s]}
  /\ bridge' = [bridge EXCEPT ![g][s] = 0]
  /\ UNCHANGED <<stage, config, subnets, refused, overlapped>>

CreateNetwork(g, s) ==
  /\ stage[g] = "apply"
  /\ s \in Listed(g)
  /\ bridge[g][s] = 0
  /\ subnets[g][s] \notin InUse(g)
  /\ bridge' = [bridge EXCEPT ![g][s] = subnets[g][s]]
  /\ UNCHANGED <<stage, config, subnets, refused, overlapped>>

RefuseNetwork(g, s) ==
  /\ stage[g] = "apply"
  /\ s \in Listed(g)
  /\ bridge[g][s] = 0
  /\ subnets[g][s] \in InUse(g)
  /\ refused' = [refused EXCEPT ![g] = TRUE]
  /\ End(g)
  /\ UNCHANGED <<bridge, overlapped>>

StartDeletes(g) ==
  /\ stage[g] = "apply"
  /\ \A s \in Listed(g) : bridge[g][s] = subnets[g][s]
  /\ stage' = [stage EXCEPT ![g] = "delete"]
  /\ UNCHANGED <<config, subnets, bridge, refused, overlapped>>

(* A set that the configuration does not list any more.                    *)
DeleteNetwork(g, s) ==
  /\ stage[g] = "delete"
  /\ s \notin Listed(g)
  /\ bridge[g][s] # 0
  /\ bridge' = [bridge EXCEPT ![g][s] = 0]
  /\ UNCHANGED <<stage, config, subnets, refused, overlapped>>

Finish(g) ==
  /\ stage[g] = "delete"
  /\ \A s \in SetID \ Listed(g) : bridge[g][s] = 0
  /\ End(g)
  /\ UNCHANGED <<bridge, refused, overlapped>>

(* The update fails for another reason, or is cut off.                     *)
Fail(g) ==
  /\ Active(g)
  /\ End(g)
  /\ UNCHANGED <<bridge, refused, overlapped>>

----------------------------------------------------------------------------
Step(g) ==
  \/ NoSubnet(g) \/ Planned(g) \/ StartDeletes(g) \/ Finish(g)
  \/ \E s \in SetID :
       \/ PickSubnet(g, s)
       \/ DeleteOld(g, s) \/ CreateNetwork(g, s) \/ RefuseNetwork(g, s)
       \/ DeleteNetwork(g, s)

Next ==
  \E g \in Group :
    \/ \E c \in Configs \cup {<<>>} : Update(g, c)
    \/ Step(g)
    \/ Fail(g)

Spec == Init /\ [][Next]_vars

(* The program and the engine go on with what they can do.                 *)
FairSpec == Spec /\ \A g \in Group : WF_vars(Step(g))

----------------------------------------------------------------------------
(* Properties.                                                             *)

(* No two VM sets of a group are ever given the same subnet.               *)
SubnetsDistinct ==
  \A g \in Group : \A s, t \in SetID :
    subnets[g][s] # 0 /\ subnets[g][s] = subnets[g][t] => s = t

(* libvirt never refuses a network of a local group that was updated while *)
(* no other group was: looking at the interfaces when the program runs is  *)
(* enough then, whatever earlier updates left behind, since a local group  *)
(* also stays clear of its own networks, those still to be replaced and    *)
(* those of VM sets about to be removed (BuildVMCollections).              *)
SerialNeverRefused ==
  \A g \in Local : refused[g] => overlapped[g]

(* Every update comes to an end.                                           *)
UpdateEnds == \A g \in Group : Active(g) ~> ~Active(g)

(* The inductive invariant behind SerialNeverRefused: an update during     *)
(* which no other group is updated is alone, what it picked is nowhere but *)
(* at the set it was picked for, and every set has a pick when it is       *)
(* carried out.                                                            *)
Alone ==
  \A g, h \in Group : Active(g) /\ Active(h) /\ ~overlapped[g] => h = g

Clear ==
  \A g \in Local : \A s \in SetID :
    Active(g) /\ ~overlapped[g] /\ subnets[g][s] # 0 =>
      \A h \in Local : \A t \in SetID :
        bridge[h][t] = subnets[g][s] => h = g /\ t = s

AllPicked ==
  \A g \in Group : \A s \in Listed(g) :
    stage[g] \in {"apply", "delete"} => subnets[g][s] # 0

IInv ==
  /\ TypeOK
  /\ SubnetsDistinct
  /\ Alone
  /\ Clear
  /\ AllPicked
  /\ SerialNeverRefused

(* No network ever conflicts with another (BuildVMCollections: "This is    *)
(* done dynamically so we can have concurrent micro-vm groups active,      *)
(* without the network conflicting").                                      *)
NoConflict == \A g \in Group : ~refused[g]

(* An update that asks for the VM sets a group already has keeps the       *)
(* subnets of all of them (BuildVMCollections: "Sort the domains so the    *)
(* ips are mapped deterministically across updates").                      *)
SameAddresses ==
  [][\A g \in Group :
       /\ stage[g] = "plan" /\ stage'[g] = "apply"
       /\ {s \in SetID : bridge[g][s] # 0} = Listed(g)
       => subnets[g] = bridge[g]]_vars
=============================================================================
