------------------------ MODULE MicroVMNetworkProofs ------------------------
(***************************************************************************)
(* Proofs about MicroVMNetwork, for any number of groups, of VM sets and   *)
(* of subnets: a group that is updated while no other is never sees one of *)
(* its networks refused.                                                   *)
(***************************************************************************)
EXTENDS MicroVMNetwork, WellFoundedInduction, TLAPS

----------------------------------------------------------------------------
(* Facts about the operators.                                              *)

LEMMA ListedSets ==
  ASSUME TypeOK, NEW g \in Group
  PROVE  Listed(g) \subseteq SetID
<1>1. config[g] \in Configs \cup {<<>>}
  BY DEF TypeOK
<1>2. ASSUME NEW c \in Configs, NEW k \in DOMAIN c PROVE c[k] \in SetID
  BY <1>2, NetworkAssumption, c \in Seq(SetID)
<1>3. DOMAIN <<>> = {}
  OBVIOUS
<1> QED BY <1>1, <1>2, <1>3 DEF Listed

LEMMA NoPicksType == NoPicks \in Picks
BY NetworkAssumption DEF NoPicks, Picks

(* What is free is neither taken nor visible, and Min picks one of it.     *)
LEMMA MinFree ==
  ASSUME NEW g \in Group, Free(g) # {}
  PROVE  /\ Min(Free(g)) \in Subnet
         /\ Min(Free(g)) \notin Taken(g) \cup Visible
<1> DEFINE F == Free(g)
<1>1. F \subseteq Nat
  BY NetworkAssumption DEF Free, Subnet
<1>2. PICK x \in F : \A y \in F : x =< y
  <2>1. PICK x \in F : \A y \in F : <<y, x>> \notin OpToRel(<, Nat)
    BY <1>1, WFMin, NatLessThanWellFounded, Zenon
  <2>2. \A y \in F : ~(y < x)
    BY <1>1, <2>1, Zenon DEF OpToRel
  <2> QED BY <1>1, <2>2
<1>3. Min(F) \in F
  BY <1>2 DEF Min
<1> QED BY <1>3 DEF Free

(* Ending an update keeps everything about the other groups.               *)
LEMMA EndIdles ==
  ASSUME TypeOK, NEW g \in Group, End(g)
  PROVE  /\ stage' = [stage EXCEPT ![g] = "idle"]
         /\ ~Active(g)'
         /\ config' \in [Group -> Configs \cup {<<>>}]
         /\ subnets' \in [Group -> Picks]
         /\ \A s \in SetID : subnets'[g][s] = 0
         /\ \A h \in Group \ {g} :
              /\ stage'[h] = stage[h]
              /\ config'[h] = config[h]
              /\ subnets'[h] = subnets[h]
BY NoPicksType DEF End, TypeOK, Active, NoPicks

----------------------------------------------------------------------------
(* Type correctness.                                                       *)

LEMMA InitType == Init => TypeOK
BY NoPicksType DEF Init, TypeOK

LEMMA StepType == TypeOK /\ [Next]_vars => TypeOK'
<1> SUFFICES ASSUME TypeOK, [Next]_vars PROVE TypeOK'
  OBVIOUS
<1>1. ASSUME NEW g \in Group, NEW c \in Configs \cup {<<>>}, Update(g, c)
      PROVE  TypeOK'
  BY <1>1, NoPicksType DEF Update, TypeOK
<1>2. ASSUME NEW g \in Group, NEW s \in SetID, PickSubnet(g, s) PROVE TypeOK'
  <2>1. Min(Free(g)) \in 0 .. LastSubnet
    BY <1>2, MinFree, NetworkAssumption DEF PickSubnet, Subnet
  <2> QED BY <1>2, <2>1 DEF PickSubnet, TypeOK, Picks
<1>3. ASSUME NEW g \in Group, NoSubnet(g) PROVE TypeOK'
  BY <1>3, EndIdles DEF NoSubnet, TypeOK
<1>4. ASSUME NEW g \in Group, Planned(g) PROVE TypeOK'
  BY <1>4 DEF Planned, TypeOK
<1>5. ASSUME NEW g \in Group, NEW s \in SetID, DeleteOld(g, s) PROVE TypeOK'
  BY <1>5, NetworkAssumption DEF DeleteOld, TypeOK, Picks
<1>6. ASSUME NEW g \in Group, NEW s \in SetID, CreateNetwork(g, s) PROVE TypeOK'
  BY <1>6 DEF CreateNetwork, TypeOK, Picks
<1>7. ASSUME NEW g \in Group, NEW s \in SetID, RefuseNetwork(g, s) PROVE TypeOK'
  BY <1>7, EndIdles DEF RefuseNetwork, TypeOK
<1>8. ASSUME NEW g \in Group, StartDeletes(g) PROVE TypeOK'
  BY <1>8 DEF StartDeletes, TypeOK
<1>9. ASSUME NEW g \in Group, NEW s \in SetID, DeleteNetwork(g, s) PROVE TypeOK'
  BY <1>9, NetworkAssumption DEF DeleteNetwork, TypeOK, Picks
<1>10. ASSUME NEW g \in Group, Finish(g) PROVE TypeOK'
  BY <1>10, EndIdles DEF Finish, TypeOK
<1>11. ASSUME NEW g \in Group, Fail(g) PROVE TypeOK'
  BY <1>11, EndIdles DEF Fail, TypeOK
<1>12. ASSUME UNCHANGED vars PROVE TypeOK'
  BY <1>12 DEF vars, TypeOK
<1> QED
  BY <1>1, <1>2, <1>3, <1>4, <1>5, <1>6, <1>7, <1>8, <1>9, <1>10, <1>11, <1>12
  DEF Next, Step

(* Every variable keeps its type (the state BuildVMCollections builds and  *)
(* the networks libvirt has).                                              *)
THEOREM NetworkTypes == Spec => []TypeOK
BY InitType, StepType, PTL DEF Spec

----------------------------------------------------------------------------
(* The inductive invariant.                                                *)

LEMMA InitIInv == Init => IInv
<1> SUFFICES ASSUME Init PROVE IInv
  OBVIOUS
<1>1. TypeOK
  BY InitType
<1>2. \A g \in Group : ~Active(g) /\ ~refused[g] /\ subnets[g] = NoPicks
  BY DEF Init, Active
<1>3. SubnetsDistinct
  BY <1>2 DEF SubnetsDistinct, NoPicks
<1>4. Alone /\ Clear
  BY <1>2, NetworkAssumption DEF Alone, Clear
<1>5. AllPicked
  BY DEF Init, AllPicked
<1>6. SerialNeverRefused
  BY <1>2, NetworkAssumption DEF SerialNeverRefused
<1> QED BY <1>1, <1>3, <1>4, <1>5, <1>6 DEF IInv

(* An update begins: it is alone unless another one is under way, and then *)
(* neither of them is from now on.                                         *)
LEMMA UpdateIInv ==
  ASSUME IInv, NEW g \in Group, NEW c \in Configs \cup {<<>>}, Update(g, c), TypeOK'
  PROVE  IInv'
<1> USE DEF IInv
<1>1. /\ \A h \in Group \ {g} :
           /\ stage'[h] = stage[h] /\ subnets'[h] = subnets[h]
           /\ config'[h] = config[h] /\ refused'[h] = refused[h]
           /\ overlapped'[h] = (overlapped[h] \/ Active(h))
      /\ stage'[g] = "plan" /\ subnets'[g] = NoPicks /\ refused'[g] = FALSE
      /\ overlapped'[g] = (\E k \in Group \ {g} : Active(k))
      /\ bridge' = bridge
  BY DEF Update, TypeOK
<1>2. \A h \in Group \ {g} : Active(h)' <=> Active(h)
  BY <1>1 DEF Active
<1>3. SubnetsDistinct'
  BY <1>1 DEF SubnetsDistinct, NoPicks
<1>4. Alone'
  BY <1>1, <1>2 DEF Alone
<1>5. Clear'
  <2> SUFFICES ASSUME NEW k \in Local, NEW s \in SetID, Active(k)', ~overlapped'[k],
                      subnets'[k][s] # 0,
                      NEW h \in Local, NEW t \in SetID, bridge'[h][t] = subnets'[k][s]
               PROVE  h = k /\ t = s
    BY DEF Clear
  <2>1. k # g
    BY <1>1 DEF NoPicks
  <2>2. Active(k) /\ ~overlapped[k]
    BY <1>1, <1>2, <2>1, NetworkAssumption
  <2> QED BY <1>1, <2>1, <2>2, NetworkAssumption DEF Clear
<1>6. AllPicked'
  BY <1>1 DEF AllPicked, Listed
<1>7. SerialNeverRefused'
  BY <1>1, NetworkAssumption DEF SerialNeverRefused
<1> QED BY <1>3, <1>4, <1>5, <1>6, <1>7

(* What is picked is not visible: no local network has it.                 *)
LEMMA PickIInv ==
  ASSUME IInv, NEW g \in Group, NEW s \in SetID, PickSubnet(g, s), TypeOK'
  PROVE  IInv'
<1> USE DEF IInv
<1> DEFINE m == Min(Free(g))
<1>1. /\ \A h \in Group : h # g => subnets'[h] = subnets[h]
      /\ \A t \in SetID : t # s => subnets'[g][t] = subnets[g][t]
      /\ subnets'[g][s] = m
      /\ UNCHANGED <<stage, config, bridge, refused, overlapped>>
  BY DEF PickSubnet, TypeOK, Picks
<1>2. m \in Subnet /\ m \notin Taken(g) /\ m \notin Visible
  BY MinFree DEF PickSubnet
<1>3. SubnetsDistinct'
  BY <1>1, <1>2 DEF SubnetsDistinct, Taken
<1>4. Alone' /\ SerialNeverRefused'
  BY <1>1 DEF Alone, Active, SerialNeverRefused
<1>5. Clear'
  <2> SUFFICES ASSUME NEW k \in Local, NEW r \in SetID, Active(k)', ~overlapped'[k],
                      subnets'[k][r] # 0,
                      NEW h \in Local, NEW t \in SetID, bridge'[h][t] = subnets'[k][r]
               PROVE  h = k /\ t = r
    BY DEF Clear
  <2>1. CASE k = g /\ r = s
    BY <1>1, <1>2, <2>1 DEF Visible, LocalBridges
  <2>2. CASE ~(k = g /\ r = s)
    <3>1. subnets'[k][r] = subnets[k][r]
      BY <1>1, <2>2, NetworkAssumption
    <3> QED BY <1>1, <3>1 DEF Clear, Active
  <2> QED BY <2>1, <2>2
<1>6. AllPicked'
  BY <1>1 DEF AllPicked, Listed, PickSubnet
<1> QED BY <1>3, <1>4, <1>5, <1>6

(* An update ends without a refusal: nothing is claimed of it any more.    *)
LEMMA EndIInv ==
  ASSUME IInv, NEW g \in Group, End(g), UNCHANGED <<bridge, overlapped>>, TypeOK',
         \A h \in Group : h # g => refused'[h] = refused[h],
         refused'[g] => refused[g] \/ g \notin Local \/ overlapped[g]
  PROVE  IInv'
<1> USE DEF IInv
<1>1. /\ ~Active(g)'
      /\ stage'[g] = "idle"
      /\ \A s \in SetID : subnets'[g][s] = 0
      /\ \A h \in Group \ {g} :
           /\ stage'[h] = stage[h] /\ config'[h] = config[h] /\ subnets'[h] = subnets[h]
  BY EndIdles DEF TypeOK
<1>2. SubnetsDistinct'
  BY <1>1 DEF SubnetsDistinct
<1>3. Alone'
  BY <1>1 DEF Alone, Active
<1>4. Clear'
  BY <1>1, NetworkAssumption DEF Clear, Active
<1>5. AllPicked'
  BY <1>1 DEF AllPicked, Listed
<1>6. SerialNeverRefused'
  BY NetworkAssumption DEF SerialNeverRefused
<1> QED BY <1>2, <1>3, <1>4, <1>5, <1>6

(* A network that goes leaves the others alone.                            *)
LEMMA BridgeGoesIInv ==
  ASSUME IInv, NEW g \in Group, NEW s \in SetID,
         bridge' = [bridge EXCEPT ![g][s] = 0],
         UNCHANGED <<stage, config, subnets, refused, overlapped>>, TypeOK'
  PROVE  IInv'
<1> USE DEF IInv
<1>1. \A h \in Group : \A t \in SetID :
        bridge'[h][t] = bridge[h][t] \/ bridge'[h][t] = 0
  BY DEF TypeOK, Picks
<1>2. Clear'
  BY <1>1, NetworkAssumption DEF Clear, Active
<1> QED BY <1>2 DEF SubnetsDistinct, Alone, Active, AllPicked, Listed, SerialNeverRefused

(* A network comes only at the set that its subnet was picked for.         *)
LEMMA CreateIInv ==
  ASSUME IInv, NEW g \in Group, NEW s \in SetID, CreateNetwork(g, s), TypeOK'
  PROVE  IInv'
<1> USE DEF IInv
<1>1. /\ UNCHANGED <<stage, config, subnets, refused, overlapped>>
      /\ bridge'[g][s] = subnets[g][s]
      /\ \A h \in Group : \A t \in SetID :
           ~(h = g /\ t = s) => bridge'[h][t] = bridge[h][t]
      /\ Active(g)
  BY DEF CreateNetwork, TypeOK, Picks, Active
<1>2. Clear'
  <2> SUFFICES ASSUME NEW k \in Local, NEW r \in SetID, Active(k), ~overlapped[k],
                      subnets[k][r] # 0,
                      NEW h \in Local, NEW t \in SetID, bridge'[h][t] = subnets[k][r]
               PROVE  h = k /\ t = r
    BY <1>1 DEF Clear, Active
  <2>1. CASE h = g /\ t = s
    <3>1. g = k
      BY <1>1, NetworkAssumption DEF Alone
    <3> QED BY <1>1, <2>1, <3>1 DEF SubnetsDistinct
  <2>2. CASE ~(h = g /\ t = s)
    BY <1>1, <2>2, NetworkAssumption DEF Clear
  <2> QED BY <2>1, <2>2
<1> QED
  BY <1>1, <1>2 DEF SubnetsDistinct, Alone, Active, AllPicked, Listed, SerialNeverRefused

(* A local group that is alone is never refused.                           *)
LEMMA RefusedOverlaps ==
  ASSUME IInv, NEW g \in Local, NEW s \in SetID, RefuseNetwork(g, s)
  PROVE  overlapped[g]
<1> USE DEF IInv
<1> SUFFICES ASSUME ~overlapped[g] PROVE FALSE
  OBVIOUS
<1>1. g \in Group /\ Active(g)
  BY NetworkAssumption DEF RefuseNetwork, Active
<1>2. subnets[g][s] # 0
  BY <1>1 DEF AllPicked, RefuseNetwork
<1>3. PICK h \in Local, t \in SetID : bridge[h][t] = subnets[g][s]
  BY DEF RefuseNetwork, InUse, LocalBridges
<1>4. h = g /\ t = s
  BY <1>1, <1>2, <1>3 DEF Clear
<1> QED BY <1>2, <1>3, <1>4 DEF RefuseNetwork

LEMMA StepIInv == IInv /\ [Next]_vars => IInv'
<1> SUFFICES ASSUME IInv, [Next]_vars PROVE IInv'
  OBVIOUS
<1>t. TypeOK /\ TypeOK'
  BY StepType DEF IInv
<1>1. ASSUME NEW g \in Group, NEW c \in Configs \cup {<<>>}, Update(g, c) PROVE IInv'
  BY <1>t, <1>1, UpdateIInv
<1>2. ASSUME NEW g \in Group, NEW s \in SetID, PickSubnet(g, s) PROVE IInv'
  BY <1>t, <1>2, PickIInv
<1>3. ASSUME NEW g \in Group, NoSubnet(g) \/ Finish(g) \/ Fail(g) PROVE IInv'
  BY <1>t, <1>3, EndIInv DEF NoSubnet, Finish, Fail
<1>4. ASSUME NEW g \in Group, Planned(g) PROVE IInv'
  <2>1. /\ \A h \in Group : h # g => stage'[h] = stage[h]
        /\ \A h \in Group : Active(h)' <=> Active(h)
        /\ UNCHANGED <<config, subnets, bridge, refused, overlapped>>
    BY <1>t, <1>4 DEF Planned, TypeOK, Active
  <2>2. AllPicked'
    BY <1>4, <2>1 DEF IInv, AllPicked, Planned, Listed
  <2>3. Clear'
    BY <2>1, NetworkAssumption DEF IInv, Clear
  <2> QED BY <1>t, <2>1, <2>2, <2>3 DEF IInv, SubnetsDistinct, Alone, SerialNeverRefused
<1>5. ASSUME NEW g \in Group, NEW s \in SetID, DeleteOld(g, s) \/ DeleteNetwork(g, s)
      PROVE  IInv'
  BY <1>t, <1>5, BridgeGoesIInv DEF DeleteOld, DeleteNetwork
<1>6. ASSUME NEW g \in Group, NEW s \in SetID, CreateNetwork(g, s) PROVE IInv'
  BY <1>t, <1>6, CreateIInv
<1>7. ASSUME NEW g \in Group, NEW s \in SetID, RefuseNetwork(g, s) PROVE IInv'
  <2>1. g \notin Local \/ overlapped[g]
    BY <1>7, RefusedOverlaps
  <2>2. \A h \in Group : h # g => refused'[h] = refused[h]
    BY <1>t, <1>7 DEF RefuseNetwork, TypeOK
  <2> QED BY <1>t, <1>7, <2>1, <2>2, EndIInv DEF RefuseNetwork
<1>8. ASSUME NEW g \in Group, StartDeletes(g) PROVE IInv'
  <2>1. /\ \A h \in Group : h # g => stage'[h] = stage[h]
        /\ \A h \in Group : Active(h)' <=> Active(h)
        /\ UNCHANGED <<config, subnets, bridge, refused, overlapped>>
        /\ stage[g] = "apply"
    BY <1>t, <1>8 DEF StartDeletes, TypeOK, Active
  <2>2. AllPicked'
    BY <2>1 DEF IInv, AllPicked, Listed
  <2>3. Clear'
    BY <2>1, NetworkAssumption DEF IInv, Clear
  <2> QED BY <1>t, <2>1, <2>2, <2>3 DEF IInv, SubnetsDistinct, Alone, SerialNeverRefused
<1>9. ASSUME UNCHANGED vars PROVE IInv'
  BY <1>t, <1>9 DEF vars, IInv, SubnetsDistinct, Alone, Clear, Active, AllPicked, Listed,
                    SerialNeverRefused
<1> QED
  BY <1>1, <1>2, <1>3, <1>4, <1>5, <1>6, <1>7, <1>8, <1>9 DEF Next, Step

THEOREM Invariance == Spec => []IInv
BY InitIInv, StepIInv, PTL DEF Spec

(* Two VM sets of a group never get the same subnet (subnetIsTaken).       *)
THEOREM DistinctSubnets == Spec => []SubnetsDistinct
<1>1. IInv => SubnetsDistinct
  BY DEF IInv
<1> QED BY <1>1, Invariance, PTL

(* A local group that is updated while no other group is never has a       *)
(* network refused (getMicroVMGroupSubnet looks at the interfaces only     *)
(* when the program runs).                                                 *)
THEOREM AloneNeverRefused == Spec => []SerialNeverRefused
<1>1. IInv => SerialNeverRefused
  BY DEF IInv
<1> QED BY <1>1, Invariance, PTL
=============================================================================
