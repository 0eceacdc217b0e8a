-------------------------- MODULE DomainPlanProofs --------------------------
(***************************************************************************)
(* Proofs about DomainPlan, for any VMs, VM sets, CPUs and ports: vCPUs    *)
(* are spread evenly over the CPUs but 0, and a group with a single VM set *)
(* never has a VM refused for its gdb port; the addresses of a set are     *)
(* distinct, and stay whatever order the program lists its VMs in.         *)
(***************************************************************************)
EXTENDS DomainPlan, FiniteSetTheorems, WellFoundedInduction, TLAPS

----------------------------------------------------------------------------
(* Facts about the operators.                                              *)

LEMMA ConfigType ==
  ASSUME NEW c \in Configs \cup {<<>>}
  PROVE  /\ c \in Seq(VMSet)
         /\ Len(c) \in Nat
         /\ DOMAIN c = 1 .. Len(c)
         /\ \A k \in DOMAIN c :
              /\ c[k].vms \in Seq(VM)
              /\ c[k].cpus \in 0 .. LastCpu + 1
<1>1. c \in Seq(VMSet)
  <2>1. <<>> \in Seq(VMSet)
    OBVIOUS
  <2> QED BY <2>1, DomainAssumption
<1>2. \A k \in DOMAIN c : c[k] \in VMSet
  BY <1>1
<1> QED BY <1>1, <1>2 DEF VMSet

(* The VM that is planned is one of a VM set of the configuration.         *)
LEMMA CurrentSet ==
  ASSUME TypeOK, NEW d \in VM, Current(d)
  PROVE  /\ set \in DOMAIN config
         /\ next \in DOMAIN config[set].vms
         /\ config[set].cpus \in 0 .. LastCpu + 1
BY ConfigType DEF TypeOK, Current

LEMMA ListedVMs ==
  ASSUME TypeOK
  PROVE  Listed \subseteq VM /\ IsFiniteSet(Listed)
<1>1. Listed \subseteq VM
  BY ConfigType DEF TypeOK, Listed, ToSet
<1> QED BY <1>1, FS_Subset, DomainAssumption

(* What is free is none of the ports that something listens on, and Min    *)
(* picks one of them.                                                      *)
LEMMA MinFree ==
  ASSUME TypeOK, FreePorts # {}
  PROVE  /\ Min(FreePorts) \in Port
         /\ gdbPort <= Min(FreePorts)
         /\ PortFree(Min(FreePorts))
<1> DEFINE F == FreePorts
<1>1. F \subseteq Nat
  BY DomainAssumption DEF FreePorts, TypeOK
<1>2. PICK x \in F : \A y \in F : x =< y
  <2>1. PICK x \in F : \A y \in F : <<y, x>> \notin OpToRel(<, Nat)
    BY <1>1, WFMin, NatLessThanWellFounded, Zenon
  <2>2. \A y \in F : ~(y < x)
    BY <1>1, <2>1, Zenon DEF OpToRel
  <2> QED BY <1>1, <2>2
<1>3. Min(F) \in F
  BY <1>2 DEF Min
<1> QED BY <1>3, DomainAssumption DEF FreePorts, TypeOK, Port

(* An address is a byte.                                                   *)
LEMMA HostType ==
  ASSUME TypeOK, NEW q \in Sorted, NEW k, NEW d
  PROVE  Host(q, k, d) \in 0 .. Width - 1
<1>1. DOMAIN q = 1 .. Cardinality(Listed)
  BY DEF Sorted, SetToSeqs
<1>2. Cardinality(Listed) \in Nat
  BY ListedVMs, FS_CardinalityType
<1>3. IsFiniteSet(1 .. Cardinality(Listed))
  BY <1>2, FS_Interval
<1>4. UpTo(q, k, d) \subseteq 1 .. Cardinality(Listed)
  BY <1>1 DEF UpTo
<1>5. Cardinality(UpTo(q, k, d)) \in Nat
  BY <1>3, <1>4, FS_Subset, FS_CardinalityType
<1> QED BY <1>5, DomainAssumption DEF Host

(* A number that fits in the byte does not wrap.                           *)
LEMMA NoWrap == \A w \in Nat \ {0} : \A x \in 0 .. w - 1 : x % w = x
OBVIOUS

LEMMA EmptyLen == Len(<<>>) = 0
OBVIOUS

LEMMA NoPlan ==
  /\ NoVM \in [VM -> MaybePort]
  /\ Nowhere \in [Cpu -> Nat]
  /\ \A d \in VM : NoVM[d] \notin Port
BY DomainAssumption DEF NoVM, MaybePort, Nowhere, Port

----------------------------------------------------------------------------
(* Type correctness.                                                       *)

(* The end of an update brings every variable of the plan back.            *)
LEMMA EndType ==
  ASSUME TypeOK, End, UNCHANGED <<exported, running>>, refused' \in Nat
  PROVE  TypeOK' /\ AtRest'
<1>1. AtRest'
  BY DEF End, AtRest
<1>2. set' \in 1 .. Len(config') + 1
  BY EmptyLen DEF End
<1>3. cpu' \in Cpu /\ gdbPort' \in FirstPort .. EndPort
  BY DomainAssumption DEF End, Cpu
<1>4. load' \in [Cpu -> Nat] /\ plan' \in [VM -> MaybePort]
  BY NoPlan DEF End
<1>5. stage' \in {"idle", "plan", "launch"} /\ gdb' \in BOOLEAN
  BY DEF End
<1>6. config' \in Configs \cup {<<>>}
  BY DEF End
<1>7. next' \in Nat \ {0} /\ vcpu' \in Nat
  BY DEF End
<1>8. /\ running' \in [VM -> MaybePort]
      /\ \A d \in VM : exported'[d] # None =>
           exported'[d].host \in 0 .. Width - 1 /\ exported'[d].vms \in Seq(VM)
  BY DEF TypeOK
<1> QED BY <1>1, <1>2, <1>3, <1>4, <1>5, <1>6, <1>7, <1>8 DEF TypeOK

LEMMA InitType == Init => TypeOK /\ AtRest
<1> SUFFICES ASSUME Init PROVE TypeOK /\ AtRest
  OBVIOUS
<1>1. set \in 1 .. Len(config) + 1
  BY EmptyLen DEF Init
<1>2. cpu \in Cpu /\ gdbPort \in FirstPort .. EndPort
  BY DomainAssumption DEF Init, Cpu
<1>3. load \in [Cpu -> Nat] /\ plan \in [VM -> MaybePort] /\ running \in [VM -> MaybePort]
  BY NoPlan DEF Init
<1>4. \A d \in VM : exported[d] = None
  BY DEF Init, NoVM
<1>5. stage \in {"idle", "plan", "launch"} /\ gdb \in BOOLEAN
  BY DEF Init
<1>6. config \in Configs \cup {<<>>}
  BY DEF Init
<1>7. next \in Nat \ {0} /\ vcpu \in Nat /\ refused \in Nat
  BY DEF Init
<1>8. TypeOK
  BY <1>1, <1>2, <1>3, <1>4, <1>5, <1>6, <1>7 DEF TypeOK
<1>9. AtRest
  BY DEF Init, AtRest
<1> QED BY <1>8, <1>9

LEMMA StepType == TypeOK /\ AtRest /\ [Next]_vars => TypeOK' /\ AtRest'
<1> SUFFICES ASSUME TypeOK, AtRest, [Next]_vars PROVE TypeOK' /\ AtRest'
  OBVIOUS
<1>1. ASSUME NEW c \in Configs \cup {<<>>}, NEW s \in BOOLEAN, Update(c, s)
      PROVE  TypeOK' /\ AtRest'
  <2>1. set' = 1 /\ config' = c /\ Len(c) \in Nat
    BY <1>1, ConfigType DEF Update, planning, AtRest
  <2> QED BY <1>1, <2>1 DEF Update, planning, TypeOK, AtRest
<1>2. ASSUME NEW d \in VM, PinVCPU(d) PROVE TypeOK' /\ AtRest'
  <2>1. NextCpu(config[set].cpus) \in Cpu
    BY <1>2, CurrentSet, DomainAssumption DEF PinVCPU, NextCpu, TypeOK, Cpu
  <2> QED BY <1>2, <2>1 DEF PinVCPU, Current, TypeOK, AtRest
<1>3. ASSUME NEW d \in VM, PinNothing(d) PROVE TypeOK' /\ AtRest'
  <2>1. cpu' \in Cpu /\ vcpu' \in Nat
    BY <1>3, DomainAssumption DEF PinNothing, Cpu
  <2> QED BY <1>3, <2>1 DEF PinNothing, Current, TypeOK, AtRest
<1>4. ASSUME NEW d \in VM, PlanWithoutGDB(d) PROVE TypeOK' /\ AtRest'
  BY <1>4 DEF PlanWithoutGDB, Pinned, Current, Planned, TypeOK, AtRest, MaybePort
<1>5. ASSUME NEW d \in VM, PlanPort(d) PROVE TypeOK' /\ AtRest'
  <2>1. Min(FreePorts) \in Port /\ Min(FreePorts) + 1 \in FirstPort .. EndPort
    BY <1>5, MinFree, DomainAssumption DEF PlanPort, Port
  <2>2. Min(FreePorts) \in MaybePort
    BY <2>1 DEF MaybePort
  <2> QED BY <1>5, <2>1, <2>2 DEF PlanPort, Pinned, Current, Planned, TypeOK, AtRest
<1>6. ASSUME NEW d \in VM, NoPort(d) PROVE TypeOK' /\ AtRest'
  BY <1>6, EndType DEF NoPort, TypeOK
<1>7. ASSUME NextSet PROVE TypeOK' /\ AtRest'
  <2>1. set + 1 \in 1 .. Len(config) + 1
    BY <1>7, ConfigType DEF NextSet, TypeOK
  <2> QED BY <1>7, <2>1, DomainAssumption DEF NextSet, TypeOK, AtRest
<1>8. ASSUME Address PROVE TypeOK' /\ AtRest'
  <2>1. PICK q \in Sorted :
          exported' = [d \in VM |->
            IF d \in Listed
            THEN LET k == CHOOSE j \in DOMAIN config : d \in ToSet(config[j].vms)
                 IN  [host |-> Host(q, k, d), vms |-> config[k].vms]
            ELSE None]
    BY <1>8 DEF Address
  <2>2. ASSUME NEW d \in VM, exported'[d] # None
        PROVE  exported'[d].host \in 0 .. Width - 1 /\ exported'[d].vms \in Seq(VM)
    <3> DEFINE k == CHOOSE j \in DOMAIN config : d \in ToSet(config[j].vms)
    <3>1. d \in Listed
      BY <2>1, <2>2
    <3>2. k \in DOMAIN config
      BY <3>1 DEF Listed
    <3>3. exported'[d] = [host |-> Host(q, k, d), vms |-> config[k].vms]
      BY <2>1, <3>1
    <3>4. config[k].vms \in Seq(VM)
      BY <3>2, ConfigType DEF TypeOK
    <3>5. Host(q, k, d) \in 0 .. Width - 1
      BY HostType
    <3> HIDE DEF k
    <3> QED BY <3>3, <3>4, <3>5
  <2> QED BY <1>8, <2>2 DEF Address, planning, TypeOK, AtRest
<1>9. ASSUME NEW d \in VM, DestroyOld(d) \/ RemoveVM(d) PROVE TypeOK' /\ AtRest'
  BY <1>9 DEF DestroyOld, RemoveVM, Launched, planning, TypeOK, AtRest, MaybePort
<1>10. ASSUME NEW d \in VM, StartVM(d) PROVE TypeOK' /\ AtRest'
  BY <1>10 DEF StartVM, planning, TypeOK, AtRest
<1>11. ASSUME NEW d \in VM, RefuseVM(d) PROVE TypeOK' /\ AtRest'
  BY <1>11, EndType, ConfigType DEF RefuseVM, TypeOK
<1>12. ASSUME Finish \/ Fail PROVE TypeOK' /\ AtRest'
  BY <1>12, EndType DEF Finish, Fail, TypeOK
<1>13. ASSUME UNCHANGED vars PROVE TypeOK' /\ AtRest'
  BY <1>13 DEF vars, planning, TypeOK, AtRest
<1> QED
  BY <1>1, <1>2, <1>3, <1>4, <1>5, <1>6, <1>7, <1>8, <1>9, <1>10, <1>11, <1>12, <1>13
  DEF Next, Step

(* Every variable keeps its type (what the program computes for a group    *)
(* and the VMs that libvirt runs).                                         *)
THEOREM DomainTypes == Spec => []TypeOK
BY InitType, StepType, PTL DEF Spec

----------------------------------------------------------------------------
(* The CPUs.                                                               *)

LEMMA InitBalanced == Init => Balanced
<1> SUFFICES ASSUME Init, NEW n \in 2 .. LastCpu + 1
             PROVE  /\ cpu \in 1 .. n - 1
                    /\ \A c \in Cpu : c = 0 \/ c >= n => load[c] = 0
                    /\ \A c \in 1 .. n - 1 :
                         load[c] = IF c < cpu THEN load[n - 1] + 1 ELSE load[n - 1]
  BY DEF Balanced
<1> QED BY DomainAssumption DEF Init, Nowhere, Cpu

(* A vCPU more: either the next CPU of the same round is next, or the last *)
(* CPU ends the round.                                                     *)
LEMMA PinBalanced ==
  ASSUME TypeOK, Balanced, NEW d \in VM, PinVCPU(d)
  PROVE  Balanced'
<1>1. set \in DOMAIN config /\ config' = config
  BY CurrentSet DEF PinVCPU
<1> SUFFICES ASSUME NEW n \in 2 .. LastCpu + 1, Uniform(n)
             PROVE  /\ cpu' \in 1 .. n - 1
                    /\ \A c \in Cpu : c = 0 \/ c >= n => load'[c] = 0
                    /\ \A c \in 1 .. n - 1 :
                         load'[c] = IF c < cpu' THEN load'[n - 1] + 1 ELSE load'[n - 1]
  BY <1>1 DEF Balanced, Uniform
<1>2. config[set].cpus = n
  BY <1>1 DEF Uniform
<1>3. cpu' = IF cpu + 1 >= n THEN 1 ELSE cpu + 1
  BY <1>2 DEF PinVCPU, NextCpu
<1>4. /\ cpu \in 1 .. n - 1
      /\ \A c \in Cpu : c = 0 \/ c >= n => load[c] = 0
      /\ \A c \in 1 .. n - 1 :
           load[c] = IF c < cpu THEN load[n - 1] + 1 ELSE load[n - 1]
  BY DEF Balanced
<1>5. 1 .. n - 1 \subseteq Cpu /\ n - 1 \in 1 .. n - 1
  BY DomainAssumption DEF Cpu
<1>6. /\ load'[cpu] = load[cpu] + 1
      /\ \A c \in Cpu : c # cpu => load'[c] = load[c]
  BY <1>4, <1>5 DEF PinVCPU, TypeOK
<1>7. \A c \in Cpu : load[c] \in Nat
  BY DEF TypeOK
<1>8. cpu' \in 1 .. n - 1
  BY <1>3, <1>4
<1>9. \A c \in Cpu : c = 0 \/ c >= n => load'[c] = 0
  BY <1>4, <1>6 DEF Cpu
<1>10. ASSUME NEW c \in 1 .. n - 1
       PROVE  load'[c] = IF c < cpu' THEN load'[n - 1] + 1 ELSE load'[n - 1]
  <2>1. CASE cpu = n - 1
    BY <1>3, <1>4, <1>5, <1>6, <1>7, <2>1
  <2>2. CASE cpu < n - 1
    BY <1>3, <1>4, <1>5, <1>6, <1>7, <2>2
  <2> QED BY <1>4, <2>1, <2>2
<1> QED BY <1>8, <1>9, <1>10

(* What leaves the configuration and the CPUs alone, or ends the update.   *)
LEMMA SameBalanced ==
  ASSUME Balanced, UNCHANGED <<config, cpu, load>>
  PROVE  Balanced'
BY DEF Balanced, Uniform

LEMMA RestBalanced ==
  ASSUME cpu' = 1, load' = Nowhere
  PROVE  Balanced'
<1> SUFFICES ASSUME NEW n \in 2 .. LastCpu + 1
             PROVE  /\ cpu' \in 1 .. n - 1
                    /\ \A c \in Cpu : c = 0 \/ c >= n => load'[c] = 0
                    /\ \A c \in 1 .. n - 1 :
                         load'[c] = IF c < cpu' THEN load'[n - 1] + 1 ELSE load'[n - 1]
  BY DEF Balanced
<1> QED BY DomainAssumption DEF Nowhere, Cpu

LEMMA StepBalanced ==
  ASSUME TypeOK, AtRest, Balanced, [Next]_vars
  PROVE  Balanced'
<1>1. ASSUME NEW c \in Configs \cup {<<>>}, NEW s \in BOOLEAN, Update(c, s)
      PROVE  Balanced'
  BY <1>1, RestBalanced DEF Update, planning, AtRest
<1>2. ASSUME NEW d \in VM, PinVCPU(d) PROVE Balanced'
  BY <1>2, PinBalanced
<1>3. ASSUME NEW d \in VM, PinNothing(d) PROVE Balanced'
  <2>1. set \in DOMAIN config /\ config[set].cpus = 0 /\ config' = config
    BY <1>3, CurrentSet DEF PinNothing
  <2>2. \A n \in 2 .. LastCpu + 1 : ~Uniform(n)'
    BY <2>1 DEF Uniform
  <2> QED BY <2>2 DEF Balanced
<1>4. ASSUME NEW d \in VM,
             \/ PlanWithoutGDB(d) \/ PlanPort(d)
             \/ DestroyOld(d) \/ StartVM(d) \/ RemoveVM(d)
      PROVE  Balanced'
  BY <1>4, SameBalanced
  DEF PlanWithoutGDB, PlanPort, Planned, DestroyOld, StartVM, RemoveVM, planning
<1>5. ASSUME NEW d \in VM, NoPort(d) \/ RefuseVM(d) PROVE Balanced'
  BY <1>5, RestBalanced DEF NoPort, RefuseVM, End
<1>6. ASSUME NextSet \/ Address PROVE Balanced'
  BY <1>6, SameBalanced DEF NextSet, Address, planning
<1>7. ASSUME Finish \/ Fail PROVE Balanced'
  BY <1>7, RestBalanced DEF Finish, Fail, End
<1>8. ASSUME UNCHANGED vars PROVE Balanced'
  BY <1>8, SameBalanced DEF vars, planning
<1> QED BY <1>1, <1>2, <1>3, <1>4, <1>5, <1>6, <1>7, <1>8 DEF Next, Step

----------------------------------------------------------------------------
(* The ports.                                                              *)

(* An update that ends forgets its plan.                                   *)
LEMMA EndClear ==
  ASSUME End
  PROVE  Clear' /\ AllPlanned'
<1>1. Clear'
  BY NoPlan DEF End, Clear
<1>2. AllPlanned'
  <2>1. DOMAIN config' = {}
    BY DEF End
  <2>2. stage' # "launch"
    BY DEF End
  <2> QED BY <2>1, <2>2 DEF AllPlanned
<1> QED BY <1>1, <1>2

(* The port that is planned is past those planned before, and nothing      *)
(* listens on it.                                                          *)
LEMMA PlanClear ==
  ASSUME TypeOK, Clear, NEW d \in VM, PlanPort(d)
  PROVE  Clear'
<1> DEFINE m == Min(FreePorts)
<1>1. /\ m \in Port /\ gdbPort <= m /\ PortFree(m)
  BY MinFree DEF PlanPort
<1>2. /\ plan' = [plan EXCEPT ![d] = m]
      /\ gdbPort' = m + 1
      /\ UNCHANGED <<stage, config, set, running>>
      /\ stage = "plan"
      /\ set <= Len(config)
  BY DEF PlanPort, Planned, Pinned, Current
<1>3. plan'[d] = m /\ \A e \in VM : e # d => plan'[e] = plan[e]
  BY <1>2 DEF TypeOK
<1> HIDE DEF m
<1> SUFFICES ASSUME Len(config) = 1, NEW x \in VM, plan'[x] \in Port
             PROVE  /\ plan'[x] \notin Busy
                    /\ plan'[x] < gdbPort'
                    /\ \A e \in VM : plan'[x] \in {plan'[e], running[e]} => e = x
  BY <1>2 DEF Clear
<1>4. set = 1
  BY <1>2 DEF TypeOK
<1>5. \A e \in VM : plan[e] \in Port => plan[e] < gdbPort /\ plan[e] # m
  BY <1>1, <1>2, <1>4, DomainAssumption DEF Clear, Port, TypeOK
<1>6. CASE x = d
  BY <1>1, <1>2, <1>3, <1>5, <1>6, DomainAssumption DEF PortFree, Port
<1>7. CASE x # d
  <2>1. plan'[x] = plan[x] /\ plan[x] # m
    BY <1>3, <1>5, <1>7
  <2>2. plan[x] < gdbPort'
    BY <1>1, <1>2, <1>5, <2>1, DomainAssumption DEF Port, TypeOK
  <2> QED BY <1>3, <2>1, <2>2 DEF Clear
<1> QED BY <1>6, <1>7

LEMMA StepClear ==
  ASSUME TypeOK, AtRest, Clear, [Next]_vars
  PROVE  Clear'
<1>1. ASSUME NEW c \in Configs \cup {<<>>}, NEW s \in BOOLEAN, Update(c, s)
      PROVE  Clear'
  BY <1>1, NoPlan DEF Update, AtRest, Clear
<1>2. ASSUME NEW d \in VM, PinVCPU(d) \/ PinNothing(d) PROVE Clear'
  BY <1>2 DEF PinVCPU, PinNothing, Clear
<1>3. ASSUME NEW d \in VM, PlanWithoutGDB(d) PROVE Clear'
  <2>1. plan'[d] = 0 /\ \A e \in VM : e # d => plan'[e] = plan[e]
    BY <1>3 DEF PlanWithoutGDB, Planned, TypeOK
  <2>2. 0 \notin Port
    BY DomainAssumption DEF Port
  <2>3. UNCHANGED <<stage, config, set, gdbPort, running>>
    BY <1>3 DEF PlanWithoutGDB, Planned
  <2> QED BY <2>1, <2>2, <2>3 DEF Clear
<1>4. ASSUME NEW d \in VM, PlanPort(d) PROVE Clear'
  BY <1>4, PlanClear
<1>5. ASSUME NEW d \in VM, NoPort(d) \/ RefuseVM(d) PROVE Clear'
  BY <1>5, EndClear DEF NoPort, RefuseVM
<1>6. ASSUME NextSet PROVE Clear'
  BY <1>6 DEF NextSet, Clear, TypeOK
<1>7. ASSUME Address PROVE Clear'
  BY <1>7 DEF Address, planning, Clear
<1>8. ASSUME NEW d \in VM, DestroyOld(d) \/ RemoveVM(d) PROVE Clear'
  <2>1. \A e \in VM : running'[e] \in {running[e], None}
    BY <1>8 DEF DestroyOld, RemoveVM, TypeOK
  <2>2. None \notin Port
    BY DomainAssumption DEF Port
  <2>3. UNCHANGED <<stage, config, set, gdbPort, plan>>
    BY <1>8 DEF DestroyOld, RemoveVM, planning
  <2> QED BY <2>1, <2>2, <2>3 DEF Clear
<1>9. ASSUME NEW d \in VM, StartVM(d) PROVE Clear'
  <2>1. /\ running'[d] = plan[d]
        /\ \A e \in VM : e # d => running'[e] = running[e]
    BY <1>9 DEF StartVM, TypeOK
  <2>2. UNCHANGED <<stage, config, set, gdbPort, plan>>
    BY <1>9 DEF StartVM, planning
  <2> QED BY <2>1, <2>2 DEF Clear
<1>10. ASSUME Finish \/ Fail PROVE Clear'
  BY <1>10, EndClear DEF Finish, Fail
<1>11. ASSUME UNCHANGED vars PROVE Clear'
  BY <1>11 DEF vars, planning, Clear
<1> QED
  BY <1>1, <1>2, <1>3, <1>4, <1>5, <1>6, <1>7, <1>8, <1>9, <1>10, <1>11 DEF Next, Step

(* No VM set is passed by before all its VMs are planned.                  *)
LEMMA StepAllPlanned ==
  ASSUME TypeOK, AtRest, AllPlanned, [Next]_vars
  PROVE  AllPlanned'
<1>c. /\ DOMAIN config = 1 .. Len(config) /\ Len(config) \in Nat
      /\ \A k \in DOMAIN config : config[k].vms \in Seq(VM)
      /\ set \in Nat /\ next \in Nat
  BY ConfigType DEF TypeOK
<1>1. ASSUME NEW c \in Configs \cup {<<>>}, NEW s \in BOOLEAN, Update(c, s)
      PROVE  AllPlanned'
  <2>1. set' = 1 /\ next' = 1 /\ stage' = "plan" /\ config' = c
    BY <1>1 DEF Update, planning, AtRest
  <2>2. DOMAIN c = 1 .. Len(c) /\ \A k \in DOMAIN c : c[k].vms \in Seq(VM)
    BY ConfigType
  <2>3. ASSUME NEW k \in DOMAIN c, NEW i \in DOMAIN c[k].vms
        PROVE  ~(k < 1 \/ (k = 1 /\ i < 1))
    <3>1. k \in Int /\ k >= 1
      BY <2>2
    <3>2. i \in Int /\ i >= 1
      BY <2>2
    <3> QED BY <3>1, <3>2
  <2> QED BY <2>1, <2>3 DEF AllPlanned
<1>2. ASSUME NEW d \in VM, PinVCPU(d) \/ PinNothing(d) PROVE AllPlanned'
  BY <1>2 DEF PinVCPU, PinNothing, AllPlanned
<1>3. ASSUME NEW d \in VM, NEW p \in Port \cup {0}, NEW n, Current(d), Planned(d, p, n)
      PROVE  AllPlanned'
  <2>1. /\ UNCHANGED <<stage, config, set>> /\ next' = next + 1
        /\ stage = "plan" /\ d = config[set].vms[next]
        /\ plan'[d] = p /\ \A e \in VM : e # d => plan'[e] = plan[e]
    BY <1>3 DEF Planned, Current, TypeOK
  <2>2. p # None
    BY DomainAssumption DEF Port
  <2>3. ASSUME NEW k \in DOMAIN config, NEW i \in DOMAIN config[k].vms,
               k < set \/ (k = set /\ i < next + 1)
        PROVE  plan'[config[k].vms[i]] # None
    <3>1. i \in Int /\ k \in Int /\ config[k].vms[i] \in VM
      BY <1>c
    <3>2. CASE k = set /\ i = next
      BY <2>1, <2>2, <3>2
    <3>3. CASE ~(k = set /\ i = next)
      <4>1. k < set \/ (k = set /\ i < next)
        BY <1>c, <2>3, <3>1, <3>3
      <4>2. plan[config[k].vms[i]] # None
        BY <4>1 DEF AllPlanned
      <4> QED BY <2>1, <2>2, <3>1, <4>2
    <3> QED BY <3>2, <3>3
  <2> QED BY <2>1, <2>3 DEF AllPlanned
<1>4. ASSUME NEW d \in VM, PlanWithoutGDB(d) \/ PlanPort(d) PROVE AllPlanned'
  BY <1>3, <1>4, MinFree DEF PlanWithoutGDB, PlanPort, Pinned
<1>5. ASSUME NEW d \in VM, NoPort(d) \/ RefuseVM(d) PROVE AllPlanned'
  BY <1>5, EndClear DEF NoPort, RefuseVM
<1>6. ASSUME NextSet PROVE AllPlanned'
  <2>1. /\ UNCHANGED <<stage, config, plan>> /\ set' = set + 1 /\ next' = 1
        /\ stage = "plan" /\ next > Len(config[set].vms)
    BY <1>6 DEF NextSet
  <2>2. ASSUME NEW k \in DOMAIN config, NEW i \in DOMAIN config[k].vms,
               k < set + 1 \/ (k = set + 1 /\ i < 1)
        PROVE  plan[config[k].vms[i]] # None
    <3>1. k \in Int /\ i \in 1 .. Len(config[k].vms) /\ Len(config[k].vms) \in Nat
      BY <1>c
    <3>2. k < set \/ k = set
      BY <1>c, <2>2, <3>1
    <3>3. k < set \/ (k = set /\ i < next)
      BY <1>c, <2>1, <3>1, <3>2
    <3> QED BY <3>3 DEF AllPlanned
  <2> QED BY <2>1, <2>2 DEF AllPlanned
<1>7. ASSUME Address PROVE AllPlanned'
  BY <1>7 DEF Address, planning, AllPlanned
<1>8. ASSUME NEW d \in VM, DestroyOld(d) \/ StartVM(d) \/ RemoveVM(d)
      PROVE  AllPlanned'
  BY <1>8 DEF DestroyOld, StartVM, RemoveVM, planning, AllPlanned
<1>9. ASSUME Finish \/ Fail PROVE AllPlanned'
  BY <1>9, EndClear DEF Finish, Fail
<1>10. ASSUME UNCHANGED vars PROVE AllPlanned'
  BY <1>10 DEF vars, planning, AllPlanned
<1> QED
  BY <1>1, <1>2, <1>4, <1>5, <1>6, <1>7, <1>8, <1>9, <1>10 DEF Next, Step

(* With a single VM set, the port of a VM that is to start is free.        *)
LEMMA NeverRefused ==
  ASSUME TypeOK, Clear, AllPlanned, NEW d \in VM, RefuseVM(d)
  PROVE  Len(config) # 1
<1> SUFFICES ASSUME Len(config) = 1 PROVE FALSE
  OBVIOUS
<1>1. PICK k \in DOMAIN config : \E i \in DOMAIN config[k].vms : d = config[k].vms[i]
  BY DEF RefuseVM, Listed, ToSet
<1>2. k < set
  BY <1>1, ConfigType DEF RefuseVM, AllPlanned, TypeOK
<1>3. plan[d] # None
  BY <1>1, <1>2 DEF AllPlanned
<1>4. plan[d] \in Port
  BY <1>3 DEF RefuseVM, TypeOK, MaybePort
<1>5. plan[d] \notin Busy
  BY <1>4 DEF Clear
<1>6. PICK e \in VM : running[e] = plan[d]
  BY <1>5 DEF RefuseVM, PortFree
<1>7. e = d
  BY <1>4, <1>6 DEF Clear
<1> QED BY <1>3, <1>6, <1>7 DEF RefuseVM

----------------------------------------------------------------------------
(* The inductive invariant.                                                *)

LEMMA InitIInv == Init => IInv
<1> SUFFICES ASSUME Init PROVE IInv
  OBVIOUS
<1>1. Clear
  BY NoPlan DEF Init, Clear
<1>2. AllPlanned
  <2>1. DOMAIN config = {} /\ stage # "launch"
    BY DEF Init
  <2> QED BY <2>1 DEF AllPlanned
<1>3. SingleSetStarts
  BY DEF Init, SingleSetStarts
<1> QED BY <1>1, <1>2, <1>3, InitType, InitBalanced DEF IInv

LEMMA StepIInv == IInv /\ [Next]_vars => IInv'
<1> SUFFICES ASSUME IInv, [Next]_vars PROVE IInv'
  OBVIOUS
<1>1. TypeOK /\ AtRest /\ Balanced /\ Clear /\ AllPlanned /\ SingleSetStarts
  BY DEF IInv
<1>2. TypeOK' /\ AtRest' /\ Balanced' /\ Clear' /\ AllPlanned'
  BY <1>1, StepType, StepBalanced, StepClear, StepAllPlanned
<1>3. SingleSetStarts'
  <2>1. CASE \E d \in VM : RefuseVM(d)
    BY <1>1, <2>1, NeverRefused DEF RefuseVM, SingleSetStarts
  <2>2. CASE ~\E d \in VM : RefuseVM(d)
    <3>1. refused' \in {refused, 0}
      BY <2>2
      DEF Next, Step, vars, planning, Update, NextSet, Address, Finish, Fail,
          PinVCPU, PinNothing, PlanWithoutGDB, PlanPort, NoPort, Planned,
          DestroyOld, StartVM, RemoveVM
    <3> QED BY <1>1, <3>1 DEF SingleSetStarts
  <2> QED BY <2>1, <2>2
<1> QED BY <1>2, <1>3 DEF IInv

THEOREM Invariance == Spec => []IInv
BY InitIInv, StepIInv, PTL DEF Spec

(* However many VM sets, VMs and vCPUs there are, the vCPUs are spread     *)
(* evenly over the CPUs of the host but CPU 0 (getCPUTuneXML).             *)
THEOREM PinsAreSpread == Spec => []PinsSpread
<1>1. IInv => PinsSpread
  <2> SUFFICES ASSUME IInv, NEW n \in 2 .. LastCpu + 1, Uniform(n)
               PROVE  /\ \A c \in Cpu : c = 0 \/ c >= n => load[c] = 0
                      /\ \A c, e \in 1 .. n - 1 : load[c] <= load[e] + 1
    BY DEF PinsSpread
  <2>1. /\ \A c \in Cpu : c = 0 \/ c >= n => load[c] = 0
        /\ \A c \in 1 .. n - 1 :
             load[c] = IF c < cpu THEN load[n - 1] + 1 ELSE load[n - 1]
    BY DEF IInv, Balanced
  <2>2. load[n - 1] \in Nat
    BY DomainAssumption DEF IInv, TypeOK, Cpu
  <2> QED BY <2>1, <2>2
<1> QED BY <1>1, Invariance, PTL

(* With a single VM set in the configuration no VM is ever refused for its *)
(* gdb port (isPortFree looks at the ports when the program runs, and the  *)
(* VMs start later).                                                       *)
THEOREM SingleSetAlwaysStarts == Spec => []SingleSetStarts
<1>1. IInv => SingleSetStarts
  BY DEF IInv
<1> QED BY <1>1, Invariance, PTL

----------------------------------------------------------------------------
(* The addresses.                                                          *)

(* The place of VM d among the VMs of its set, by the order of their ids.  *)
UpToId(V, d) == {v \in V : v <= d}
Rank(V, d) == Cardinality(UpToId(V, d))

(* Whatever order the program goes through its maps in, the sorted         *)
(* sequence has every VM of the configuration once.                        *)
LEMMA SortedAll ==
  ASSUME TypeOK, NEW q \in Sorted
  PROVE  /\ IsFiniteSet(DOMAIN q) /\ DOMAIN q \subseteq Nat
         /\ q \in Bijection(DOMAIN q, Listed)
         /\ \A i, j \in DOMAIN q : i <= j <=> q[i] <= q[j]
<1> DEFINE n == Cardinality(Listed)
<1>1. n \in Nat /\ IsFiniteSet(Listed) /\ Listed \subseteq Nat
  BY ListedVMs, FS_CardinalityType, DomainAssumption
<1>2. IsFiniteSet(1 .. n) /\ Cardinality(1 .. n) = n
  BY <1>1, FS_Interval
<1>3. /\ q \in [1 .. n -> Listed] /\ DOMAIN q = 1 .. n
      /\ \A i, j \in 1 .. n : i # j => q[i] # q[j]
      /\ \A i, j \in 1 .. n : i < j => q[i] < q[j]
  BY DEF Sorted, SetToSeqs
<1> HIDE DEF n
<1>4. q \in Injection(1 .. n, Listed)
  BY <1>3 DEF Injection, IsInjective
<1>5. q \in Surjection(1 .. n, Listed)
  BY <1>1, <1>2, <1>4, FS_Injection DEF n
<1>6. \A i, j \in 1 .. n : i <= j <=> q[i] <= q[j]
  <2> SUFFICES ASSUME NEW i \in 1 .. n, NEW j \in 1 .. n PROVE i <= j <=> q[i] <= q[j]
    OBVIOUS
  <2>1. q[i] \in Nat /\ q[j] \in Nat /\ i \in Nat /\ j \in Nat
    <3>1. q[i] \in Listed /\ q[j] \in Listed
      BY <1>3
    <3>2. i \in Nat /\ j \in Nat
      BY <1>1
    <3> QED
      BY <1>1, <3>1, <3>2
  <2>2. (i < j => q[i] < q[j]) /\ (j < i => q[j] < q[i])
    BY <1>3
  <2>3. i < j \/ i = j \/ j < i
    BY <2>1
  <2> QED
    BY <2>1, <2>2, <2>3
<1> QED
  BY <1>1, <1>2, <1>3, <1>4, <1>5, <1>6 DEF Bijection

(* The address of a VM tells its place in its set.                         *)
LEMMA HostIsRank ==
  ASSUME TypeOK, NEW q \in Sorted,
         NEW k \in DOMAIN config, NEW d \in ToSet(config[k].vms)
  PROVE  Host(q, k, d) = (1 + Rank(ToSet(config[k].vms), d)) % Width
<1> DEFINE V == ToSet(config[k].vms)
           U == UpTo(q, k, d)
           f == [i \in U |-> q[i]]
<1>1. V \subseteq Listed
  BY DEF Listed
<1>2. /\ IsFiniteSet(DOMAIN q) /\ DOMAIN q \subseteq Nat
      /\ q \in Bijection(DOMAIN q, Listed)
      /\ \A i, j \in DOMAIN q : i <= j <=> q[i] <= q[j]
  BY SortedAll
<1>3. PICK j \in DOMAIN q : q[j] = d
  BY <1>1, <1>2 DEF Bijection, Surjection
<1>4. \A i \in DOMAIN q : i \in U <=> q[i] \in V /\ q[i] <= d
  <2>1. \A i \in DOMAIN q : q[i] = d => i = j
    BY <1>2, <1>3 DEF Bijection, Injection, IsInjective
  <2>2. \A i \in DOMAIN q : i \in U <=> q[i] \in V /\ i <= j
    BY <1>3, <2>1 DEF UpTo
  <2> QED
    BY <1>2, <1>3, <2>2
<1>5. U \subseteq DOMAIN q
  BY DEF UpTo
<1> HIDE DEF V, U
<1>6. f \in Bijection(U, UpToId(V, d))
  <2>1. f \in [U -> UpToId(V, d)]
    BY <1>4, <1>5 DEF UpToId
  <2>2. \A a, b \in U : f[a] = f[b] => a = b
    BY <1>2, <1>5 DEF Bijection, Injection, IsInjective
  <2>3. \A v \in UpToId(V, d) : \E i \in U : f[i] = v
    <3> SUFFICES ASSUME NEW v \in V, v <= d PROVE \E i \in U : f[i] = v
      BY DEF UpToId
    <3>1. PICK i \in DOMAIN q : q[i] = v
      BY <1>1, <1>2 DEF Bijection, Surjection, V
    <3> QED
      BY <3>1, <1>4
  <2> QED
    BY <2>1, <2>2, <2>3 DEF Bijection, Injection, Surjection, IsInjective
<1>7. IsFiniteSet(U)
  BY <1>2, <1>5, FS_Subset
<1>8. ExistsBijection(U, UpToId(V, d))
  BY <1>6 DEF ExistsBijection
<1>9. Cardinality(UpToId(V, d)) = Cardinality(U)
  BY <1>7, <1>8, FS_Bijection
<1> QED
  BY <1>9 DEF Host, Rank, U, V

(* The invariant: the address that a VM has been given tells its place in  *)
(* the set that it had then.                                               *)
Ranked ==
  \A d \in VM : exported[d] # None =>
    /\ d \in ToSet(exported[d].vms)
    /\ exported[d].host = (1 + Rank(ToSet(exported[d].vms), d)) % Width

LEMMA StepRanked == TypeOK /\ Ranked /\ [Next]_vars => Ranked'
<1> SUFFICES ASSUME TypeOK, Ranked, [Next]_vars PROVE Ranked'
  OBVIOUS
<1>1. CASE Address
  <2>1. PICK q \in Sorted :
          exported' = [d \in VM |->
            IF d \in Listed
            THEN LET k == CHOOSE j \in DOMAIN config : d \in ToSet(config[j].vms)
                 IN  [host |-> Host(q, k, d), vms |-> config[k].vms]
            ELSE None]
    BY <1>1 DEF Address
  <2> SUFFICES ASSUME NEW d \in VM, exported'[d] # None
               PROVE  /\ d \in ToSet(exported'[d].vms)
                      /\ exported'[d].host = (1 + Rank(ToSet(exported'[d].vms), d)) % Width
    BY DEF Ranked
  <2> DEFINE k == CHOOSE j \in DOMAIN config : d \in ToSet(config[j].vms)
  <2>2. d \in Listed
    BY <2>1
  <2>3. k \in DOMAIN config /\ d \in ToSet(config[k].vms)
    BY <2>2 DEF Listed
  <2>4. exported'[d] = [host |-> Host(q, k, d), vms |-> config[k].vms]
    BY <2>1, <2>2
  <2> HIDE DEF k
  <2>5. Host(q, k, d) = (1 + Rank(ToSet(config[k].vms), d)) % Width
    BY <2>3, HostIsRank
  <2> QED
    BY <2>3, <2>4, <2>5
<1>2. CASE ~Address
  <2>1. exported' = exported
    BY <1>2
    DEF Next, Step, vars, planning, Update, NextSet, Finish, Fail,
        PinVCPU, PinNothing, PlanWithoutGDB, PlanPort, NoPort, Planned,
        DestroyOld, StartVM, RefuseVM, RemoveVM
  <2> QED
    BY <2>1 DEF Ranked
<1> QED
  BY <1>1, <1>2

LEMMA SpecRanked == Spec => []Ranked
<1>1. Init => Ranked
  BY DEF Init, NoVM, Ranked
<1> QED
  BY <1>1, StepRanked, DomainTypes, PTL DEF Spec

(* A VM is one of the first of its set, and later than those before it.    *)
LEMMA RankGrows ==
  ASSUME NEW V \in SUBSET Nat, IsFiniteSet(V), NEW d \in V
  PROVE  /\ Rank(V, d) \in 1 .. Cardinality(V)
         /\ \A e \in V : Rank(V, e) = Rank(V, d) => e = d
<1>1. ASSUME NEW e \in V
      PROVE  IsFiniteSet(UpToId(V, e)) /\ Rank(V, e) \in Nat /\ Rank(V, e) <= Cardinality(V)
  BY FS_Subset, FS_CardinalityType DEF UpToId, Rank
<1>2. Rank(V, d) # 0
  <2>1. d \in UpToId(V, d)
    BY DEF UpToId
  <2> QED
    BY <1>1, <2>1, FS_EmptySet DEF Rank
<1>3. ASSUME NEW a \in V, NEW b \in V, a <= b, Rank(V, a) = Rank(V, b) PROVE a = b
  <2>1. UpToId(V, a) \in SUBSET UpToId(V, b)
    <3> SUFFICES ASSUME NEW v \in V, v <= a PROVE v <= b
      BY DEF UpToId
    <3>1. v \in Nat /\ a \in Nat /\ b \in Nat
      OBVIOUS
    <3> QED
      BY <1>3, <3>1
  <2>2. UpToId(V, a) = UpToId(V, b)
    BY <1>1, <1>3, <2>1, FS_Subset DEF Rank
  <2>3. b \in UpToId(V, a)
    BY <2>2 DEF UpToId
  <2> QED
    BY <1>3, <2>3 DEF UpToId
<1>4. ASSUME NEW e \in V, Rank(V, e) = Rank(V, d) PROVE e = d
  <2>1. e <= d \/ d <= e
    OBVIOUS
  <2> QED
    BY <1>3, <1>4, <2>1
<1>5. Cardinality(V) \in Nat
  BY FS_CardinalityType
<1> QED
  BY <1>1, <1>2, <1>4, <1>5

(* A sequence has no more elements than it is long.                        *)
LEMMA ElementsBound ==
  ASSUME NEW s \in Seq(VM)
  PROVE  /\ ToSet(s) \subseteq Nat /\ IsFiniteSet(ToSet(s))
         /\ Cardinality(ToSet(s)) <= Len(s) /\ Len(s) \in Nat
<1>1. Len(s) \in Nat /\ DOMAIN s = 1 .. Len(s) /\ s \in [1 .. Len(s) -> VM]
  OBVIOUS
<1>2. s \in Surjection(1 .. Len(s), ToSet(s))
  BY <1>1 DEF Surjection, ToSet
<1>3. IsFiniteSet(1 .. Len(s)) /\ Cardinality(1 .. Len(s)) = Len(s)
  BY <1>1, FS_Interval
<1>4. ToSet(s) \subseteq Nat
  BY <1>1, DomainAssumption DEF ToSet
<1> QED
  BY <1>1, <1>2, <1>3, <1>4, FS_Surjection

(* No two VMs of a set have an address in common, and none has the one of  *)
(* the gateway or of the network, for sets of any size that fits in the    *)
(* byte and any order of the maps of the program (getNextVMIP).            *)
THEOREM AddressesAreDistinct == Spec => []AddressesDistinct
<1>1. TypeOK /\ Ranked => AddressesDistinct
  <2> SUFFICES ASSUME TypeOK, Ranked, NEW d \in VM, exported[d] # None,
                      Len(exported[d].vms) <= Width - 2
               PROVE  /\ exported[d].host \notin {0, 1}
                      /\ \A e \in VM :
                           /\ exported[e] # None
                           /\ exported[e].vms = exported[d].vms
                           /\ exported[e].host = exported[d].host
                           => e = d
    BY DEF AddressesDistinct
  <2> DEFINE V == ToSet(exported[d].vms)
  <2>1. exported[d].vms \in Seq(VM) /\ d \in V
    BY DEF TypeOK, Ranked
  <2>2. V \in SUBSET Nat /\ IsFiniteSet(V) /\ Cardinality(V) <= Width - 2
    <3>1. /\ V \subseteq Nat /\ IsFiniteSet(V) /\ Cardinality(V) <= Len(exported[d].vms)
          /\ Len(exported[d].vms) \in Nat
      BY <2>1, ElementsBound
    <3>2. Cardinality(V) \in Nat
      BY <3>1, FS_CardinalityType
    <3> QED
      BY <3>1, <3>2, DomainAssumption
  <2> HIDE DEF V
  <2>3. ASSUME NEW e \in V
        PROVE  Rank(V, e) \in Nat \ {0} /\ (1 + Rank(V, e)) % Width = 1 + Rank(V, e)
    <3>1. Rank(V, e) \in 1 .. Cardinality(V) /\ Cardinality(V) \in Nat
      BY <2>2, RankGrows, FS_CardinalityType
    <3>2. 1 + Rank(V, e) \in 0 .. Width - 1
      BY <2>2, <3>1, DomainAssumption
    <3>3. (1 + Rank(V, e)) % Width = 1 + Rank(V, e)
      BY <3>2, NoWrap, DomainAssumption
    <3> QED
      BY <3>1, <3>3
  <2>4. exported[d].host = 1 + Rank(V, d)
    BY <2>1, <2>3 DEF Ranked, V
  <2>5. ASSUME NEW e \in VM, exported[e] # None, exported[e].vms = exported[d].vms,
               exported[e].host = exported[d].host
        PROVE  e = d
    <3>1. e \in V /\ exported[e].host = 1 + Rank(V, e)
      BY <2>3, <2>5 DEF Ranked, V
    <3>2. Rank(V, e) = Rank(V, d)
      BY <2>1, <2>3, <2>4, <2>5, <3>1
    <3> QED
      BY <2>1, <2>2, <3>1, <3>2, RankGrows
  <2> QED
    BY <2>1, <2>3, <2>4, <2>5
<1> QED
  BY <1>1, SpecRanked, DomainTypes, PTL

(* A VM keeps its address in its subnet as long as its VM set stays the    *)
(* same, across any updates and in any order of the maps of the program.   *)
THEOREM HostsStay == Spec => SameHost
<1>1. Ranked /\ Ranked' =>
        \A d \in VM :
          /\ exported[d] # None /\ exported'[d] # None
          /\ exported[d].vms = exported'[d].vms
          => exported[d].host = exported'[d].host
  BY DEF Ranked
<1> QED
  BY <1>1, SpecRanked, PTL DEF SameHost
=============================================================================
