----------------------------- MODULE DomainPlan -----------------------------
(***************************************************************************)
(* The micro-VMs of one group (scenarios/aws/microVMs/microvms), across    *)
(* successive updates.  While the program runs it decides, for each VM of  *)
(* each VM set, the CPUs of the host that its vCPUs are pinned to, the     *)
(* port of its gdb server and its IP address; then the engine replaces,    *)
(* starts and removes VMs.                                                 *)
(*                                                                         *)
(* A VM is a number: numbers are ordered as domain ids are.  A VM set is   *)
(* its VMs in the order of the loops over vCPU counts, memory sizes and    *)
(* kernels, with the CPUs its host has for VMs.  Subnets are the subject   *)
(* of MicroVMNetwork: here an IP address is its last byte.                 *)
(***************************************************************************)
EXTENDS Integers, Sequences, FiniteSets, FiniteSetsExt, SequencesExt

CONSTANTS
  VM,         \* domain ids
  VCpus,      \* the vCPUs of each VM
  Configs,    \* the sequences of VM sets that a configuration file may list
  LastCpu,    \* the last CPU of the host
  FirstPort,  \* gdbPortRangeStart
  EndPort,    \* gdbPortRangeEnd, itself not tried
  Busy,       \* ports that other programs of the machine listen on
  Width,      \* values of the last byte of an address (256 in the code)
  None        \* not planned, not running

VMSet == [vms : Seq(VM), cpus : 0 .. LastCpu + 1]

ASSUME DomainAssumption ==
  /\ VM \subseteq Nat /\ IsFiniteSet(VM)
  /\ VCpus \in [VM -> Nat \ {0}]
  /\ Configs \subseteq Seq(VMSet)
  /\ LastCpu \in Nat \ {0}
  /\ FirstPort \in Nat \ {0} /\ EndPort \in Nat /\ FirstPort <= EndPort
  /\ Width \in Nat \ {0}
  /\ None \notin Int

VARIABLES
  stage,     \* "idle", "plan" (the program runs) or "launch" (the engine)
  config,    \* the VM sets of the current update
  gdb,       \* are gdb servers asked for?
  set, next, \* the VM set and the VM in it that are being planned
  vcpu,      \* vCPUs of this VM that are pinned
  cpu,       \* cpuSetStart: the CPU for the next vCPU
  load,      \* vCPUs of this plan pinned to each CPU
  gdbPort,   \* the first port that is tried for the next VM
  plan,      \* the port planned for each VM, 0 for no gdb server
  exported,  \* the address exported for each VM, with the VMs of its set
  running,   \* the port of each VM that runs
  refused    \* how many VM sets an update had that could not start a VM, or 0

planning == <<set, next, vcpu, cpu, load, gdbPort>>
vars == <<stage, config, gdb, planning, plan, exported, running, refused>>

Cpu == 0 .. LastCpu
Port == FirstPort .. EndPort - 1
MaybePort == Port \cup {0, None}
Nowhere == [c \in Cpu |-> 0]
NoVM == [d \in VM |-> None]

Listed == UNION {ToSet(config[k].vms) : k \in DOMAIN config}

TypeOK ==
  /\ stage \in {"idle", "plan", "launch"}
  /\ config \in Configs \cup {<<>>}
  /\ gdb \in BOOLEAN
  /\ set \in 1 .. Len(config) + 1
  /\ next \in Nat \ {0}
  /\ vcpu \in Nat
  /\ cpu \in Cpu
  /\ load \in [Cpu -> Nat]
  /\ gdbPort \in FirstPort .. EndPort
  /\ plan \in [VM -> MaybePort]
  /\ \A d \in VM : exported[d] # None =>
       exported[d].host \in 0 .. Width - 1 /\ exported[d].vms \in Seq(VM)
  /\ running \in [VM -> MaybePort]
  /\ refused \in Nat

Init ==
  /\ stage = "idle"
  /\ config = <<>>
  /\ gdb = FALSE
  /\ set = 1 /\ next = 1 /\ vcpu = 0 /\ cpu = 1
  /\ load = Nowhere
  /\ gdbPort = FirstPort
  /\ plan = NoVM
  /\ exported = NoVM
  /\ running = NoVM
  /\ refused = 0

(* The update is over: what the program computed is forgotten.             *)
End ==
  /\ stage' = "idle"
  /\ config' = <<>>
  /\ gdb' = FALSE
  /\ set' = 1 /\ next' = 1 /\ vcpu' = 0 /\ cpu' = 1
  /\ load' = Nowhere
  /\ gdbPort' = FirstPort
  /\ plan' = NoVM

----------------------------------------------------------------------------
(* The program runs.                                                       *)

Update(c, setupGDB) ==
  /\ stage = "idle"
  /\ stage' = "plan"
  /\ config' = c
  /\ gdb' = setupGDB
  /\ refused' = 0
  /\ UNCHANGED <<planning, plan, exported, running>>

(* The VM being planned, and what is left to do for it.                    *)
Current(d) ==
  /\ stage = "plan"
  /\ set <= Len(config)
  /\ next <= Len(config[set].vms)
  /\ d = config[set].vms[next]

(* Mutant: the CPU after the last one is used too.                         *)
NextCpuPastLast(cpus) == IF cpu + 1 > cpus THEN 1 ELSE cpu + 1

NextCpu(cpus) == IF cpu + 1 >= cpus THEN 1 ELSE cpu + 1

(* getCPUTuneXML, for one vCPU ...                                         *)
PinVCPU(d) ==
  /\ Current(d)
  /\ vcpu < VCpus[d]
  /\ config[set].cpus # 0
  /\ load' = [load EXCEPT ![cpu] = @ + 1]
  /\ cpu' = NextCpu(config[set].cpus)
  /\ vcpu' = vcpu + 1
  /\ UNCHANGED <<stage, config, gdb, set, next, gdbPort, plan, exported, running, refused>>

(* ... and when the configuration does not say how many CPUs there are.    *)
PinNothing(d) ==
  /\ Current(d)
  /\ vcpu < VCpus[d]
  /\ config[set].cpus = 0
  /\ cpu' = 0
  /\ vcpu' = VCpus[d]
  /\ UNCHANGED <<stage, config, gdb, set, next, load, gdbPort, plan, exported, running, refused>>

Pinned(d) == Current(d) /\ vcpu = VCpus[d]

(* isPortFree: nothing on this machine listens on the port, VMs included.  *)
PortFree(p) == p \notin Busy /\ \A d \in VM : running[d] # p

FreePorts == {p \in gdbPort .. EndPort - 1 : PortFree(p)}

Planned(d, port, nextPort) ==
  /\ plan' = [plan EXCEPT ![d] = port]
  /\ gdbPort' = nextPort
  /\ next' = next + 1
  /\ vcpu' = 0
  /\ UNCHANGED <<stage, config, gdb, set, cpu, load, exported, running, refused>>

PlanWithoutGDB(d) ==
  /\ Pinned(d)
  /\ ~gdb
  /\ Planned(d, 0, gdbPort)

(* Mutant: the next VM tries the same port again.                          *)
PlanSamePort(d) ==
  /\ Pinned(d)
  /\ gdb
  /\ FreePorts # {}
  /\ Planned(d, Min(FreePorts), Min(FreePorts))

PlanPort(d) ==
  /\ Pinned(d)
  /\ gdb
  /\ FreePorts # {}
  /\ Planned(d, Min(FreePorts), Min(FreePorts) + 1)

(* Mutant: it looks again until there is one.                              *)
WaitForPort(d) ==
  /\ Pinned(d)
  /\ gdb
  /\ FreePorts = {}
  /\ UNCHANGED vars

(* "could not find free port": the program ends with an error.             *)
NoPort(d) ==
  /\ Pinned(d)
  /\ gdb
  /\ FreePorts = {}
  /\ End
  /\ UNCHANGED <<exported, running, refused>>

(* Mutant: each VM set starts from CPU 1.                                  *)
NextSetFromOne ==
  /\ stage = "plan"
  /\ set <= Len(config)
  /\ next > Len(config[set].vms)
  /\ set' = set + 1
  /\ next' = 1
  /\ cpu' = 1
  /\ gdbPort' = FirstPort
  /\ UNCHANGED <<stage, config, gdb, vcpu, load, plan, exported, running, refused>>

(* CPUs are handed out across VM sets, ports are tried again from the first.*)
NextSet ==
  /\ stage = "plan"
  /\ set <= Len(config)
  /\ next > Len(config[set].vms)
  /\ set' = set + 1
  /\ next' = 1
  /\ gdbPort' = FirstPort
  /\ UNCHANGED <<stage, config, gdb, vcpu, cpu, load, plan, exported, running, refused>>

(* Mutant: the VMs are not sorted.                                         *)
Unsorted == SetToSeqs(Listed)

(* All VMs, gathered in the order of a map and sorted by their ids.        *)
Sorted ==
  {q \in SetToSeqs(Listed) : \A i, j \in DOMAIN q : i < j => q[i] < q[j]}

(* The VMs of set k up to d, in the order of q.                            *)
UpTo(q, k, d) ==
  {i \in DOMAIN q :
     q[i] \in ToSet(config[k].vms) /\ \E j \in DOMAIN q : i <= j /\ q[j] = d}

(* Mutant: the first VM has the address of the gateway.                    *)
HostFromGateway(q, k, d) == Cardinality(UpTo(q, k, d)) % Width

(* The last byte for VM d of set k: the gateway has 1, and getNextVMIP     *)
(* adds one for each VM of the set, wrapping at the end of the byte.       *)
Host(q, k, d) == (1 + Cardinality(UpTo(q, k, d))) % Width

Address ==
  /\ stage = "plan"
  /\ set > Len(config)
  /\ \E q \in Sorted :
       exported' = [d \in VM |->
         IF d \in Listed
         THEN LET k == CHOOSE j \in DOMAIN config : d \in ToSet(config[j].vms)
              IN  [host |-> Host(q, k, d), vms |-> config[k].vms]
         ELSE None]
  /\ stage' = "launch"
  /\ UNCHANGED <<config, gdb, planning, plan, running, refused>>

----------------------------------------------------------------------------
(* The engine carries it out.                                              *)

(* The domain changes with its port, and is replaced, deleted first.       *)
DestroyOld(d) ==
  /\ stage = "launch"
  /\ d \in Listed
  /\ running[d] \notin {None, plan[d]}
  /\ running' = [running EXCEPT ![d] = None]
  /\ UNCHANGED <<stage, config, gdb, planning, plan, exported, refused>>

StartVM(d) ==
  /\ stage = "launch"
  /\ d \in Listed
  /\ running[d] = None
  /\ plan[d] = 0 \/ PortFree(plan[d])
  /\ running' = [running EXCEPT ![d] = plan[d]]
  /\ UNCHANGED <<stage, config, gdb, planning, plan, exported, refused>>

(* The VM cannot listen on its port.                                       *)
RefuseVM(d) ==
  /\ stage = "launch"
  /\ d \in Listed
  /\ running[d] = None
  /\ plan[d] # 0 /\ ~PortFree(plan[d])
  /\ refused' = Len(config)
  /\ End
  /\ UNCHANGED <<exported, running>>

Launched == stage = "launch" /\ \A d \in Listed : running[d] = plan[d]

RemoveVM(d) ==
  /\ Launched
  /\ d \notin Listed
  /\ running[d] # None
  /\ running' = [running EXCEPT ![d] = None]
  /\ UNCHANGED <<stage, config, gdb, planning, plan, exported, refused>>

Finish ==
  /\ Launched
  /\ \A d \in VM \ Listed : running[d] = None
  /\ End
  /\ UNCHANGED <<exported, running, refused>>

(* The update fails for another reason, or is cut off.                     *)
Fail ==
  /\ stage # "idle"
  /\ End
  /\ UNCHANGED <<exported, running, refused>>

----------------------------------------------------------------------------
Step ==
  \/ NextSet \/ Address \/ Finish
  \/ \E d \in VM :
       \/ PinVCPU(d) \/ PinNothing(d)
       \/ PlanWithoutGDB(d) \/ PlanPort(d) \/ NoPort(d)
       \/ DestroyOld(d) \/ StartVM(d) \/ RefuseVM(d) \/ RemoveVM(d)

Next ==
  \/ \E c \in Configs \cup {<<>>}, setupGDB \in BOOLEAN : Update(c, setupGDB)
  \/ Step
  \/ Fail

Spec == Init /\ [][Next]_vars

(* The program and the engine go on with what they can do.                 *)
FairSpec == Spec /\ WF_vars(Step)

----------------------------------------------------------------------------
(* Properties.                                                             *)

Uniform(n) == \A k \in DOMAIN config : config[k].cpus = n

(* When all VM sets of a host say how many CPUs it has, at least two, no   *)
(* vCPU is ever pinned to CPU 0 or to a CPU that is not there, and the     *)
(* vCPUs of all sets are spread over the others evenly                     *)
(* (SetupCollectionDomainConfigurations hands cpusAssigned from one set to *)
(* the next).                                                              *)
PinsSpread ==
  \A n \in 2 .. LastCpu + 1 :
    Uniform(n) =>
      /\ \A c \in Cpu : c = 0 \/ c >= n => load[c] = 0
      /\ \A c, e \in 1 .. n - 1 : load[c] <= load[e] + 1

(* The inductive invariant behind it: every CPU but 0 has been handed out  *)
(* the same number of times, and once more before the next one.            *)
Balanced ==
  \A n \in 2 .. LastCpu + 1 :
    Uniform(n) =>
      /\ cpu \in 1 .. n - 1
      /\ \A c \in Cpu : c = 0 \/ c >= n => load[c] = 0
      /\ \A c \in 1 .. n - 1 :
           load[c] = IF c < cpu THEN load[n - 1] + 1 ELSE load[n - 1]

(* The VMs of a group with a single VM set always get a gdb port that they *)
(* can listen on, whatever VMs of earlier updates, complete or not, still  *)
(* run (GenerateDomainConfigurationsForVMSet).                             *)
SingleSetStarts == refused # 1

(* The inductive invariant behind it: a port that is planned for a VM is   *)
(* planned for no other VM and no other VM has it, and every VM has a plan *)
(* when VMs are started.                                                   *)
Clear ==
  Len(config) = 1 =>
    \A d \in VM : plan[d] \in Port =>
      /\ plan[d] \notin Busy
      /\ stage = "plan" /\ set = 1 => plan[d] < gdbPort
      /\ \A e \in VM : plan[d] \in {plan[e], running[e]} => e = d

AllPlanned ==
  /\ stage = "launch" => set > Len(config)
  /\ \A k \in DOMAIN config : \A i \in DOMAIN config[k].vms :
       k < set \/ (k = set /\ i < next) => plan[config[k].vms[i]] # None

(* Between updates nothing is planned.                                     *)
AtRest ==
  stage = "idle" =>
    /\ config = <<>>
    /\ set = 1 /\ next = 1 /\ vcpu = 0 /\ cpu = 1
    /\ load = Nowhere
    /\ gdbPort = FirstPort
    /\ plan = NoVM

IInv == TypeOK /\ AtRest /\ Balanced /\ Clear /\ AllPlanned /\ SingleSetStarts

(* No two VMs of a set share an address, and none has that of the gateway  *)
(* or of the network, as long as the set fits in the byte (BuildVMCollections, *)
(* getNextVMIP).                                                           *)
AddressesDistinct ==
  \A d \in VM :
    exported[d] # None /\ Len(exported[d].vms) <= Width - 2 =>
      /\ exported[d].host \notin {0, 1}
      /\ \A e \in VM :
           /\ exported[e] # None
           /\ exported[e].vms = exported[d].vms
           /\ exported[e].host = exported[d].host
           => e = d

(* A VM keeps its address in its subnet as long as its own VM set stays    *)
(* the same, whatever order the program goes through its maps in and       *)
(* whatever happens to other sets (BuildVMCollections: "Sort the domains   *)
(* so the ips are mapped deterministically across updates").               *)
SameHost ==
  [][\A d \in VM :
       /\ exported[d] # None /\ exported'[d] # None
       /\ exported[d].vms = exported'[d].vms
       => exported[d].host = exported'[d].host]_vars

(* Every update comes to an end, also when ports run out.                  *)
UpdateEnds == stage # "idle" ~> stage = "idle"
=============================================================================
