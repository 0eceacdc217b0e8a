---------------------------- MODULE MCDomainPlan ----------------------------
(* Configurations for DomainPlan: one set, two sets, and one set without a  *)
(* number of CPUs; the VMs of a set are not listed in the order of their    *)
(* ids.                                                                     *)
EXTENDS DomainPlan

MCVM == 1 .. 3
MCVCpus == [d \in MCVM |-> IF d = 1 THEN 1 ELSE 2]

OneSet == [vms |-> <<3, 1>>, cpus |-> 3]
OtherSet == [vms |-> <<2>>, cpus |-> 3]
Unknown == [vms |-> <<3, 1>>, cpus |-> 0]

MCConfigs == {<<OneSet>>, <<OneSet, OtherSet>>, <<Unknown>>}
MCBusy == {2}
=============================================================================
