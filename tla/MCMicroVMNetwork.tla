-------------------------- MODULE MCMicroVMNetwork --------------------------
(* Configurations for MicroVMNetwork: a set is added before another, or  *)
(* removed from before it.                                                  *)
EXTENDS MicroVMNetwork

CONSTANTS s1, s2

MCConfigs == {<<s2>>, <<s1, s2>>}
=============================================================================
