-------------------------- MODULE MCDeviceRegistry --------------------------
(* An instance of DeviceRegistry with interchangeable organizations and    *)
(* callables.                                                              *)
EXTENDS DeviceRegistry, TLC

Symmetry == Permutations(Orgs) \union Permutations(Calls)
=============================================================================
