------------------------------ MODULE MCTenancy ------------------------------
(* An instance of Tenancy with a small plan and a larger one that does not  *)
(* limit branches, and interchangeable devices and branches.               *)
EXTENDS Tenancy, TLC

SmallAndLarge == {[employees |-> 1, devices |-> 1, branches |-> 1],
                  [employees |-> 2, devices |-> 2, branches |-> Unlimited]}
Symmetry == Permutations(Devices) \union Permutations(Branches)
=============================================================================
