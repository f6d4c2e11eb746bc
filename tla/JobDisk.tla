------------------------------- MODULE JobDisk -------------------------------
(***************************************************************************)
(* What the caches of one job share: the job's processes, and a disk whose *)
(* files something may change in place.                                    *)
(***************************************************************************)
EXTENDS Naturals, FiniteSets

CONSTANTS
  Child, None,
  MaxDamage     \* bound: cache files changed in place

ASSUME DiskAssumption == MaxDamage \in Nat

VARIABLE damage
=============================================================================
