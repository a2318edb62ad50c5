-------------------------- MODULE MCResidencyManager --------------------------
(* ResidencyManager for TLC: one-byte pages that are interchangeable, so that *)
(* permuting them is a symmetry.                                             *)
EXTENDS MtpResources, TLC

OneByte == [p \in Pages |-> 1]
PageSymmetry == Permutations(Pages)

(* What admission is decided on never understates what is held, whatever    *)
(* stopped half way: the bytes in VRAM and in pageable RAM, the leases, and  *)
(* what mtp.rs tells the importer of a plan about them.                      *)
BudgetsHold == /\ ComputeDepthCountsLeases /\ PageableWithinBudget
               /\ VramUsageNotUnderstated /\ EstimatesHonest /\ ViewsHonest
=============================================================================
