------------------------------ MODULE MCAccess ------------------------------
(* Symmetry for the runs of Access that check no liveness. *)
EXTENDS Access, TLC

SessionSymmetry == Permutations(Sessions) \cup Permutations(Rotators)
===============================================================================
