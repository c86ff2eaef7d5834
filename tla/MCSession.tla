------------------------------ MODULE MCSession ------------------------------
(* Symmetry for the runs of Session that check no liveness. *)
EXTENDS Session, TLC

FingerSymmetry == Permutations(Fingers)
===============================================================================
