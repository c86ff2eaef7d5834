----------------------------- MODULE MCRequests -----------------------------
(* Symmetry for the runs of Requests that check no liveness. *)
EXTENDS Requests, TLC

RequestSymmetry == Permutations(Requests)
===============================================================================
