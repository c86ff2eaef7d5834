---------------------------- MODULE MCSupervisor ----------------------------
(* Supervisor with a set of interchangeable clients, for TLC. *)
EXTENDS Supervisor, TLC

ClientSymmetry == Permutations(Clients)
=============================================================================
