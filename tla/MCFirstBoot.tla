---------------------------- MODULE MCFirstBoot ----------------------------
(* FirstBoot with small sets for TLC. *)
EXTENDS FirstBoot, TLC

(* Nothing distinguishes two names. *)
NameSymmetry == Permutations(Names)
=============================================================================
