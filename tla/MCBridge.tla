------------------------------ MODULE MCBridge ------------------------------
(* Bridge with small sets for TLC. *)
EXTENDS Bridge, TLC

(* Nothing distinguishes two sessions, or two streams: for larger instances
   that check no liveness. *)
BridgeSymmetry == Permutations(Viewers) \cup Permutations(Streams)
=============================================================================
