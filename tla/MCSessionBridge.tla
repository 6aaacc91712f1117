---------------------------- MODULE MCSessionBridge ----------------------------
(* SessionBridge for TLC: viewers are interchangeable. *)
EXTENDS SessionBridge, TLC

Symmetry == Permutations(Viewer)
=============================================================================
