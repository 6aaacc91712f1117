--------------------------- MODULE MCSessionManager ---------------------------
(* SessionManager for TLC: sessions are interchangeable. *)
EXTENDS SessionManager, TLC

Symmetry == Permutations(Session)
=============================================================================
