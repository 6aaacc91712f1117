----------------------------- MODULE MCJsonBridge -----------------------------
(* JsonBridge for TLC: a page that scrolls once and one beyond MaxScrolls. *)
EXTENDS JsonBridge, TLC

CONSTANTS r1, r2

MCLastScroll == r1 :> 1 @@ r2 :> 3
=============================================================================
