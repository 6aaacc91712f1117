---------------------------- MODULE MCStreamReader ----------------------------
(* StreamReader for TLC: a preamble of three blocks, as in the code. *)
EXTENDS StreamReader

MCPreambleSizes == <<1, 2, 1>>
=============================================================================
