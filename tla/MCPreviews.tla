------------------------------- MODULE MCPreviews -------------------------------
(* Previews with two right texts and a wrong one.                          *)
EXTENDS Previews, TLC
================================================================================
