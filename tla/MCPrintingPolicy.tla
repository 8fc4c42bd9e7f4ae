---------------------------- MODULE MCPrintingPolicy ----------------------------
(* PrintingPolicy on a small instance; processes and accounts are          *)
(* interchangeable.                                                        *)
EXTENDS PrintingPolicy, TLC

MCSymmetry == Permutations(Procs) \cup Permutations(Accounts)
================================================================================
