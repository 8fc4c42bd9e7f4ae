-------------------------- MODULE MCInstallTransaction --------------------------
(* An instance of InstallTransaction for TLC.                              *)
EXTENDS InstallTransaction, TLC

(* Processes differ in nothing but their names.                            *)
Symmetry == Permutations(Procs)
================================================================================
