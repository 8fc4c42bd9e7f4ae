----------------------------- MODULE MCInstallLock -----------------------------
(* An instance of InstallLock for TLC.                                     *)
EXTENDS InstallLock, TLC

(* Processes differ in nothing but their names.                            *)
Symmetry == Permutations(Runs)
================================================================================
