---------------------------- MODULE MCPrintingPackage ----------------------------
(* Instances of PrintingPackage for TLC: its configuration gives every     *)
(* constant a value.                                                       *)
EXTENDS PrintingPackage
================================================================================
