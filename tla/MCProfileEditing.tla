---------------------------- MODULE MCProfileEditing ----------------------------
(* Instances of ProfileEditing for TLC: its configurations give every      *)
(* constant a value.                                                       *)
EXTENDS ProfileEditing
================================================================================
