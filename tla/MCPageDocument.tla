---------------------------- MODULE MCPageDocument ----------------------------
(* PageDocument with two files, which are strings.                         *)
EXTENDS PageDocument
================================================================================
