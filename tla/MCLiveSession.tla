----------------------------- MODULE MCLiveSession -----------------------------
(* Instances of LiveSession for TLC.                                       *)
EXTENDS LiveSessionProofs

(* The first step holds the job's opening ESC @, the third an @init.       *)
MCResets == [i \in 1..N |-> i % 2]
================================================================================
