----------------------------- MODULE MCLpdSession -----------------------------
(* Instances of LpdSession for TLC.                                        *)
EXTENDS LpdSession

(* Process ids differ, so helpers start at different ports.                *)
CONSTANTS j1, j2
MCOffset == [j \in Jobs |-> IF j = j1 THEN 0 ELSE 1]
================================================================================
