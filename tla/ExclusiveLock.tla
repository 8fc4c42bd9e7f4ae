----------------------------- MODULE ExclusiveLock -----------------------------
(***************************************************************************)
(* What the installation lock promises: one holder at a time.  A holder    *)
(* leaves by releasing the lock or by dying.                               *)
(***************************************************************************)
CONSTANT Procs

VARIABLE holders

Init == holders = {}

Take(p) == holders = {} /\ holders' = {p}

Leave(p) == holders = {p} /\ holders' = {}

Next == \E p \in Procs : Take(p) \/ Leave(p)

Spec == Init /\ [][Next]_holders
================================================================================
