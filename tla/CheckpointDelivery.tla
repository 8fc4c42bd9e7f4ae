-------------------------- MODULE CheckpointDelivery --------------------------
(***************************************************************************)
(* What a live session promises of a job cut into N checkpoint steps,      *)
(* without sockets, bytes or frames.  The host releases a step only after  *)
(* the one before it is confirmed, the printer prints released steps in    *)
(* order and once each, a step is confirmed only after it was printed, and *)
(* the verdict written at the end is one that the counters justify.        *)
(***************************************************************************)
EXTENDS Integers, Sequences

CONSTANT N                        \* number of steps of the job

VARIABLES
  released,                       \* steps handed to the printer
  printed,                        \* log of the steps the printer carried out
  confirmed,                      \* steps the host counts as confirmed
  outcome                         \* "open" until the session is over

vars == <<released, printed, confirmed, outcome>>

(* "known" says that nothing beyond the confirmed steps was released,      *)
(* "unknown" that exactly one step may or may not have been printed,       *)
(* "unreported" that the verdict does not tell.                            *)
Verdicts(c, r) ==
  {"unreported"}
    \cup (IF c = N THEN {"completed"} ELSE {})
    \cup (IF c = r /\ c < N THEN {"cancelled"} ELSE {})
    \cup (IF c = r THEN {"known"} ELSE {"unknown"})

Init ==
  /\ released = 0
  /\ printed = << >>
  /\ confirmed = 0
  /\ outcome = "open"

Release ==
  /\ outcome = "open"
  /\ released = confirmed
  /\ released < N
  /\ released' = released + 1
  /\ outcome' \in {"open"} \cup Verdicts(confirmed, released + 1)
  /\ UNCHANGED <<printed, confirmed>>

PrintStep ==
  /\ Len(printed) < released
  /\ printed' = Append(printed, Len(printed) + 1)
  /\ UNCHANGED <<released, confirmed, outcome>>

Confirm ==
  /\ outcome = "open"
  /\ confirmed < released
  /\ Len(printed) = released
  /\ confirmed' = confirmed + 1
  /\ outcome' \in {"open"} \cup Verdicts(confirmed + 1, released)
  /\ UNCHANGED <<released, printed>>

Stop ==
  /\ outcome = "open"
  /\ outcome' \in Verdicts(confirmed, released)
  /\ UNCHANGED <<released, printed, confirmed>>

Next == Release \/ PrintStep \/ Confirm \/ Stop

Spec == Init /\ [][Next]_vars
===============================================================================
