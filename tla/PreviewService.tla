----------------------------- MODULE PreviewService -----------------------------
(***************************************************************************)
(* What a preview service promises: every request is answered at most      *)
(* once, and only the newest one, while its page still listens, gets a     *)
(* preview.                                                                *)
(***************************************************************************)
CONSTANTS Requests, None

VARIABLES
  answer,       \* "none" before a request is made, "open", or its answer
  gone,         \* requests nobody listens to any more
  newest

vars == <<answer, gone, newest>>

Answers == {"preview", "failed", "dropped"}

Init == /\ answer = [r \in Requests |-> "none"]
        /\ gone = {} /\ newest = None

(* A newer request may drop those still open.                              *)
Ask(r) ==
  /\ answer[r] = "none"
  /\ newest' = r
  /\ \E late \in SUBSET {q \in Requests : answer[q] = "open"} :
       answer' = [q \in Requests |-> IF q = r THEN "open"
                                     ELSE IF q \in late THEN "dropped" ELSE answer[q]]
  /\ UNCHANGED gone

Give(r) ==
  /\ answer[r] = "open" /\ r = newest /\ r \notin gone
  /\ answer' = [answer EXCEPT ![r] = "preview"]
  /\ UNCHANGED <<gone, newest>>

Fail(r) ==
  /\ answer[r] = "open"
  /\ answer' = [answer EXCEPT ![r] = "failed"]
  /\ UNCHANGED <<gone, newest>>

Drop(r) ==
  /\ answer[r] = "open" /\ (r # newest \/ r \in gone)
  /\ answer' = [answer EXCEPT ![r] = "dropped"]
  /\ UNCHANGED <<gone, newest>>

Leave(r) ==
  /\ answer[r] = "open"
  /\ gone' = gone \cup {r}
  /\ answer' \in {answer, [answer EXCEPT ![r] = "dropped"]}
  /\ UNCHANGED newest

Next == \E r \in Requests : Ask(r) \/ Give(r) \/ Fail(r) \/ Drop(r) \/ Leave(r)

Spec == Init /\ [][Next]_vars

================================================================================
