-------------------------------- MODULE Previews --------------------------------
(***************************************************************************)
(* A page that keeps its preview up to date (PreviewRefresh) and the       *)
(* server that makes it.  The server of the image profile editor runs one  *)
(* worker at a time (PreviewQueue, image_profile_editor/router.mjs); the   *)
(* receipt editor's starts a worker for every request, without a deadline, *)
(* and is taken to answer (web/server/compiler.mjs).                       *)
(*                                                                         *)
(* A request is known by the page's revision it was made for.              *)
(***************************************************************************)
EXTENDS PreviewRefresh, PreviewQueue

CONSTANT InOrder        \* requests reach the server in the order they are made

ASSUME OrderAssumption == InOrder \in BOOLEAN
ASSUME RequestsAssumption == Requests = 1..MaxEdits

vars == <<pageVars, queueVars>>

Init == PageInit /\ QueueInit

PageStep == Page /\ UNCHANGED queueVars

--------------------------------------------------------------------------------
(* The image profile editor's server.                                      *)

(* A request arrives, also one the page has given up meanwhile; or it      *)
(* never does, if the page has.                                            *)
Arrive(job) ==
  /\ ~receipt /\ job \in flights
  /\ InOrder /\ newest # NoRequest => newest < job.token
  /\ Run(job.token)
  /\ UNCHANGED pageVars

(* The connection of a request the page has given up is closed.            *)
HangUp_Any(r) ==                                                    \* fault
  /\ r <= revision /\ Disconnect(r)
  /\ UNCHANGED pageVars
HangUp(r) ==
  /\ r < revision /\ Disconnect(r)
  /\ UNCHANGED pageVars

Work(r) ==
  /\ StartWorker(r) \/ Overrun(r) \/ Kill(r) \/ Close(r)
  /\ UNCHANGED pageVars

(* What the page is told: a worker's report says whether the text is right,*)
(* and every other answer is an error.                                     *)
ReceiptServer(job) == Verdicts(job)
ImageServer(job) ==
  CASE answer[job.token] = "preview" -> Verdicts(job) \ {"failed"}
    [] answer[job.token] \in {"failed", "dropped"} -> {"failed"}
    [] OTHER -> {}
Told(job) == IF receipt THEN ReceiptServer(job) ELSE ImageServer(job)

Deliver(job) ==
  /\ \E verdict \in Told(job) : Answer(job, verdict)
  /\ UNCHANGED queueVars

DeliverLate(job) == AnswerLate(job) /\ UNCHANGED queueVars

Next ==
  \/ PageStep
  \/ \E job \in flights : Arrive(job) \/ Deliver(job) \/ DeliverLate(job)
  \/ \E r \in Requests : HangUp(r) \/ Work(r)

(* Timers fire, what the page waits for arrives, and the server is as fair *)
(* as its queue.                                                           *)
Spec == /\ Init /\ [][Next]_vars
        /\ WF_vars(Fire /\ UNCHANGED queueVars)
        /\ WF_vars(\E job \in flights : job.token = revision /\ Arrive(job))
        /\ WF_vars(\E job \in flights : Deliver(job))
        /\ WF_vars(\E r \in Requests : StartWorker(r) /\ UNCHANGED pageVars)
        /\ WF_vars(\E r \in Requests : Overrun(r) /\ UNCHANGED pageVars)
        /\ WF_vars(\E r \in Requests : Kill(r) /\ UNCHANGED pageVars)
        /\ WF_vars(\E r \in Requests : Ends(r) /\ UNCHANGED pageVars)

--------------------------------------------------------------------------------
(* The page is never shown an error because the server dropped the request *)
(* for what is being edited: superseding and hanging up hit earlier        *)
(* requests only, although page and server count them apart.  Were a       *)
(* request overtaken on its way (InOrder = FALSE), it would supersede the  *)
(* one that overtook it, and nothing in preview_queue.mjs would know.      *)
CurrentIsServed == \A r \in Requests : answer[r] = "dropped" => r < revision

(* Requests arrive in the order of their revisions: inductive together     *)
(* with the order of the page and of the queue.                            *)
ArrivalsOK ==
  /\ newest # NoRequest => newest <= revision
  /\ InOrder => /\ \A r \in Requests : answer[r] # "none" => newest # NoRequest /\ r <= newest
                /\ \A r \in aborted : r < revision

================================================================================
