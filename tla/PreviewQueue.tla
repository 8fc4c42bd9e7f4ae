------------------------------ MODULE PreviewQueue ------------------------------
(***************************************************************************)
(* The preview queue of the image profile editor                           *)
(* (image_profile_editor/preview_queue.mjs) and the Lua worker a preview   *)
(* runs in (compiler.mjs).  One job runs and at most one waits; a newer    *)
(* request replaces the waiting job and aborts the running one; a page     *)
(* that disconnects cancels its own.  A worker that is to stop is asked    *)
(* with SIGTERM, killed a quarter of a second later, and waited for.       *)
(***************************************************************************)
EXTENDS FiniteSets

CONSTANTS Requests, NoRequest
ASSUME NoRequestAssumption == NoRequest \notin Requests

VARIABLES
  answer,       \* what each request's promise came to
  active, pending,
  aborted,      \* jobs whose controller is aborted
  gone,         \* requests whose signal is aborted
  worker,       \* the child process of each job
  failure,      \* why a worker was told to stop, or "no"
  newest        \* history: the last request made

queueVars == <<answer, active, pending, aborted, gone, worker, failure, newest>>

QueueInit ==
  /\ answer = [r \in Requests |-> "none"]
  /\ active = NoRequest /\ pending = NoRequest
  /\ aborted = {} /\ gone = {} /\ newest = NoRequest
  /\ worker = [r \in Requests |-> "none"]
  /\ failure = [r \in Requests |-> "no"]

--------------------------------------------------------------------------------
(* The waiting job, if there is one and none is active, becomes active;    *)
(* its worker is started by a later microtask.                             *)
Pump(running, waiting) ==
  IF running = NoRequest THEN active' = waiting /\ pending' = NoRequest
                    ELSE active' = running /\ pending' = waiting

(* Aborting a job stops its worker, once, unless it is over already.       *)
Stop(r, why) ==
  IF worker[r] = "running" /\ failure[r] = "no"
  THEN failure' = [failure EXCEPT ![r] = why] /\ worker' = [worker EXCEPT ![r] = "stopping"]
  ELSE UNCHANGED <<failure, worker>>

Abort(r) ==
  IF r = NoRequest THEN UNCHANGED <<aborted, failure, worker>>
  ELSE aborted' = aborted \cup {r} /\ Stop(r, "aborted")

Run(r) ==
  /\ answer[r] = "none"
  /\ newest' = r
  /\ answer' = [q \in Requests |-> IF q = r THEN "open"
                                   ELSE IF q = pending THEN "dropped" ELSE answer[q]]
  /\ Abort(active)
  /\ Pump(active, r)
  /\ UNCHANGED gone

(* The page goes away: its listener is still attached while the request    *)
(* is open.                                                                *)
Disconnect(r) ==
  /\ answer[r] = "open" /\ r \notin gone
  /\ gone' = gone \cup {r}
  /\ IF r = pending
     THEN /\ pending' = NoRequest /\ answer' = [answer EXCEPT ![r] = "dropped"]
          /\ UNCHANGED <<active, aborted, worker, failure>>
     ELSE Abort(r) /\ UNCHANGED <<answer, active, pending>>
  /\ UNCHANGED newest

(* The promise of the active job settles; then the next job is taken.      *)
Settle(r, how) ==
  /\ answer' = [answer EXCEPT ![r] = how]
  /\ Pump(NoRequest, pending)

(* The worker starts, unless the job was aborted, or the source is too     *)
(* large, or the process cannot be made.                                   *)
StartWorker(r) ==
  /\ r = active /\ worker[r] = "none"
  /\ \/ /\ r \notin aborted
        /\ worker' = [worker EXCEPT ![r] = "running"]
        /\ UNCHANGED <<answer, active, pending>>
     \/ /\ worker' = [worker EXCEPT ![r] = "closed"]
        /\ Settle(r, IF r \in aborted THEN "dropped" ELSE "failed")
  /\ UNCHANGED <<aborted, gone, failure, newest>>

(* The deadline passed, or the worker wrote too much.                      *)
Overrun(r) ==
  /\ worker[r] = "running"
  /\ Stop(r, "overrun")
  /\ UNCHANGED <<answer, active, pending, aborted, gone, newest>>

Kill_Overrun(r) ==                                                  \* fault
  /\ worker[r] = "stopping" /\ failure[r] = "overrun"
  /\ worker' = [worker EXCEPT ![r] = "killed"]
  /\ UNCHANGED <<answer, active, pending, aborted, gone, failure, newest>>
Kill(r) ==
  /\ worker[r] = "stopping"
  /\ worker' = [worker EXCEPT ![r] = "killed"]
  /\ UNCHANGED <<answer, active, pending, aborted, gone, failure, newest>>

(* The process has ended and its output is complete: with a preview or a   *)
(* report of its own if nothing stopped it, by itself, or by a signal.     *)
Close_Any(r) ==                                                     \* fault
  /\ worker[r] \in {"running", "stopping", "killed"}
  /\ worker' = [worker EXCEPT ![r] = "closed"]
  /\ \E how \in {"preview", "failed"} : Settle(r, how)
  /\ UNCHANGED <<aborted, gone, failure, newest>>
Close(r) ==
  /\ worker[r] \in {"running", "stopping", "killed"}
  /\ worker' = [worker EXCEPT ![r] = "closed"]
  /\ \/ failure[r] = "no" /\ \E how \in {"preview", "failed"} : Settle(r, how)
     \/ failure[r] = "overrun" /\ Settle(r, "failed")
     \/ failure[r] = "aborted" /\ Settle(r, "dropped")
  /\ UNCHANGED <<aborted, gone, failure, newest>>

QueueNext == \E r \in Requests :
          \/ Run(r) \/ Disconnect(r) \/ StartWorker(r) \/ Overrun(r) \/ Kill(r) \/ Close(r)

(* Microtasks run, timers expire, and a killed process ends; a worker      *)
(* that is not told to stop may run for ever.                              *)
Ends(r) == Close(r) /\ worker[r] = "killed"

QueueSpec == /\ QueueInit /\ [][QueueNext]_queueVars
        /\ \A r \in Requests : /\ WF_queueVars(StartWorker(r)) /\ WF_queueVars(Overrun(r))
                               /\ WF_queueVars(Kill(r)) /\ WF_queueVars(Ends(r))

--------------------------------------------------------------------------------
Alive == {r \in Requests : worker[r] \in {"running", "stopping", "killed"}}

QueueTypeOK ==
  /\ answer \in [Requests -> {"none", "open", "preview", "failed", "dropped"}]
  /\ active \in Requests \cup {NoRequest} /\ pending \in Requests \cup {NoRequest}
  /\ aborted \subseteq Requests /\ gone \subseteq Requests
  /\ newest \in Requests \cup {NoRequest}
  /\ worker \in [Requests -> {"none", "running", "stopping", "killed", "closed"}]
  /\ failure \in [Requests -> {"no", "aborted", "overrun"}]

(* However fast drafts come and pages go, no two workers exist at once:    *)
(* the next one starts only after the process before it has ended.         *)
OneWorker == \A q, r \in Alive : q = r

(* Every open request is the active or the waiting job, so none is         *)
(* forgotten, and the newest is never dropped while its page listens.      *)
NoneForgotten ==
  /\ \A r \in Requests : answer[r] = "open" => r \in {active, pending}
  /\ newest # NoRequest /\ newest \notin gone => answer[newest] # "dropped"

(* Every request is answered in the end, even by a worker that would run   *)
(* for ever and does not listen to SIGTERM.                                *)
EveryRequestAnswered ==
  \A r \in Requests : answer[r] = "open" ~> answer[r] \notin {"none", "open"}

(* The queue keeps the promise of a preview service.                       *)
Service == INSTANCE PreviewService WITH None <- NoRequest
ImplementsService == Service!Spec

(* The waiting job is the newest, and waits for an active one.             *)
WaitingOK ==
  /\ active # NoRequest => answer[active] = "open" /\ worker[active] # "closed"
  /\ pending # NoRequest => /\ answer[pending] = "open" /\ worker[pending] = "none"
                       /\ active # NoRequest /\ active # pending /\ pending = newest
  /\ \A r \in aborted \cup gone : answer[r] # "none" /\ r # pending
  /\ newest # NoRequest => answer[newest] # "none"

(* Only the active job has a worker.                                       *)
WorkersOK ==
  /\ \A r \in Alive : r = active
  /\ \A r \in Requests : answer[r] = "none" => worker[r] = "none"

(* The active job is aborted if and only if a newer one came or nobody     *)
(* listens to it, and then its worker is stopping.                         *)
AbortsOK ==
  /\ active # NoRequest => (active \in aborted <=> active # newest \/ active \in gone)
  /\ active # NoRequest /\ active \in aborted /\ worker[active] # "none" => failure[active] # "no"
  /\ \A r \in Requests : worker[r] \in {"none", "running"} => failure[r] = "no"
  /\ \A r \in Requests : worker[r] \in {"stopping", "killed"} => failure[r] # "no"
  /\ \A r \in Requests : failure[r] = "aborted" => r \in aborted

(* Inductive together with NoneForgotten.                                  *)
JobsOK == QueueTypeOK /\ WaitingOK /\ WorkersOK /\ AbortsOK

================================================================================
