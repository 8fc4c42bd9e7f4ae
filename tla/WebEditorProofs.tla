----------------------------- MODULE WebEditorProofs -----------------------------
(***************************************************************************)
(* The editors that run in a browser.  For every set of texts and every    *)
(* number of edits: the preview queue keeps its jobs in order and          *)
(* implements PreviewService, also as the server of a page; the page never *)
(* calls a preview current that is not of what is being edited; and the    *)
(* receipt editor never writes a document into the file of another.        *)
(***************************************************************************)
EXTENDS Previews, PageDocument, TLAPS

--------------------------------------------------------------------------------
(* The queue.                                                              *)

QueueInv == JobsOK /\ NoneForgotten

LEMMA QueueSpecStep == QueueSpec => QueueInit /\ [][QueueNext]_queueVars
BY PTL DEF QueueSpec

LEMMA QueueInitInv == QueueInit => QueueInv
BY NoRequestAssumption DEF QueueInit, QueueInv, JobsOK, QueueTypeOK, WaitingOK, WorkersOK, AbortsOK, NoneForgotten, Alive

USE NoRequestAssumption

(* A new request drops the waiting one and aborts the running one.         *)
LEMMA RunInv == ASSUME QueueInv, NEW r \in Requests, Run(r) PROVE QueueInv'
<1> USE DEF QueueInv, JobsOK
<1>1. QueueTypeOK'  BY DEF QueueTypeOK, Run, Abort, Stop, Pump
<1>2. WaitingOK'  BY <1>1 DEF QueueTypeOK, WaitingOK, WorkersOK, NoneForgotten, Alive, Run, Abort, Stop, Pump
<1>3. WorkersOK'  BY <1>1 DEF QueueTypeOK, WaitingOK, WorkersOK, Alive, Run, Abort, Stop, Pump
<1>4. AbortsOK'
  <2> USE DEF QueueTypeOK, WaitingOK, WorkersOK, AbortsOK, NoneForgotten, Alive, Run, Abort, Stop, Pump
  <2>1. (active # NoRequest => (active \in aborted <=> active # newest \/ active \in gone))'
    BY <1>1
  <2>2. (active # NoRequest /\ active \in aborted /\ worker[active] # "none" => failure[active] # "no")'
    BY <1>1
  <2>3. (\A q \in Requests : worker[q] \in {"none", "running"} => failure[q] = "no")'
    BY <1>1
  <2>5. (\A q \in Requests : worker[q] \in {"stopping", "killed"} => failure[q] # "no")'
    BY <1>1
  <2>4. (\A q \in Requests : failure[q] = "aborted" => q \in aborted)'
    BY <1>1
  <2> QED BY <2>1, <2>2, <2>3, <2>4, <2>5
<1>5. NoneForgotten'  BY <1>1 DEF QueueTypeOK, WaitingOK, WorkersOK, AbortsOK, NoneForgotten, Alive, Run, Abort, Stop, Pump
<1> QED BY <1>1, <1>2, <1>3, <1>4, <1>5

LEMMA DisconnectInv == ASSUME QueueInv, NEW r \in Requests, Disconnect(r) PROVE QueueInv'
<1> USE DEF QueueInv, JobsOK
<1>1. QueueTypeOK'  BY DEF QueueTypeOK, Disconnect, Abort, Stop
<1>2. WaitingOK'  BY <1>1 DEF QueueTypeOK, WaitingOK, WorkersOK, NoneForgotten, Alive, Disconnect, Abort, Stop
<1>3. WorkersOK'  BY <1>1 DEF QueueTypeOK, WaitingOK, WorkersOK, Alive, Disconnect, Abort, Stop
<1>4. AbortsOK'
  <2> USE DEF QueueTypeOK, WaitingOK, WorkersOK, AbortsOK, NoneForgotten, Alive, Disconnect, Abort, Stop
  <2>1. (active # NoRequest => (active \in aborted <=> active # newest \/ active \in gone))'
    BY <1>1
  <2>2. (active # NoRequest /\ active \in aborted /\ worker[active] # "none" => failure[active] # "no")'
    BY <1>1
  <2>3. (\A q \in Requests : worker[q] \in {"none", "running"} => failure[q] = "no")'
    BY <1>1
  <2>5. (\A q \in Requests : worker[q] \in {"stopping", "killed"} => failure[q] # "no")'
    BY <1>1
  <2>4. (\A q \in Requests : failure[q] = "aborted" => q \in aborted)'
    BY <1>1
  <2> QED BY <2>1, <2>2, <2>3, <2>4, <2>5
<1>5. NoneForgotten'  BY <1>1 DEF QueueTypeOK, WaitingOK, WorkersOK, AbortsOK, NoneForgotten, Alive, Disconnect, Abort, Stop
<1> QED BY <1>1, <1>2, <1>3, <1>4, <1>5

LEMMA StartInv == ASSUME QueueInv, NEW r \in Requests, StartWorker(r) PROVE QueueInv'
<1> USE DEF QueueInv, JobsOK
<1>1. QueueTypeOK'  BY DEF QueueTypeOK, StartWorker, Settle, Pump
<1>2. WaitingOK'  BY <1>1 DEF QueueTypeOK, WaitingOK, WorkersOK, NoneForgotten, Alive, StartWorker, Settle, Pump
<1>3. WorkersOK'  BY <1>1 DEF QueueTypeOK, WaitingOK, WorkersOK, Alive, StartWorker, Settle, Pump
<1>4. AbortsOK'  BY <1>1 DEF QueueTypeOK, WaitingOK, WorkersOK, AbortsOK, NoneForgotten, Alive, StartWorker, Settle, Pump
<1>5. NoneForgotten'  BY <1>1 DEF QueueTypeOK, WaitingOK, WorkersOK, AbortsOK, NoneForgotten, Alive, StartWorker, Settle, Pump
<1> QED BY <1>1, <1>2, <1>3, <1>4, <1>5

LEMMA OverrunInv == ASSUME QueueInv, NEW r \in Requests, Overrun(r) PROVE QueueInv'
BY DEF QueueInv, JobsOK, QueueTypeOK, WaitingOK, WorkersOK, AbortsOK, NoneForgotten, Alive, Overrun, Stop

LEMMA KillInv == ASSUME QueueInv, NEW r \in Requests, Kill(r) PROVE QueueInv'
BY DEF QueueInv, JobsOK, QueueTypeOK, WaitingOK, WorkersOK, AbortsOK, NoneForgotten, Alive, Kill

LEMMA CloseInv == ASSUME QueueInv, NEW r \in Requests, Close(r) PROVE QueueInv'
<1> USE DEF QueueInv, JobsOK
<1>1. QueueTypeOK'  BY DEF QueueTypeOK, Close, Settle, Pump
<1>2. WaitingOK'  BY <1>1 DEF QueueTypeOK, WaitingOK, WorkersOK, NoneForgotten, Alive, Close, Settle, Pump
<1>3. WorkersOK'  BY <1>1 DEF QueueTypeOK, WaitingOK, WorkersOK, Alive, Close, Settle, Pump
<1>4. AbortsOK'  BY <1>1 DEF QueueTypeOK, WaitingOK, WorkersOK, AbortsOK, NoneForgotten, Alive, Close, Settle, Pump
<1>5. NoneForgotten'  BY <1>1 DEF QueueTypeOK, WaitingOK, WorkersOK, AbortsOK, NoneForgotten, Alive, Close, Settle, Pump
<1> QED BY <1>1, <1>2, <1>3, <1>4, <1>5

LEMMA StutterInv == ASSUME QueueInv, UNCHANGED queueVars PROVE QueueInv'
BY DEF QueueInv, JobsOK, QueueTypeOK, WaitingOK, WorkersOK, AbortsOK, NoneForgotten, Alive, queueVars

LEMMA QueueStepInv == QueueInv /\ [QueueNext]_queueVars => QueueInv'
BY RunInv, DisconnectInv, StartInv, OverrunInv, KillInv, CloseInv, StutterInv DEF QueueNext

LEMMA QueueInductive == QueueSpec => []QueueInv
<1>1. QueueInit /\ [][QueueNext]_queueVars => []QueueInv
  BY QueueInitInv, QueueStepInv, PTL
<1> QED BY <1>1, QueueSpecStep, PTL

(* The jobs are always in order: see JobsOK.                               *)
THEOREM QueueJobsOK == QueueSpec => []JobsOK
<1>1. QueueInv => JobsOK  BY DEF QueueInv
<1> QED BY <1>1, QueueInductive, PTL

(* No two worker processes exist at once.                                  *)
THEOREM QueueOneWorker == QueueSpec => []OneWorker
<1>1. QueueInv => OneWorker  BY DEF QueueInv, JobsOK, WorkersOK, OneWorker
<1> QED BY <1>1, QueueInductive, PTL

(* Every open request is active or waiting, and the newest is not dropped  *)
(* while its page listens.                                                 *)
THEOREM QueueNoneForgotten == QueueSpec => []NoneForgotten
<1>1. QueueInv => NoneForgotten  BY DEF QueueInv
<1> QED BY <1>1, QueueInductive, PTL

--------------------------------------------------------------------------------
(* Every step is one of the service, or a stutter.                         *)

LEMMA RunServes ==
  ASSUME QueueInv, NEW r \in Requests, Run(r) PROVE Service!Ask(r)
<1> DEFINE late == {q \in Requests : q = pending}
<1>1. late \in SUBSET {q \in Requests : answer[q] = "open"}
  BY DEF QueueInv, JobsOK, QueueTypeOK, WaitingOK, WorkersOK, AbortsOK
<1>2. answer' = [q \in Requests |-> IF q = r THEN "open"
                                    ELSE IF q \in late THEN "dropped" ELSE answer[q]]
  BY DEF Run
<1> QED BY <1>1, <1>2 DEF Run, Service!Ask

LEMMA DisconnectServes ==
  ASSUME QueueInv, NEW r \in Requests, Disconnect(r) PROVE Service!Leave(r)
BY DEF Disconnect, Service!Leave

LEMMA StartServes ==
  ASSUME QueueInv, NEW r \in Requests, StartWorker(r)
  PROVE  Service!Fail(r) \/ Service!Drop(r) \/ UNCHANGED Service!vars
BY DEF QueueInv, JobsOK, QueueTypeOK, WaitingOK, WorkersOK, AbortsOK, StartWorker, Settle, Service!Fail, Service!Drop, Service!vars

LEMMA CloseServes ==
  ASSUME QueueInv, NEW r \in Requests, Close(r)
  PROVE  Service!Give(r) \/ Service!Fail(r) \/ Service!Drop(r)
<1>1. r \in Alive /\ r = active /\ answer[r] = "open"
  BY DEF QueueInv, JobsOK, QueueTypeOK, WaitingOK, WorkersOK, AbortsOK, Close, Alive
<1>2. CASE failure[r] = "no"
  <2>1. r = newest /\ r \notin gone
    BY <1>1, <1>2 DEF QueueInv, JobsOK, QueueTypeOK, WaitingOK, WorkersOK, AbortsOK, Alive
  <2> QED BY <1>1, <1>2, <2>1 DEF Close, Settle, Service!Give, Service!Fail
<1>3. CASE failure[r] = "overrun"
  BY <1>1, <1>3 DEF Close, Settle, Service!Fail
<1>4. CASE failure[r] = "aborted"
  BY <1>1, <1>4 DEF QueueInv, JobsOK, QueueTypeOK, WaitingOK, WorkersOK, AbortsOK, Close, Settle, Service!Drop
<1> QED BY <1>2, <1>3, <1>4 DEF QueueInv, JobsOK, QueueTypeOK, WaitingOK, WorkersOK, AbortsOK

LEMMA StepServes == QueueInv /\ [QueueNext]_queueVars => [Service!Next]_(Service!vars)
<1> SUFFICES ASSUME QueueInv, [QueueNext]_queueVars PROVE [Service!Next]_(Service!vars)
  OBVIOUS
<1>1. CASE UNCHANGED queueVars
  BY <1>1 DEF queueVars, Service!vars
<1>2. ASSUME NEW r \in Requests, Overrun(r) \/ Kill(r) PROVE UNCHANGED Service!vars
  BY <1>2 DEF Overrun, Kill, Service!vars
<1> QED
  BY <1>1, <1>2, RunServes, DisconnectServes, StartServes, CloseServes
     DEF QueueNext, Service!Next

LEMMA InitServes == QueueInit => Service!Init
BY DEF QueueInit, Service!Init

(* The queue implements the service: a request is answered at most once,   *)
(* and only the newest one that is still listened to gets a preview.       *)
THEOREM QueueImplementsService == QueueSpec => ImplementsService
<1>1. QueueInit /\ []QueueInv /\ [][QueueNext]_queueVars => Service!Init /\ [][Service!Next]_(Service!vars)
  BY InitServes, StepServes, PTL
<1> QED BY <1>1, QueueInductive, QueueSpecStep, PTL DEF ImplementsService, Service!Spec
--------------------------------------------------------------------------------
(* The page.                                                               *)

LEMMA ViewsDiffer ==
  /\ Nothing # Invalid
  /\ \A t \in Texts, d \in Nat : [text |-> t, document |-> d] \notin {Nothing, Invalid}
<1>1. Nothing.document # Invalid.document  BY NoneAssumption DEF Nothing, Invalid
<1>2. ASSUME NEW t \in Texts, NEW d \in Nat
      PROVE  [text |-> t, document |-> d] \notin {Nothing, Invalid}
  <2>1. [text |-> t, document |-> d].text # None  BY NoneAssumption
  <2> QED BY <2>1 DEF Nothing, Invalid
<1> QED BY <1>1, <1>2

LEMMA NothingIsView == Nothing \in Views
BY DEF Views

(* The types of the flags, of what is edited and asked for, and of what is *)
(* shown.                                                                  *)
FlagsTyped == receipt \in BOOLEAN /\ hasPreview \in BOOLEAN /\ linked \in BOOLEAN /\ stale \in BOOLEAN
EditsTyped ==
  /\ text \in Texts /\ document \in 0..MaxEdits /\ edits \in 0..MaxEdits
  /\ revision \in 0..MaxEdits
  /\ timer \in Jobs \cup {None} /\ flights \subseteq Jobs
ShownTyped ==
  /\ current \in Views \cup {Invalid} /\ lastValid \in Views /\ drawn \in Views
  /\ metrics \in [of : Views, fresh : BOOLEAN]
  /\ status \in [is : {"idle", "working", "ready", "error", "offline"}, text : Texts \cup {None}]

LEMMA TypeParts == TypeOK <=> FlagsTyped /\ EditsTyped /\ ShownTyped
BY DEF TypeOK, FlagsTyped, EditsTyped, ShownTyped

LEMMA TypePartsNext == TypeOK' <=> FlagsTyped' /\ EditsTyped' /\ ShownTyped'
BY DEF TypeOK, FlagsTyped, EditsTyped, ShownTyped

(* What is claimed of the page, apart from types and revisions.            *)
ShownOK == /\ DrawnOK /\ RedrawOK /\ LinkedIsCurrent /\ VerdictIsCurrent
           /\ drawn # Nothing => drawn.document = document
           /\ metrics.fresh => metrics.of = drawn /\ ~stale

LEMMA PageParts == PageOK <=> TypeOK /\ RevisionsOK /\ ShownOK
BY DEF PageOK, OwnPreview, ShownOK

LEMMA PagePartsNext == PageOK' <=> TypeOK' /\ RevisionsOK' /\ ShownOK'
BY DEF PageOK, OwnPreview, ShownOK

LEMMA PageInitOK == PageInit => PageOK
<1> SUFFICES ASSUME PageInit PROVE PageOK
  OBVIOUS
<1> USE EditsAssumption DEF PageInit
<1>1. FlagsTyped  BY DEF FlagsTyped
<1>2. EditsTyped  BY DEF EditsTyped
<1>3. ShownTyped  BY NothingIsView DEF ShownTyped
<1>4. RevisionsOK  BY DEF RevisionsOK
<1>5. DrawnOK /\ RedrawOK  BY DEF DrawnOK, RedrawOK
<1>6. LinkedIsCurrent /\ VerdictIsCurrent  BY DEF LinkedIsCurrent, VerdictIsCurrent
<1> QED BY <1>1, <1>2, <1>3, <1>4, <1>5, <1>6, TypeParts, PageParts DEF ShownOK

(* The next revision is one that no request has.                           *)
LEMMA ScheduleOK ==
  ASSUME PageOK, edits < MaxEdits, edits' = edits + 1,
         text' \in Texts, document' \in {document, document + 1}, Schedule
  PROVE  EditsTyped' /\ timer' # None /\ linked' = FALSE /\ RevisionsOK'
<1> USE EditsAssumption, PageParts, TypeParts DEF EditsTyped, RevisionsOK, Schedule, Invalidate
<1>1. edits' \in 0..MaxEdits /\ document' \in 0..MaxEdits /\ revision' = edits'
  OBVIOUS
<1>2. timer' \in Jobs
  BY <1>1 DEF Jobs
<1>3. timer' # None
  BY <1>2, NoneAssumption
<1>4. \A job \in flights : job.token \in 1..revision' /\ job.token # revision'
  BY <1>1 DEF Jobs
<1> QED BY <1>1, <1>2, <1>3, <1>4

LEMMA EditOK == ASSUME PageOK, Edit PROVE PageOK'
<1> USE PageParts, TypeParts
<1>1. EditsTyped' /\ timer' # None /\ linked' = FALSE /\ RevisionsOK'
  BY ScheduleOK DEF Edit
<1>2. FlagsTyped'  BY <1>1 DEF Edit, FlagsTyped, view
<1>3. ShownTyped'  BY DEF Edit, ShownTyped, view
<1>4. ShownOK'
  BY <1>1 DEF Edit, ShownOK, DrawnOK, RedrawOK, LinkedIsCurrent, VerdictIsCurrent, view
<1> QED BY <1>1, <1>2, <1>3, <1>4, TypePartsNext, PagePartsNext

LEMMA OpenOK == ASSUME PageOK, Open PROVE PageOK'
<1> USE PageParts, TypeParts
<1>1. EditsTyped' /\ timer' # None /\ linked' = FALSE /\ RevisionsOK'
  BY ScheduleOK DEF Open
<1>2. FlagsTyped'  BY <1>1 DEF Open, FlagsTyped
<1>3. ShownTyped'  BY NothingIsView DEF Open, ShownTyped
<1>4. ~metrics.fresh  BY DEF Open, ShownOK, RedrawOK
<1>5. ShownOK'
  BY <1>1, <1>4 DEF Open, ShownOK, DrawnOK, RedrawOK, LinkedIsCurrent, VerdictIsCurrent
<1> QED BY <1>1, <1>2, <1>3, <1>5, TypePartsNext, PagePartsNext

(* A request is made for what is being edited.                             *)
LEMMA RenderOK ==
  ASSUME PageOK, NEW job, Render(job), timer' = None, revision' \in 1..MaxEdits,
         job = [token |-> revision', source |-> text, document |-> document],
         revision' = edits', edits' \in {edits, edits + 1},
         revision' = revision => job = timer,
         UNCHANGED <<receipt, text, document, hasPreview, view, metrics>>,
         linked' \in {linked, FALSE}
  PROVE  PageOK'
<1> USE EditsAssumption, PageParts, TypeParts
<1>1. FlagsTyped'  BY DEF FlagsTyped, view
<1>2. EditsTyped'
  <2>1. job \in Jobs  BY DEF Jobs, EditsTyped
  <2> QED BY <2>1 DEF EditsTyped, Render
<1>3. ShownTyped'  BY DEF ShownTyped, view, Render, EditsTyped
<1>4. RevisionsOK'
  <2>1. flights' = flights \cup {job}  BY DEF Render
  <2>2. job.token = revision' /\ Of(job) = [text |-> text, document |-> document]
    BY DEF Of
  <2>3. \A other \in flights :
          /\ other.token \in 1..revision' 
          /\ other.token = revision' => Of(other) = [text |-> text, document |-> document]
    BY DEF RevisionsOK, EditsTyped
  <2> QED BY <2>1, <2>2, <2>3 DEF RevisionsOK, EditsTyped, Of
<1>5. linked' => linked  BY DEF FlagsTyped
<1>6. DrawnOK' /\ LinkedIsCurrent' /\ VerdictIsCurrent'
  BY <1>5 DEF ShownOK, DrawnOK, LinkedIsCurrent, VerdictIsCurrent, ShownIsCurrent, Render, view
<1>7. RedrawOK'
  BY <1>5 DEF ShownOK, RedrawOK, Render, view
<1>8. ShownOK'
  BY <1>6, <1>7 DEF ShownOK, view
<1> QED BY <1>1, <1>2, <1>3, <1>4, <1>8, TypePartsNext, PagePartsNext

LEMMA FireOK == ASSUME PageOK, Fire PROVE PageOK'
<1>1. timer = [token |-> revision, source |-> text, document |-> document] /\ revision = edits
  BY PageParts DEF Fire, RevisionsOK
<1>2. revision \in 1..MaxEdits
  BY PageParts, TypeParts, EditsAssumption DEF Fire, RevisionsOK, EditsTyped
<1>3. Render(timer) /\ timer' = None /\ UNCHANGED <<text, document, revision, edits, linked>>
  BY DEF Fire, Render
<1> QED BY <1>1, <1>2, <1>3, RenderOK DEF Fire

LEMMA RefreshOK == ASSUME PageOK, Refresh PROVE PageOK'
<1>1. revision = edits /\ edits \in 0..MaxEdits
  BY PageParts, TypeParts DEF EditsTyped, RevisionsOK
<1> DEFINE job == [token |-> revision', source |-> text, document |-> document]
<1>2. /\ Render(job) /\ timer' = None /\ revision' = edits' /\ revision' = revision + 1
      /\ revision' \in 1..MaxEdits /\ edits' = edits + 1 /\ linked' = FALSE
      /\ UNCHANGED <<receipt, text, document, hasPreview, view, metrics>>
  BY <1>1, EditsAssumption DEF Refresh, Render, Invalidate
<1> HIDE DEF job
<1>3. job = [token |-> revision', source |-> text, document |-> document]
  BY DEF job
<1>4. revision' # revision
  BY <1>1, <1>2
<1> QED BY <1>2, <1>3, <1>4, RenderOK

LEMMA RedrawPageOK == ASSUME PageOK, Redraw PROVE PageOK'
<1> USE PageParts, TypeParts DEF Redraw
<1>1. FlagsTyped' /\ EditsTyped' /\ RevisionsOK'
  BY DEF FlagsTyped, EditsTyped, RevisionsOK
<1>2. drawn' = lastValid
  BY DEF ShownOK, DrawnOK
<1>3. ShownTyped'  BY <1>2 DEF ShownTyped
<1>4. DrawnOK' /\ RedrawOK'  BY <1>2 DEF ShownOK, DrawnOK, RedrawOK
<1>6. linked \/ (timer = None /\ status.is = "ready") => drawn' = [text |-> text, document |-> document]
  BY <1>2, ViewsDiffer, EditsAssumption DEF ShownOK, RedrawOK, DrawnOK, EditsTyped
<1>7. LinkedIsCurrent' /\ VerdictIsCurrent'
  BY <1>2, <1>6 DEF ShownOK, RedrawOK, DrawnOK, LinkedIsCurrent, VerdictIsCurrent, ShownIsCurrent
<1>8. ShownOK'
  BY <1>2, <1>4, <1>7 DEF ShownOK, RedrawOK, DrawnOK
<1> QED BY <1>1, <1>3, <1>8, TypePartsNext, PagePartsNext

(* The answer for the current revision is for what is being edited.        *)
LEMMA AnswerOK ==
  ASSUME PageOK, NEW job, NEW verdict \in Verdicts(job), Answer(job, verdict) PROVE PageOK'
<1> USE PageParts, TypeParts
<1>1. /\ job \in Jobs /\ timer = None /\ job.source = text /\ job.source \in Texts
      /\ Of(job) = [text |-> text, document |-> document]
  BY DEF Answer, RevisionsOK, EditsTyped, Of
<1>2. Of(job) \in Views /\ Of(job) \notin {Nothing, Invalid}
  BY <1>1, EditsAssumption, ViewsDiffer DEF EditsTyped, Views
<1>3. RevisionsOK' /\ EditsTyped'
  BY DEF Answer, RevisionsOK, EditsTyped
<1>4. UNCHANGED <<receipt, text, document, timer>>  BY DEF Answer
<1>5. CASE verdict = "preview" /\ ShowPreview(job) /\ ShowMetrics(job, TRUE)
  <2>1. /\ current' = Of(job) /\ lastValid' = Of(job) /\ drawn' = Of(job) /\ ~stale' /\ stale' \in BOOLEAN
        /\ hasPreview' /\ hasPreview' \in BOOLEAN /\ linked' = receipt
        /\ status' = [is |-> "ready", text |-> text]
    BY <1>1, <1>2, <1>5 DEF ShowPreview, ShowResult
  <2>2. metrics' = IF receipt THEN metrics ELSE [of |-> Of(job), fresh |-> TRUE]
    BY <1>5 DEF ShowMetrics, MetricsOf
  <2>3. FlagsTyped'  BY <1>4, <2>1 DEF FlagsTyped
  <2>4. ShownTyped'  BY <1>1, <1>2, <2>1, <2>2 DEF ShownTyped
  <2>5. DrawnOK'  BY <1>1, <1>2, <1>4, <2>1 DEF DrawnOK
  <2>6. LinkedIsCurrent' /\ VerdictIsCurrent'
    BY <1>1, <1>4, <2>1 DEF LinkedIsCurrent, VerdictIsCurrent, ShownIsCurrent
  <2>7. RedrawOK'  BY <1>1, <1>4, <2>1, <2>2 DEF ShownOK, RedrawOK
  <2>8. metrics'.fresh => metrics'.of = drawn'
    BY <2>1, <2>2 DEF ShownOK, RedrawOK
  <2>9. drawn'.document = document'
    BY <1>1, <1>4, <2>1
  <2> QED BY <1>3, <2>1, <2>3, <2>4, <2>5, <2>6, <2>7, <2>8, <2>9, TypePartsNext, PagePartsNext DEF ShownOK
<1>6. CASE verdict \in {"errors", "failed"} /\ ShowErrors(job) /\ ShowMetrics(job, FALSE)
  <2> USE <1>6
  <2>1. FlagsTyped'
    BY <1>4 DEF FlagsTyped, ShowErrors, ShowResult, ShowPlaceholder, view
  <2>2. metrics' \in [of : Views, fresh : BOOLEAN] /\ ~metrics'.fresh
    BY DEF ShownTyped, ShowMetrics, ShownOK, RedrawOK
  <2>3. ShownTyped'
    BY <1>1, <2>2, NothingIsView DEF ShownTyped, ShowErrors, ShowResult, ShowPlaceholder, view
  <2>4. ShownOK'
    BY <1>1, <1>4, <2>2, ViewsDiffer
       DEF ShownOK, DrawnOK, RedrawOK, LinkedIsCurrent, VerdictIsCurrent, ShownIsCurrent,
           ShowErrors, ShowResult, ShowPlaceholder, view
  <2> QED BY <1>3, <2>1, <2>3, <2>4, TypePartsNext, PagePartsNext
<1>7. CASE verdict = "no compiler" /\ ShowOffline(job) /\ UNCHANGED metrics
  <2> USE <1>7 DEF ShowOffline, ShowPlaceholder
  <2>1. receipt  BY DEF Verdicts
  <2>2. FlagsTyped'  BY <1>4 DEF FlagsTyped
  <2>3. ShownTyped'  BY <1>1, NothingIsView DEF ShownTyped
  <2>4. ShownOK'
    BY <1>1, <1>4, <2>1
       DEF ShownOK, DrawnOK, RedrawOK, LinkedIsCurrent, VerdictIsCurrent, ShownIsCurrent
  <2> QED BY <1>3, <2>2, <2>3, <2>4, TypePartsNext, PagePartsNext
<1> QED BY <1>5, <1>6, <1>7 DEF Answer

LEMMA AnswerLateOK == ASSUME PageOK, NEW job, AnswerLate(job) PROVE PageOK'
BY DEF AnswerLate, PageOK, OwnPreview, TypeOK, LinkedIsCurrent, VerdictIsCurrent,
       ShownIsCurrent, RevisionsOK, DrawnOK, RedrawOK, view

LEMMA PageUnchanged == ASSUME PageOK, UNCHANGED pageVars PROVE PageOK'
BY DEF pageVars, PageOK, OwnPreview, TypeOK, LinkedIsCurrent, VerdictIsCurrent,
       ShownIsCurrent, RevisionsOK, DrawnOK, RedrawOK, view

--------------------------------------------------------------------------------
(* The page and the server.                                                *)

LEMMA ToldIsVerdict ==
  ASSUME NEW job, NEW verdict \in Told(job) PROVE verdict \in Verdicts(job)
BY DEF Told, ReceiptServer, ImageServer, Verdicts

LEMMA PageStepOK == PageOK /\ [Next]_vars => PageOK'
<1> SUFFICES ASSUME PageOK, [Next]_vars PROVE PageOK'
  OBVIOUS
<1>1. CASE PageStep
  BY <1>1, FireOK, EditOK, RefreshOK, OpenOK, RedrawPageOK DEF PageStep, Page
<1>2. ASSUME NEW job \in flights, Arrive(job) \/ Deliver(job) \/ DeliverLate(job)
      PROVE  PageOK'
  BY <1>2, AnswerOK, AnswerLateOK, PageUnchanged, ToldIsVerdict DEF Arrive, Deliver, DeliverLate
<1>3. ASSUME NEW r \in Requests, HangUp(r) \/ Work(r) PROVE PageOK'
  BY <1>3, PageUnchanged DEF HangUp, Work
<1>4. CASE UNCHANGED vars
  BY <1>4, PageUnchanged DEF vars
<1> QED BY <1>1, <1>2, <1>3, <1>4 DEF Next

(* Whatever page and server do, the queue makes a step of its own, or none.*)
LEMMA QueueSteps == PageOK /\ [Next]_vars => [QueueNext]_queueVars
<1> SUFFICES ASSUME PageOK, [Next]_vars PROVE [QueueNext]_queueVars
  OBVIOUS
<1>1. CASE PageStep \/ UNCHANGED vars
  BY <1>1 DEF PageStep, vars
<1>2. ASSUME NEW job \in flights, Arrive(job) \/ Deliver(job) \/ DeliverLate(job)
      PROVE  [QueueNext]_queueVars
  <2>1. job.token \in Requests
    BY RequestsAssumption, EditsAssumption DEF PageOK, OwnPreview, TypeOK, RevisionsOK
  <2> QED BY <1>2, <2>1 DEF Arrive, Deliver, DeliverLate, QueueNext
<1>3. ASSUME NEW r \in Requests, HangUp(r) \/ Work(r) PROVE [QueueNext]_queueVars
  BY <1>3 DEF HangUp, Work, QueueNext
<1> QED BY <1>1, <1>2, <1>3 DEF Next

LEMMA SpecStep == Spec => Init /\ [][Next]_vars
BY PTL DEF Spec

LEMMA Inductive == Spec => [](PageOK /\ QueueInv)
<1>1. Init => PageOK /\ QueueInv
  BY PageInitOK, QueueInitInv DEF Init
<1>2. PageOK /\ QueueInv /\ [Next]_vars => (PageOK /\ QueueInv)'
  BY PageStepOK, QueueSteps, QueueStepInv
<1> QED BY <1>1, <1>2, SpecStep, PTL

(* While the editor and the preview scroll together, the preview is that   *)
(* of the text in the editor.                                              *)
THEOREM LinkedIsCurrentAlways == Spec => []LinkedIsCurrent
<1>1. PageOK => LinkedIsCurrent  BY DEF PageOK
<1> QED BY <1>1, Inductive, PTL

(* "ready" and "errors" are said of the text being edited, and only with   *)
(* its preview, or a mark on an older one.                                 *)
THEOREM VerdictIsCurrentAlways == Spec => []VerdictIsCurrent
<1>1. PageOK => VerdictIsCurrent  BY DEF PageOK
<1> QED BY <1>1, Inductive, PTL

(* No document is shown with the preview, or the figures, of another one.  *)
THEOREM OwnPreviewAlways == Spec => []OwnPreview
<1>1. PageOK => OwnPreview  BY DEF PageOK
<1> QED BY <1>1, Inductive, PTL

(* Behind a page, too, the queue implements the service.                   *)
THEOREM PageIsServed == Spec => ImplementsService
<1>1. Init => Service!Init
  BY InitServes DEF Init
<1>2. (PageOK /\ QueueInv) /\ [Next]_vars => [Service!Next]_(Service!vars)
  BY QueueSteps, StepServes
<1> QED BY <1>1, <1>2, Inductive, SpecStep, PTL DEF ImplementsService, Service!Spec

--------------------------------------------------------------------------------
(* The order of the requests.                                              *)

ServedOK == ArrivalsOK /\ (InOrder => CurrentIsServed)

(* What the queue drops when a request arrives came earlier.               *)
LEMMA ArriveServed ==
  ASSUME PageOK, QueueInv, ServedOK, NEW job \in flights, Arrive(job) PROVE ServedOK'
<1> USE DEF ServedOK, ArrivalsOK, CurrentIsServed
<1>1. job.token \in Requests /\ job.token <= revision /\ revision' = revision /\ revision \in Nat
  BY RequestsAssumption, EditsAssumption
     DEF Arrive, pageVars, PageOK, OwnPreview, TypeOK, RevisionsOK
<1>2. /\ newest' = job.token
      /\ answer' = [q \in Requests |-> IF q = job.token THEN "open"
                                       ELSE IF q = pending THEN "dropped" ELSE answer[q]]
      /\ aborted' \subseteq aborted \cup ({active} \ {NoRequest})
  BY DEF Arrive, Run, Abort
<1>3. newest' # NoRequest => newest' <= revision'
  BY <1>1, <1>2
<1>4. ASSUME InOrder
      PROVE  \A r \in Requests : answer[r] # "none" => newest # NoRequest /\ r <= newest /\ newest < job.token
  BY <1>4 DEF Arrive
<1>5. \A r \in {active, pending} \ {NoRequest} : r \in Requests /\ answer[r] # "none"
  BY DEF QueueInv, JobsOK, QueueTypeOK, WaitingOK
<1>6. \A q, r \in Requests : q \in Int /\ r \in Int
  BY RequestsAssumption
<1>7. ASSUME InOrder PROVE \A r \in {active, pending} \ {NoRequest} : r < job.token
  <2>1. newest # NoRequest => newest \in Requests
    BY DEF QueueInv, JobsOK, QueueTypeOK
  <2> QED BY <1>1, <1>4, <1>5, <1>6, <1>7, <2>1
<1>8. ASSUME InOrder
      PROVE  \A r \in Requests : answer'[r] # "none" => newest' # NoRequest /\ r <= newest'
  <2>1. newest # NoRequest => newest \in Requests
    BY DEF QueueInv, JobsOK, QueueTypeOK
  <2> QED BY <1>1, <1>2, <1>4, <1>6, <1>7, <1>8, <2>1, NoRequestAssumption
<1>9. ASSUME InOrder PROVE \A r \in aborted' : r < revision'
  <2>1. aborted \subseteq Requests  BY DEF QueueInv, JobsOK, QueueTypeOK
  <2> QED BY <1>1, <1>2, <1>5, <1>6, <1>7, <1>9, <2>1
<1>10. ASSUME InOrder PROVE CurrentIsServed'
  BY <1>1, <1>2, <1>6, <1>7, <1>10, NoRequestAssumption
<1> QED BY <1>3, <1>8, <1>9, <1>10

LEMMA HangUpServed ==
  ASSUME PageOK, QueueInv, ServedOK, NEW r \in Requests, HangUp(r) PROVE ServedOK'
<1> USE DEF ServedOK, ArrivalsOK, CurrentIsServed
<1>1. /\ answer' \in {answer, [answer EXCEPT ![r] = "dropped"]} /\ answer[r] = "open"
      /\ aborted' \subseteq aborted \cup {r} /\ r < revision
      /\ UNCHANGED <<newest, revision>>
  BY DEF HangUp, Disconnect, Abort, pageVars
<1>2. answer \in [Requests -> {"none", "open", "preview", "failed", "dropped"}]
  BY DEF QueueInv, JobsOK, QueueTypeOK
<1> QED BY <1>1, <1>2

(* A job is only dropped if it was aborted, and then there is a newer one, *)
(* or nobody listens to it.                                                *)
LEMMA WorkServed ==
  ASSUME PageOK, QueueInv, ServedOK, NEW r \in Requests, Work(r) PROVE ServedOK'
<1> USE DEF ServedOK, ArrivalsOK, CurrentIsServed
<1>1. /\ answer[r] = "open" => answer' = answer \/
         \E how \in {"preview", "failed", "dropped"} :
           /\ answer' = [answer EXCEPT ![r] = how]
           /\ how = "dropped" => r \in aborted
      /\ answer[r] # "open" => answer' = answer
      /\ UNCHANGED <<newest, aborted, revision>>
  BY DEF Work, StartWorker, Overrun, Kill, Close, Settle, pageVars, QueueInv, JobsOK, QueueTypeOK,
         WaitingOK, WorkersOK, AbortsOK, Alive
<1>2. answer \in [Requests -> {"none", "open", "preview", "failed", "dropped"}]
  BY DEF QueueInv, JobsOK, QueueTypeOK
<1> QED BY <1>1, <1>2

LEMMA PageStepServed ==
  ASSUME PageOK, QueueInv, ServedOK, UNCHANGED queueVars, revision' \in {revision, revision + 1}
  PROVE  ServedOK'
<1>1. revision \in Nat
  BY EditsAssumption DEF PageOK, OwnPreview, TypeOK
<1>2. Requests \subseteq Int /\ aborted \subseteq Requests /\ newest \in Requests \cup {NoRequest}
  BY RequestsAssumption DEF QueueInv, JobsOK, QueueTypeOK
<1> QED BY <1>1, <1>2 DEF ServedOK, ArrivalsOK, CurrentIsServed, queueVars

LEMMA ServedStep ==
  PageOK /\ QueueInv /\ ServedOK /\ [Next]_vars => ServedOK'
<1> SUFFICES ASSUME PageOK, QueueInv, ServedOK, [Next]_vars PROVE ServedOK'
  OBVIOUS
<1>1. CASE PageStep
  <2>1. revision' \in {revision, revision + 1}
    BY <1>1 DEF PageStep, Page, Fire, Edit, Refresh, Open, Redraw, Schedule, Invalidate
  <2> QED BY <1>1, <2>1, PageStepServed DEF PageStep
<1>2. ASSUME NEW job \in flights, Deliver(job) \/ DeliverLate(job) PROVE ServedOK'
  BY <1>2, PageStepServed DEF Deliver, DeliverLate, Answer, AnswerLate
<1>3. CASE UNCHANGED vars
  BY <1>3, PageStepServed DEF vars, pageVars
<1> QED BY <1>1, <1>2, <1>3, ArriveServed, HangUpServed, WorkServed DEF Next

(* If requests reach the server in the order they are made, the page never *)
(* waits for a request that the server dropped.                            *)
THEOREM CurrentIsServedAlways == InOrder => (Spec => []CurrentIsServed)
<1> SUFFICES ASSUME InOrder PROVE Spec => []CurrentIsServed
  OBVIOUS
<1>1. Init => ServedOK
  BY DEF Init, PageInit, QueueInit, ServedOK, ArrivalsOK, CurrentIsServed
<1>2. Spec => []ServedOK
  BY <1>1, ServedStep, Inductive, SpecStep, PTL
<1>3. ServedOK => CurrentIsServed
  BY DEF ServedOK
<1> QED BY <1>2, <1>3, PTL

--------------------------------------------------------------------------------
(* The document of the receipt editor.  Every file only holds contents     *)
(* that were written for it, and what is on the way to a file or to the    *)
(* page is written for where it goes, and has been where it comes from.    *)

StoredOK ==
  \A t \in Targets : stored[t] \in had[t] /\ \A content \in had[t] : content.for = t

HeldOK ==
  /\ origin = "browser" /\ handle # Null =>
       editorText.for = handle /\ saved \in had[handle]
  /\ origin = "session" => editorText.for = "session" /\ saved \in had["session"]

LoadingOK == loading.at = "read" => loading.source \in had["session"]

OpeningOK ==
  \A opening \in openings :
    opening.at = "read" /\ opening.handle # Null => opening.source \in had[opening.handle]

(* A save the page waits for counts only for the document it was asked     *)
(* for, and then that document is still the one in the editor.             *)
AskedOK ==
  asked # Null =>
    /\ asked.origin = "browser" => asked.handle \in Files /\ asked.source.for = asked.handle
    /\ asked.origin = "session" => asked.source.for = "session"
    /\ asked.revision <= documentRevision
    /\ asked.revision = documentRevision => editorText.for = asked.source.for

PutsOK ==
  \A put \in puts : /\ put.source.for = "session"
                    /\ put.at = "renamed" => put.source \in had["session"]

DocumentInv ==
  DocumentTypeOK /\ StoredOK /\ HeldOK /\ LoadingOK /\ OpeningOK /\ AskedOK /\ PutsOK

LEMMA DocumentParts ==
  DocumentInv => /\ DocumentTypeOK /\ StoredOK /\ HeldOK /\ LoadingOK /\ OpeningOK
                 /\ AskedOK /\ PutsOK
  BY DEF DocumentInv

LEMMA DocumentInitInv == DocumentInit => DocumentInv
<1> SUFFICES ASSUME DocumentInit PROVE DocumentInv  OBVIOUS
<1>1. \A t \in Targets \cup {"draft"} : Original(t) \in Contents /\ Original(t).for = t
  BY BoundAssumption DEF Original, Contents
<1>2. Original("draft") \in Contents /\ Original("session") \in Contents
  BY <1>1 DEF Targets
<1>3. /\ stored \in [Targets -> Contents] /\ had \in [Targets -> SUBSET Contents]
  BY <1>1 DEF DocumentInit
<1>4. /\ loading \in [at : {"asked", "read", "over"}, source : Contents]
      /\ openings \subseteq Openings
  BY <1>2 DEF DocumentInit
<1>5. immutable \in BOOLEAN /\ sessionAvailable \in BOOLEAN /\ image \in BOOLEAN
  BY DEF DocumentInit
<1>6. /\ editorText \in Contents /\ saved = Null /\ origin = "draft" /\ handle = Null
      /\ asked = Null /\ puts = {}
      /\ documentRevision \in Nat /\ steps \in 0..MaxSteps
  BY <1>2, BoundAssumption DEF DocumentInit
<1>7. DocumentTypeOK
  BY <1>3, <1>4, <1>5, <1>6 DEF DocumentTypeOK
<1> QED
  BY <1>1, <1>7 DEF DocumentInit, DocumentInv, StoredOK, HeldOK, LoadingOK, OpeningOK, AskedOK,
     PutsOK, Targets

(* A file takes new content that was written for it.                       *)
LEMMA StoreGrows ==
  ASSUME DocumentTypeOK, StoredOK, NEW t \in Targets, NEW content \in Contents,
         content.for = t, Store(t, content)
  PROVE  /\ stored' \in [Targets -> Contents] /\ had' \in [Targets -> SUBSET Contents]
         /\ StoredOK' /\ content \in had'[t]
         /\ \A u \in Targets : had[u] \subseteq had'[u]
<1>1. /\ stored \in [Targets -> Contents] /\ had \in [Targets -> SUBSET Contents]
      /\ stored' = [stored EXCEPT ![t] = content]
      /\ had' = [had EXCEPT ![t] = had[t] \cup {content}]
  BY DEF DocumentTypeOK, Store
<1>2. stored' \in [Targets -> Contents] /\ had' \in [Targets -> SUBSET Contents]  BY <1>1
<1> QED BY <1>1, <1>2 DEF StoredOK

LEMMA DocumentFields ==
  ASSUME DocumentTypeOK
  PROVE  /\ editorText \in Contents /\ saved \in Contents \cup {Null}
         /\ documentRevision \in Nat /\ had \in [Targets -> SUBSET Contents]
         /\ stored \in [Targets -> Contents]
         /\ loading.source \in Contents
         /\ \A opening \in openings :
              opening.source \in Contents /\ opening.handle \in Files \cup {Null}
         /\ asked # Null => /\ asked.origin \in {"browser", "session"}
                            /\ asked.handle \in Files \cup {Null}
                            /\ asked.source \in Contents /\ asked.revision \in Nat
  BY DEF DocumentTypeOK, Saves, Openings

(* Files only gain contents: what was in one of them stays there.          *)
LEMMA HadGrows ==
  ASSUME DocumentInv, \A u \in Targets : had[u] \subseteq had'[u]
  PROVE  /\ UNCHANGED <<editorText, saved, origin, handle>> => HeldOK'
         /\ UNCHANGED loading => LoadingOK'
         /\ openings' \subseteq openings => OpeningOK'
         /\ UNCHANGED puts => PutsOK'
<1>1. /\ handle \in Files \cup {Null}
      /\ \A opening \in openings : opening.handle \in Files \cup {Null}
  BY DocumentParts, DocumentFields DEF DocumentTypeOK
<1>2. UNCHANGED <<editorText, saved, origin, handle>> => HeldOK'
  BY <1>1, DocumentParts DEF HeldOK, Targets
<1>3. UNCHANGED loading => LoadingOK'  BY DocumentParts DEF LoadingOK, Targets
<1>4. openings' \subseteq openings => OpeningOK'  BY <1>1, DocumentParts DEF OpeningOK, Targets
<1>5. UNCHANGED puts => PutsOK'  BY DocumentParts DEF PutsOK, Targets
<1> QED BY <1>2, <1>3, <1>4, <1>5

(* Another document comes into the editor: outcomes of earlier saves no    *)
(* longer count.                                                           *)
LEMMA DocumentIsSet ==
  ASSUME DocumentInv, NEW source \in Contents, NEW from \in {"draft", "browser", "session"},
         NEW writable \in Files \cup {Null}, NEW fixed \in BOOLEAN,
         SetDocument(source, from, writable, fixed),
         from = "browser" /\ writable # Null => source \in had[writable],
         from = "session" => source \in had["session"],
         sessionAvailable' \in BOOLEAN, steps' \in 0..MaxSteps,
         loading' = loading \/ loading' = [loading EXCEPT !.at = "over"],
         openings' \subseteq openings,
         UNCHANGED <<asked, puts, stored, had, image>>
  PROVE  DocumentInv'
<1> USE DocumentParts, DocumentFields
<1>1. LoadingOK' /\ loading' \in [at : {"asked", "read", "over"}, source : Contents]
  BY DEF LoadingOK, DocumentTypeOK
<1>3. OpeningOK' /\ openings' \subseteq Openings
  BY DEF OpeningOK, DocumentTypeOK
<1>4. DocumentTypeOK'  BY <1>1, <1>3 DEF DocumentTypeOK, SetDocument
<1>5. HeldOK'  BY DEF HeldOK, SetDocument, StoredOK, Targets
<1>6. AskedOK'  BY DEF AskedOK, SetDocument
<1>7. StoredOK' /\ PutsOK'  BY DEF StoredOK, PutsOK
<1> QED BY <1>1, <1>3, <1>4, <1>5, <1>6, <1>7 DEF DocumentInv

(* The outcome of a save that did land in its file.                        *)
LEMMA OutcomeHolds ==
  ASSUME DocumentInv, asked # Null, ApplySaveOutcome,
         \A u \in Targets : had[u] \subseteq had'[u],
         asked.origin = "browser" => asked.source \in had'[asked.handle],
         asked.origin = "session" => asked.source \in had'["session"],
         UNCHANGED <<editorText, documentRevision>>
  PROVE  /\ HeldOK'
         /\ saved' \in Contents \cup {Null} /\ handle' \in Files \cup {Null}
         /\ origin' \in {"draft", "browser", "session"}
<1> USE DocumentParts, DocumentFields
<1>1. CASE asked.revision = documentRevision
  <2>1. /\ origin' = asked.origin /\ saved' = asked.source
        /\ handle' = IF asked.origin = "session" THEN Null ELSE asked.handle
    BY <1>1 DEF ApplySaveOutcome
  <2> QED BY <1>1, <2>1 DEF HeldOK, AskedOK
<1>2. CASE asked.revision # documentRevision
  BY <1>2, HadGrows DEF ApplySaveOutcome, DocumentTypeOK
<1> QED BY <1>1, <1>2

LEMMA StepCounted == ASSUME DocumentTypeOK, Step PROVE steps' \in 0..MaxSteps
  BY BoundAssumption DEF DocumentTypeOK, Step

--------------------------------------------------------------------------------
(* Loading, editing and opening.                                           *)

LEMMA LoadingSteps ==
  ASSUME DocumentInv, SessionRead \/ SessionArrives \/ NoSession PROVE DocumentInv'
<1> USE DocumentParts, DocumentFields
<1>1. CASE SessionRead
  <2>1. DocumentTypeOK'  BY <1>1 DEF DocumentTypeOK, SessionRead, page, Targets
  <2>2. LoadingOK'  BY <1>1 DEF LoadingOK, SessionRead, StoredOK, Targets
  <2> QED
    BY <1>1, <2>1, <2>2 DEF DocumentInv, SessionRead, page, StoredOK, HeldOK, OpeningOK, AskedOK,
       PutsOK
<1>2. CASE SessionArrives
  <2>1. loading.source \in had["session"] /\ image \in BOOLEAN /\ steps \in 0..MaxSteps
    BY <1>2 DEF SessionArrives, LoadingOK, DocumentTypeOK
  <2> QED BY <1>2, <2>1, DocumentIsSet DEF SessionArrives
<1>3. CASE NoSession
  <2>1. DocumentTypeOK'  BY <1>3 DEF DocumentTypeOK, NoSession, page
  <2> QED
    BY <1>3, <2>1 DEF DocumentInv, NoSession, page, StoredOK, HeldOK, LoadingOK, OpeningOK,
       AskedOK, PutsOK
<1> QED BY <1>1, <1>2, <1>3

LEMMA EditTextKeeps == ASSUME DocumentInv, EditText PROVE DocumentInv'
<1> USE DocumentParts, DocumentFields
<1>1. /\ editorText' \in Contents /\ editorText'.for = editorText.for
      /\ steps' \in 0..MaxSteps
  BY StepCounted, BoundAssumption DEF EditText, Contents
<1>2. DocumentTypeOK'  BY <1>1 DEF DocumentTypeOK, EditText
<1> QED
  BY <1>1, <1>2 DEF DocumentInv, EditText, StoredOK, HeldOK, LoadingOK, OpeningOK, AskedOK, PutsOK

(* The openings change, and nothing else.                                  *)
LEMMA OpeningsChange ==
  ASSUME DocumentInv, openings' \subseteq Openings, OpeningOK', steps' \in 0..MaxSteps,
         UNCHANGED <<page, loading, asked, puts, stored, had, image>>
  PROVE  DocumentInv'
<1> USE DocumentParts
<1>1. DocumentTypeOK'  BY DEF DocumentTypeOK, page
<1> QED BY <1>1 DEF DocumentInv, page, StoredOK, HeldOK, LoadingOK, AskedOK, PutsOK

LEMMA OpenFileKeeps == ASSUME DocumentInv, OpenFile PROVE DocumentInv'
<1> DEFINE new == [n |-> steps, at |-> "picking", source |-> Original("draft"), handle |-> Null]
<1>1. new \in Openings /\ openings \subseteq Openings
  BY DocumentParts, BoundAssumption DEF Openings, Original, Contents, DocumentTypeOK
<1>2. openings' = openings \cup {new}  BY DEF OpenFile
<1>3. OpeningOK'  BY <1>2, DocumentParts DEF OpeningOK, OpenFile
<1>4. openings' \subseteq Openings  BY <1>1, <1>2
<1> QED BY <1>3, <1>4, DocumentParts, StepCounted, OpeningsChange DEF OpenFile

LEMMA PickFileKeeps ==
  ASSUME DocumentInv, NEW opening \in openings, PickFile(opening) PROVE DocumentInv'
<1> USE DocumentParts
<1>1. /\ openings \subseteq Openings /\ opening.n \in 0..MaxSteps /\ steps' \in 0..MaxSteps
      /\ UNCHANGED <<page, loading, asked, puts, stored, had, image>>
  BY DEF DocumentTypeOK, Openings, PickFile
<1>2. CASE openings' = openings \ {opening}
  <2>1. OpeningOK'  BY <1>1, <1>2 DEF OpeningOK
  <2> QED BY <1>1, <1>2, <2>1, OpeningsChange
<1>3. ASSUME NEW f \in Files, NEW writable \in BOOLEAN,
             openings' = (openings \ {opening}) \cup
               {[n |-> opening.n, at |-> "read", source |-> stored[f],
                 handle |-> IF writable THEN f ELSE Null]}
      PROVE  DocumentInv'
  <2> DEFINE read == [n |-> opening.n, at |-> "read", source |-> stored[f],
                      handle |-> IF writable THEN f ELSE Null]
  <2>1. stored[f] \in Contents /\ stored[f] \in had[f]
    BY DocumentFields DEF StoredOK, Targets
  <2>2. read \in Openings  BY <1>1, <2>1 DEF Openings
  <2>3. openings' \subseteq Openings  BY <1>1, <1>3, <2>2
  <2>4. OpeningOK'  BY <1>1, <1>3, <2>1 DEF OpeningOK
  <2> QED BY <1>1, <2>3, <2>4, OpeningsChange
<1> QED BY <1>2, <1>3 DEF PickFile

LEMMA FileArrivesKeeps ==
  ASSUME DocumentInv, NEW opening \in openings, FileArrives(opening) PROVE DocumentInv'
<1>1. /\ opening.handle # Null => opening.source \in had[opening.handle]
      /\ opening.source \in Contents /\ opening.handle \in Files \cup {Null}
      /\ sessionAvailable \in BOOLEAN /\ steps \in 0..MaxSteps
  BY DocumentParts, DocumentFields DEF FileArrives, OpeningOK, DocumentTypeOK
<1> QED BY <1>1, DocumentIsSet DEF FileArrives

LEMMA SetSourceKeeps == ASSUME DocumentInv, SetSource PROVE DocumentInv'
<1>1. /\ Original("draft") \in Contents
      /\ sessionAvailable \in BOOLEAN /\ steps' \in 0..MaxSteps
  BY DocumentParts, StepCounted, BoundAssumption DEF SetSource, Original, Contents, DocumentTypeOK
<1> QED BY <1>1, DocumentIsSet DEF SetSource

--------------------------------------------------------------------------------
(* Saving.                                                                 *)

LEMMA SaveFileKeeps == ASSUME DocumentInv, SaveFile PROVE DocumentInv'
<1> USE DocumentParts, DocumentFields
<1>1. /\ Target \in {"browser", "session"}
      /\ Target = "browser" => origin = "browser" /\ handle \in Files
      /\ Target = "session" => origin = "session"
  BY DEF SaveFile, Target, DocumentTypeOK
<1> DEFINE ask == [revision |-> documentRevision, origin |-> Target, handle |-> handle,
                   source |-> editorText]
           put == [source |-> editorText, n |-> steps, at |-> "asked"]
<1>2. /\ ask \in Saves /\ put \in [source : Contents, n : 0..MaxSteps, at : {"asked", "written", "renamed"}]
      /\ steps' \in 0..MaxSteps
  BY <1>1, StepCounted DEF SaveFile, Saves, DocumentTypeOK
<1>3. asked' = ask /\ (puts' = puts \/ (Target = "session" /\ puts' = puts \cup {put}))
  BY DEF SaveFile
<1>4. DocumentTypeOK'
  BY <1>2, <1>3 DEF DocumentTypeOK, SaveFile, page
<1>5. AskedOK'
  BY <1>1, <1>3, FilesAssumption DEF AskedOK, HeldOK, SaveFile, page
<1>6. PutsOK'
  BY <1>1, <1>3 DEF PutsOK, HeldOK, SaveFile
<1> QED
  BY <1>4, <1>5, <1>6 DEF DocumentInv, SaveFile, page, StoredOK, HeldOK, LoadingOK, OpeningOK

LEMMA SaveCopyKeeps == ASSUME DocumentInv, SaveCopy PROVE DocumentInv'
<1> USE DocumentParts, DocumentFields
<1>1. PICK f \in Files : Store(f, [editorText EXCEPT !.for = f])
  BY DEF SaveCopy
<1>2. /\ [editorText EXCEPT !.for = f] \in Contents /\ [editorText EXCEPT !.for = f].for = f
      /\ f \in Targets
  BY DEF Contents, Targets
<1>3. /\ stored' \in [Targets -> Contents] /\ had' \in [Targets -> SUBSET Contents]
      /\ StoredOK' /\ \A u \in Targets : had[u] \subseteq had'[u]
  BY <1>1, <1>2, StoreGrows
<1>4. DocumentTypeOK'
  BY <1>3, StepCounted DEF DocumentTypeOK, SaveCopy, page
<1>5. HeldOK' /\ LoadingOK' /\ OpeningOK' /\ PutsOK'
  BY <1>3, HadGrows DEF SaveCopy, page
<1>6. AskedOK'  BY DEF AskedOK, SaveCopy, page
<1> QED BY <1>3, <1>4, <1>5, <1>6 DEF DocumentInv

LEMMA BrowserWritesKeeps == ASSUME DocumentInv, BrowserWrites PROVE DocumentInv'
<1> USE DocumentParts, DocumentFields
<1>1. asked.handle \in Files /\ asked.handle \in Targets /\ asked.source.for = asked.handle
  BY DEF BrowserWrites, AskedOK, Targets
<1>2. /\ stored' \in [Targets -> Contents] /\ had' \in [Targets -> SUBSET Contents]
      /\ StoredOK' /\ \A u \in Targets : had[u] \subseteq had'[u]
      /\ asked.source \in had'[asked.handle]
  BY <1>1, StoreGrows DEF BrowserWrites
<1>3. /\ HeldOK' /\ saved' \in Contents \cup {Null} /\ handle' \in Files \cup {Null}
      /\ origin' \in {"draft", "browser", "session"}
  BY <1>2, OutcomeHolds DEF BrowserWrites
<1>4. DocumentTypeOK'
  BY <1>2, <1>3 DEF DocumentTypeOK, BrowserWrites
<1>5. LoadingOK' /\ OpeningOK' /\ PutsOK'
  BY <1>2, HadGrows DEF BrowserWrites
<1>6. AskedOK'  BY DEF AskedOK, BrowserWrites
<1> QED BY <1>2, <1>3, <1>4, <1>5, <1>6 DEF DocumentInv

LEMMA SaveFailsKeeps == ASSUME DocumentInv, SaveFails PROVE DocumentInv'
  BY DocumentParts DEF DocumentInv, DocumentTypeOK, StoredOK, HeldOK, LoadingOK, OpeningOK,
     AskedOK, PutsOK, SaveFails, page

LEMMA ServerSteps == ASSUME DocumentInv, NEW put \in puts, Server(put) PROVE DocumentInv'
<1> USE DocumentParts, DocumentFields
<1> DEFINE Puts == [source : Contents, n : 0..MaxSteps, at : {"asked", "written", "renamed"}]
<1>1. /\ put \in Puts /\ put.source.for = "session" /\ put.source \in Contents
      /\ puts \subseteq Puts
  BY DEF DocumentTypeOK, PutsOK
<1>2. CASE WriteTemporary(put)
  <2>1. /\ [put EXCEPT !.at = "written"] \in Puts
        /\ [put EXCEPT !.at = "written"].source = put.source
        /\ [put EXCEPT !.at = "written"].at = "written"
    BY <1>1
  <2>2. DocumentTypeOK'
    BY <1>1, <1>2, <2>1 DEF DocumentTypeOK, WriteTemporary, Change, page
  <2>3. PutsOK'  BY <1>1, <1>2, <2>1 DEF PutsOK, WriteTemporary, Change
  <2> QED
    BY <1>2, <2>2, <2>3 DEF DocumentInv, WriteTemporary, page, StoredOK, HeldOK, LoadingOK,
       OpeningOK, AskedOK
<1>3. CASE PutFails(put)
  <2>1. DocumentTypeOK'  BY <1>1, <1>3 DEF DocumentTypeOK, PutFails, page
  <2> QED
    BY <1>3, <2>1 DEF DocumentInv, PutFails, page, StoredOK, HeldOK, LoadingOK, OpeningOK,
       AskedOK, PutsOK
<1>4. CASE Rename(put)
  <2>1. /\ [put EXCEPT !.at = "renamed"] \in Puts
        /\ [put EXCEPT !.at = "renamed"].source = put.source
    BY <1>1
  <2>2. /\ stored' \in [Targets -> Contents] /\ had' \in [Targets -> SUBSET Contents]
        /\ StoredOK' /\ \A u \in Targets : had[u] \subseteq had'[u]
        /\ put.source \in had'["session"]
    BY <1>1, <1>4, StoreGrows DEF Rename, Targets
  <2>3. DocumentTypeOK'
    BY <1>1, <1>4, <2>1, <2>2 DEF DocumentTypeOK, Rename, Change, page
  <2>4. HeldOK' /\ LoadingOK' /\ OpeningOK'
    BY <1>4, <2>2, HadGrows DEF Rename, page
  <2>5. PutsOK'
    BY <1>1, <1>4, <2>1, <2>2 DEF PutsOK, Rename, Change, Targets
  <2>6. AskedOK'  BY <1>4 DEF AskedOK, Rename, page
  <2> QED BY <2>2, <2>3, <2>4, <2>5, <2>6 DEF DocumentInv
<1>5. CASE SessionSaved(put)
  <2>1. /\ asked # Null /\ asked.origin = "session" /\ asked.source \in had["session"]
        /\ UNCHANGED <<editorText, documentRevision, had>>
    BY <1>5 DEF SessionSaved, PutsOK
  <2>2. /\ HeldOK' /\ saved' \in Contents \cup {Null} /\ handle' \in Files \cup {Null}
        /\ origin' \in {"draft", "browser", "session"}
    BY <1>5, <2>1, OutcomeHolds DEF SessionSaved
  <2>3. DocumentTypeOK'
    BY <1>1, <1>5, <2>2 DEF DocumentTypeOK, SessionSaved
  <2> QED
    BY <1>5, <2>2, <2>3 DEF DocumentInv, SessionSaved, StoredOK, LoadingOK, OpeningOK, AskedOK,
       PutsOK
<1> QED BY <1>2, <1>3, <1>4, <1>5 DEF Server

LEMMA DocumentStep == DocumentInv /\ [DocumentNext]_documentVars => DocumentInv'
<1> SUFFICES ASSUME DocumentInv, [DocumentNext]_documentVars PROVE DocumentInv'  OBVIOUS
<1>1. CASE UNCHANGED documentVars
  BY <1>1 DEF documentVars, page, DocumentInv, DocumentTypeOK, StoredOK, HeldOK, LoadingOK,
     OpeningOK, AskedOK, PutsOK
<1> QED
  BY <1>1, LoadingSteps, EditTextKeeps, OpenFileKeeps, PickFileKeeps, FileArrivesKeeps, SetSourceKeeps,
     SaveFileKeeps, SaveCopyKeeps, BrowserWritesKeeps, SaveFailsKeeps, ServerSteps
  DEF DocumentNext, User

THEOREM DocumentInvariance == DocumentSpec => []DocumentInv
  BY DocumentInitInv, DocumentStep, PTL DEF DocumentSpec

(* A file only ever holds what was written for it, however openings, saves *)
(* and their late answers interleave.                                      *)
THEOREM OwnContentAlways == DocumentSpec => []OwnContent
<1>1. DocumentInv => OwnContent  BY DEF DocumentInv, StoredOK, OwnContent
<1> QED BY <1>1, DocumentInvariance, PTL

(* The page calls a document saved only if its file has held that text.    *)
THEOREM CleanWasStoredAlways == DocumentSpec => []CleanWasStored
<1>1. DocumentInv => CleanWasStored
  BY DEF DocumentInv, HeldOK, CleanWasStored, Dirty
<1> QED BY <1>1, DocumentInvariance, PTL

================================================================================
