----------------------------- MODULE PreviewRefresh -----------------------------
(***************************************************************************)
(* Keeping the preview of a page up to date with what is being edited: the *)
(* receipt editor (web/orchestration/preview-refresh.js) and the image     *)
(* profile editor (web/image_profile_editor/preview-refresh.js), which are *)
(* written alike.  An edit cancels the request in flight and starts a      *)
(* timer; answers of cancelled requests may still arrive.                  *)
(***************************************************************************)
EXTENDS Integers

CONSTANTS
  Texts,        \* what can be edited
  Wrong,        \* those the compiler reports errors for
  None,
  MaxEdits      \* bound: edits and documents opened

ASSUME WrongAssumption == Wrong \subseteq Texts
ASSUME EditsAssumption == MaxEdits \in Nat

VARIABLES
  receipt,      \* the receipt editor, with linked scrolling and files to open
  text,         \* the text and plain setting, or the draft, of the page
  document,     \* history: how many documents were opened before this one
  revision,
  timer,        \* the scheduled rendering, or None
  flights,      \* requests whose promise is not settled
  hasPreview,
  current, lastValid,   \* receipt view: the last result, the last right one
  drawn,        \* what it shows: of which text and document, or the placeholder
  stale,        \* and whether that is marked as no longer valid
  metrics,      \* image profile: figures beside the preview
  linked,       \* receipt: the editor and the preview scroll together
  status,       \* the render state: kind, and the text it is about
  edits

view == <<current, lastValid, drawn, stale>>
pageVars == <<receipt, text, document, revision, timer, flights, hasPreview, view,
              metrics, linked, status, edits>>

Jobs   == [token : 0..(MaxEdits + 2), source : Texts, document : 0..MaxEdits]
ASSUME NoneAssumption == None \notin Texts \cup Jobs /\ None # 0

Nothing == [text |-> None, document |-> None]
Invalid == [text |-> None, document |-> 0]

PageInit ==
  /\ receipt \in BOOLEAN
  /\ text \in Texts /\ document = 0
  /\ revision = 0 /\ timer = None /\ flights = {}
  /\ hasPreview = FALSE /\ current = Nothing /\ lastValid = Nothing
  /\ drawn = Nothing /\ stale = FALSE
  /\ metrics = [of |-> Nothing, fresh |-> FALSE]
  /\ linked = FALSE /\ status = [is |-> "idle", text |-> None]
  /\ edits = 0

--------------------------------------------------------------------------------
(* The revision goes up, the timer is cleared and the request aborted:     *)
(* from now on its answer is not for the current revision.                 *)
Invalidate_KeepsLink     == revision' = revision + 1 /\ UNCHANGED linked \* fault
Invalidate               == revision' = revision + 1 /\ linked' = FALSE

Schedule ==
  /\ Invalidate
  /\ timer' = [token |-> revision', source |-> text', document |-> document']
  /\ UNCHANGED flights

(* The timer fires, or a refresh is asked for.                             *)
Render(job) ==
  /\ timer' = None
  /\ flights' = flights \cup {job}
  /\ status' = [is |-> "working", text |-> job.source]

Fire ==
  /\ timer # None
  /\ Render(timer)
  /\ UNCHANGED <<receipt, text, document, revision, hasPreview, view, metrics, linked, edits>>

(* The text is edited, or the plain setting changed.                       *)
Edit ==
  /\ edits < MaxEdits /\ edits' = edits + 1
  /\ text' \in Texts \ {text}
  /\ UNCHANGED <<receipt, document>>
  /\ Schedule
  /\ UNCHANGED <<hasPreview, view, metrics, status>>

Refresh ==
  /\ edits < MaxEdits /\ edits' = edits + 1
  /\ Invalidate
  /\ Render([token |-> revision', source |-> text, document |-> document])
  /\ UNCHANGED <<receipt, text, document, hasPreview, view, metrics>>

(* Another document takes the place of this one.                           *)
Open_KeepsPreview ==                                                \* fault
  /\ receipt /\ edits < MaxEdits /\ edits' = edits + 1
  /\ text' \in Texts /\ document' = document + 1
  /\ Schedule
  /\ UNCHANGED <<receipt, hasPreview, view, metrics, status>>
Open ==
  /\ receipt /\ edits < MaxEdits /\ edits' = edits + 1
  /\ text' \in Texts /\ document' = document + 1
  /\ hasPreview' = FALSE
  /\ current' = Nothing /\ lastValid' = Nothing /\ drawn' = Nothing /\ stale' = FALSE
  /\ Schedule
  /\ UNCHANGED <<receipt, metrics, status>>

--------------------------------------------------------------------------------
(* The receipt view.                                                       *)

Of(job) == [text |-> job.source, document |-> job.document]

ShowPlaceholder == drawn' = Nothing /\ stale' = FALSE /\ UNCHANGED <<current, lastValid>>

(* A right result is drawn; a wrong one leaves the last right one, marked. *)
ShowResult(result) ==
  /\ current' = result
  /\ lastValid' = IF result = Invalid THEN lastValid ELSE result
  /\ drawn' = lastValid'
  /\ stale' = (result = Invalid /\ lastValid # Nothing)

(* The window or the font changed: what is current is drawn again.         *)
Redraw ==
  /\ current # Nothing
  /\ drawn' = IF current = Invalid THEN lastValid ELSE current
  /\ UNCHANGED <<receipt, text, document, revision, timer, flights, hasPreview, current, lastValid,
                 stale, metrics, linked, status, edits>>

--------------------------------------------------------------------------------
(* Answers.                                                                *)

ShowPreview(job) ==
  /\ ShowResult(Of(job)) /\ hasPreview' = TRUE
  /\ linked' = receipt
  /\ status' = [is |-> "ready", text |-> job.source]

(* Errors leave what was drawn before, marked as no longer valid.          *)
ShowErrors_Unmarked(job) ==                                         \* fault
  /\ IF hasPreview THEN UNCHANGED view ELSE ShowPlaceholder
  /\ linked' = FALSE
  /\ status' = [is |-> "error", text |-> job.source]
  /\ UNCHANGED hasPreview
ShowErrors(job) ==
  /\ IF hasPreview THEN ShowResult(Invalid) ELSE ShowPlaceholder
  /\ linked' = FALSE
  /\ status' = [is |-> "error", text |-> job.source]
  /\ UNCHANGED hasPreview

(* No compiler is connected.                                               *)
ShowOffline(job) ==
  /\ ShowPlaceholder /\ linked' = FALSE
  /\ status' = [is |-> "offline", text |-> job.source]
  /\ UNCHANGED hasPreview

(* The figures are counted from the dots of the last preview, and marked   *)
(* when an answer has no preview.                                          *)
MetricsOf(job) == [of |-> Of(job), fresh |-> TRUE]

ShowMetrics(job, ok) ==
  metrics' = IF receipt THEN metrics
             ELSE IF ok THEN MetricsOf(job) ELSE [metrics EXCEPT !.fresh = FALSE]

(* What the compiler makes of a text: its worker may fail, and the page of *)
(* a receipt may have no compiler.                                         *)
Verdicts(job) ==
  {IF job.source \in Wrong THEN "errors" ELSE "preview", "failed"}
  \cup (IF receipt THEN {"no compiler"} ELSE {})

Answer(job, verdict) ==
  /\ job \in flights /\ job.token = revision
  /\ flights' = flights \ {job}
  /\ \/ verdict = "preview" /\ ShowPreview(job) /\ ShowMetrics(job, TRUE)
     \/ verdict \in {"errors", "failed"} /\ ShowErrors(job) /\ ShowMetrics(job, FALSE)
     \/ verdict = "no compiler" /\ ShowOffline(job) /\ UNCHANGED metrics
  /\ UNCHANGED <<receipt, text, document, revision, timer, edits>>

(* An aborted request is rejected, or answered all the same.               *)
AnswerLate(job) ==
  /\ job \in flights /\ job.token # revision
  /\ flights' = flights \ {job}
  /\ UNCHANGED <<receipt, text, document, revision, timer, hasPreview, view, metrics, linked,
                 status, edits>>

Page == Fire \/ Edit \/ Refresh \/ Open \/ Redraw

--------------------------------------------------------------------------------
Views == [text : Texts, document : 0..MaxEdits] \cup {Nothing}

(* Every variable has its type.                                            *)
TypeOK ==
  /\ receipt \in BOOLEAN
  /\ text \in Texts /\ document \in 0..MaxEdits /\ edits \in 0..MaxEdits
  /\ revision \in 0..MaxEdits
  /\ timer \in Jobs \cup {None} /\ flights \subseteq Jobs
  /\ hasPreview \in BOOLEAN /\ linked \in BOOLEAN
  /\ current \in Views \cup {Invalid} /\ lastValid \in Views /\ drawn \in Views
  /\ stale \in BOOLEAN /\ metrics \in [of : Views, fresh : BOOLEAN]
  /\ status \in [is : {"idle", "working", "ready", "error", "offline"}, text : Texts \cup {None}]

ShownIsCurrent == drawn = [text |-> text, document |-> document] /\ ~stale

(* While the editor and the preview scroll together, the preview is that   *)
(* of the text in the editor, whatever answers arrived late.               *)
LinkedIsCurrent == linked => ShownIsCurrent

(* Unless a rendering is due, "ready" and "errors" are said of the text    *)
(* being edited, and only with the preview of that text drawn as valid.    *)
VerdictIsCurrent ==
  timer = None =>
    /\ status.is # "idle" => status.text = text
    /\ status.is = "ready" => ShownIsCurrent
    /\ status.is = "error" => drawn = Nothing \/ stale

(* What is on the page belongs together: a document is never shown with    *)
(* the preview of another one, not even as the last valid one, and the     *)
(* figures beside a preview are marked unless they are those of it.        *)
OwnPreview ==
  /\ TypeOK
  /\ drawn # Nothing => drawn.document = document
  /\ metrics.fresh => metrics.of = drawn /\ ~stale

(* When editing stops, a verdict about the text follows and stays.         *)
VerdictFollows == <>[](timer = None /\ status.is \in {"idle", "ready", "error", "offline"})

--------------------------------------------------------------------------------
(* Inductive together with the invariants above.  Every change of what is  *)
(* edited has a revision of its own; what is due, and the request for the  *)
(* current revision, are for what is being edited.                         *)
RevisionsOK ==
  /\ revision = edits /\ document <= edits
  /\ timer # None => /\ revision > 0
                     /\ timer = [token |-> revision, source |-> text, document |-> document]
  /\ \A job \in flights :
       /\ job.token \in 1..revision
       /\ job.token = revision => timer = None /\ Of(job) = [text |-> text, document |-> document]

(* What is drawn is the last right result of this document, or nothing.    *)
DrawnOK ==
  /\ current \in {Nothing, Invalid, lastValid} /\ drawn \in {Nothing, lastValid}
  /\ IF hasPreview THEN Nothing \notin {current, lastValid}
                   ELSE current = Nothing /\ lastValid = Nothing /\ ~stale
  /\ lastValid # Nothing => lastValid.document = document

(* Redrawing changes nothing where a claim is made about what is drawn.    *)
RedrawOK ==
  /\ linked \/ (timer = None /\ status.is = "ready")
     => current = [text |-> text, document |-> document]
  /\ timer = None /\ status.is = "error" /\ hasPreview => stale
  /\ metrics.fresh => ~receipt /\ hasPreview /\ current = lastValid /\ drawn = lastValid

PageOK == /\ OwnPreview /\ LinkedIsCurrent /\ VerdictIsCurrent
          /\ RevisionsOK /\ DrawnOK /\ RedrawOK

================================================================================
