----------------------------- MODULE ProfileEditing -----------------------------
(***************************************************************************)
(* The image profile editor: pages that edit drafts of one profile         *)
(* (web/image_profile_editor), the server that saves it                    *)
(* (libexec/image_profile_editor/profile_store.mjs, fixed_file.mjs), and   *)
(* other programs that edit the same file.  A revision is the hash of the  *)
(* content, so a content stands for its own revision; "version" stands for *)
(* what lstat tells: it changes whenever the file is written or replaced.  *)
(***************************************************************************)
EXTENDS Naturals, Sequences

CONSTANTS
  Pages,
  Keyword, Numbers,     \* the values of a field: a word such as "auto", or a number
  Default,              \* the number a field starts with
  Unusable,             \* a file that is no profile, or not safely owned
  None,
  MaxSteps,             \* bound: edits, saves and reloads of all pages
  MaxOutside            \* bound: changes by other programs

ASSUME ValuesAssumption ==
  /\ Default \in Numbers
  /\ Keyword \notin Numbers \cup {Unusable, None}
  /\ Numbers \cap {Unusable, None} = {}
  /\ Unusable # None
ASSUME BoundAssumption == MaxSteps \in Nat /\ MaxOutside \in Nat

Values   == Numbers \cup {Keyword}
Contents == Values \cup {Unusable}

VARIABLES
  file, version, outside,   \* the profile; how often others may still change it
  page,                     \* what each page shows and waits for
  queue,                    \* the saves, first come first served
  temporaries,              \* saves whose temporary file exists
  replaced,                 \* history: saves that replaced the profile
  reported,                 \* history: saves a page called saved
  steps

disk   == <<file, version, outside>>
server == <<queue, temporaries, replaced>>
vars   == <<disk, page, server, reported, steps>>

Page == [at : {"asked", "read", "open", "failed"}, read : Contents \cup {None},
         draft : Values \cup {None}, saved : Values \cup {None},
         revision : Values \cup {None}, numeric : Numbers \cup {None},
         pending : Nat, submitted : Values \cup {None}]
Save == [page : Pages, id : 1..MaxSteps, source : Values, base : Values,
         at : {"queued", "inspecting", "writing", "temporary", "checked", "replaced", "read"},
         stat : Nat, seen : Contents \cup {None}]

NewPage == [at |-> "asked", read |-> None, draft |-> None, saved |-> None,
            revision |-> None, numeric |-> None, pending |-> 0, submitted |-> None]

Init ==
  /\ file \in Values /\ version = 0 /\ outside = 0
  /\ page = [p \in Pages |-> NewPage]
  /\ queue = << >> /\ temporaries = {} /\ replaced = {} /\ reported = {}
  /\ steps = 0

Step     == steps < MaxSteps /\ steps' = steps + 1
Dirty(p) == page[p].draft # page[p].saved

(* Every change is rendered, and a rendered number is remembered for the   *)
(* "Cells" button.                                                         *)
Remembered(shown) ==
  [shown EXCEPT !.numeric = IF shown.draft \in Numbers THEN shown.draft ELSE @]
Render(p, shown) == page' = [page EXCEPT ![p] = Remembered(shown)]

(* The "Save profile" and "Revert" buttons are enabled.                    *)
CanSave(p) == page[p].at = "open" /\ page[p].pending = 0 /\ Dirty(p)

--------------------------------------------------------------------------------
(* A page.                                                                 *)

SessionRead(p) ==
  /\ page[p].at = "asked"
  /\ page' = [page EXCEPT ![p].at = "read", ![p].read = file]
  /\ UNCHANGED <<disk, server, reported, steps>>

SessionArrives(p) ==
  /\ page[p].at = "read" /\ page[p].read # Unusable
  /\ LET got == page[p].read
     IN Render(p, [page[p] EXCEPT !.at = "open", !.draft = got, !.saved = got,
                                  !.revision = got])
  /\ UNCHANGED <<disk, server, reported, steps>>

NoSession(p) ==
  /\ page[p].at = "read"
  /\ page' = [page EXCEPT ![p].at = "failed"]
  /\ UNCHANGED <<disk, server, reported, steps>>

(* The number of a field that shows its keyword cannot be typed over: the  *)
(* "Cells" button brings back the last number, or the default.             *)
Offered(p) ==
  {Keyword} \cup
  IF page[p].draft = Keyword
  THEN {IF page[p].numeric = None THEN Default ELSE page[p].numeric}
  ELSE Numbers

Edit(p) ==
  /\ page[p].at = "open" /\ Step
  /\ \E value \in Offered(p) : Render(p, [page[p] EXCEPT !.draft = value])
  /\ UNCHANGED <<disk, server, reported>>

Revert(p) ==
  /\ CanSave(p)
  /\ Render(p, [page[p] EXCEPT !.draft = page[p].saved])
  /\ UNCHANGED <<disk, server, reported, steps>>

Submit(p) ==
  /\ CanSave(p) /\ Step
  /\ page' = [page EXCEPT ![p].pending = steps + 1, ![p].submitted = page[p].draft]
  /\ queue' = Append(queue, [page |-> p, id |-> steps + 1, source |-> page[p].draft,
                             base |-> page[p].revision, at |-> "queued", stat |-> 0,
                             seen |-> None])
  /\ UNCHANGED <<disk, temporaries, replaced, reported>>

\* fault: the answer replaces whatever the page shows
ApplySession_Always(shown, got) ==
  [shown EXCEPT !.saved = got, !.revision = got, !.pending = 0, !.submitted = None,
                !.draft = got]

(* The answer: the page takes over what the server read back; a draft that *)
(* changed meanwhile stays, and is dirty.                                  *)
ApplySession(shown, got) ==
  [shown EXCEPT !.saved = got, !.revision = got, !.pending = 0, !.submitted = None,
                !.draft = IF @ = shown.submitted THEN got ELSE @]

Idle(shown) == [shown EXCEPT !.pending = 0, !.submitted = None]

(* The connection is lost: the save may still be done.                     *)
AnswerLost(p) ==
  /\ page[p].pending # 0
  /\ page' = [page EXCEPT ![p] = Idle(page[p])]
  /\ UNCHANGED <<disk, server, reported, steps>>

(* The page is left, with a warning when it is dirty or saving, and opened *)
(* again.                                                                  *)
Reload(p) ==
  /\ page[p].at \in {"open", "failed"} /\ Step
  /\ page' = [page EXCEPT ![p] = NewPage]
  /\ UNCHANGED <<disk, server, reported>>

--------------------------------------------------------------------------------
(* The server: one save at a time, the first of the queue.                 *)

Busy  == queue # << >>
First == Head(queue)
Goes(save) == queue' = <<save>> \o Tail(queue)
Waits(save) == page[save.page].pending = save.id

(* Whatever fails, the page is told and the next save has its turn.  The   *)
(* finally clause removes the temporary file, if one was made; but closing *)
(* or removing it may fail too, and then it stays.                         *)
RefuseWith(made) ==
  /\ \/ temporaries' = temporaries \ {First.id}
     \/ temporaries' = temporaries \cup made
  /\ queue' = Tail(queue)
  /\ page' = IF Waits(First)
             THEN [page EXCEPT ![First.page] = Idle(page[First.page])] ELSE page
  /\ UNCHANGED <<disk, replaced, reported, steps>>
Refuse == RefuseWith({})

Start ==
  /\ Busy /\ First.at = "queued"
  /\ \/ /\ file = First.base
        /\ Goes([First EXCEPT !.at = "inspecting", !.stat = version])
        /\ UNCHANGED <<disk, page, temporaries, replaced, reported, steps>>
     \/ Refuse

Answered(save) ==
  IF Waits(save)
  THEN /\ Render(save.page, ApplySession(page[save.page], save.seen))
       /\ reported' = reported \cup {save.id}
  ELSE UNCHANGED <<page, reported>>

\* fault: the page is answered as soon as the source was found valid
Inspected_Answers ==
  /\ Busy /\ First.at = "inspecting"
  /\ IF Waits(First)
     THEN /\ Render(First.page, ApplySession(page[First.page], First.source))
          /\ reported' = reported \cup {First.id}
     ELSE UNCHANGED <<page, reported>>
  /\ Goes([First EXCEPT !.at = "writing"])
  /\ UNCHANGED <<disk, temporaries, replaced, steps>>

(* The parser, a child process, finds the source valid, or cannot run.     *)
Inspected ==
  /\ Busy /\ First.at = "inspecting"
  /\ \/ /\ Goes([First EXCEPT !.at = "writing"])
        /\ UNCHANGED <<disk, page, temporaries, replaced, reported, steps>>
     \/ Refuse

Unchanged == version = First.stat /\ file # Unusable

(* The file may have been made when writing it fails.                      *)
WriteTemporary ==
  /\ Busy /\ First.at = "writing"
  /\ \/ /\ Unchanged
        /\ Goes([First EXCEPT !.at = "temporary"])
        /\ temporaries' = temporaries \cup {First.id}
        /\ UNCHANGED <<disk, page, replaced, reported, steps>>
     \/ Refuse
     \/ Unchanged /\ RefuseWith({First.id})

\* fault: the profile is not looked at again before it is replaced
Recheck_Not ==
  /\ Busy /\ First.at = "temporary"
  /\ \/ /\ Goes([First EXCEPT !.at = "checked", !.seen = file])
        /\ UNCHANGED <<disk, page, temporaries, replaced, reported, steps>>
     \/ Refuse

Recheck ==
  /\ Busy /\ First.at = "temporary"
  /\ \/ /\ Unchanged
        /\ Goes([First EXCEPT !.at = "checked", !.seen = file])
        /\ UNCHANGED <<disk, page, temporaries, replaced, reported, steps>>
     \/ Refuse

Rename ==
  /\ Busy /\ First.at = "checked"
  /\ \/ /\ file' = First.source /\ version' = version + 1
        /\ temporaries' = temporaries \ {First.id}
        /\ replaced' = replaced \cup {First.id}
        /\ Goes([First EXCEPT !.at = "replaced"])
        /\ UNCHANGED <<outside, page, reported, steps>>
     \/ Refuse

(* The profile is read back, and inspected again.                          *)
ReadBack ==
  /\ Busy /\ First.at = "replaced"
  /\ \/ /\ file # Unusable
        /\ Goes([First EXCEPT !.at = "read", !.seen = file])
        /\ UNCHANGED <<disk, page, temporaries, replaced, reported, steps>>
     \/ Refuse

Answer ==
  /\ Busy /\ First.at = "read"
  /\ \/ /\ Answered(First)
        /\ queue' = Tail(queue)
        /\ UNCHANGED <<disk, temporaries, replaced, steps>>
     \/ Refuse
--------------------------------------------------------------------------------
(* Other programs write the profile, or replace it, at any moment.         *)
Outside ==
  /\ outside < MaxOutside /\ outside' = outside + 1
  /\ file' \in Contents /\ version' = version + 1
  /\ UNCHANGED <<page, server, reported, steps>>

User(p)   == Edit(p) \/ Revert(p) \/ Submit(p) \/ Reload(p)
Loads(p)  == SessionRead(p) \/ SessionArrives(p) \/ NoSession(p)
Server    == Start \/ Inspected \/ WriteTemporary \/ Recheck \/ Rename \/ ReadBack \/ Answer
Next ==
  \/ \E p \in Pages : User(p) \/ Loads(p) \/ AnswerLost(p)
  \/ Server
  \/ Outside

(* The server works on what it was asked; nobody has to edit or to save.   *)
Spec == Init /\ [][Next]_vars /\ WF_vars(Server)

--------------------------------------------------------------------------------
(* Every variable has its type: only the first save has been looked at,    *)
(* and an open page has a value to show and to save.                       *)
TypeOK ==
  /\ file \in Contents /\ version \in Nat /\ outside \in 0..MaxOutside
  /\ page \in [Pages -> Page] /\ queue \in Seq(Save)
  /\ temporaries \subseteq 1..MaxSteps
  /\ replaced \subseteq 1..MaxSteps /\ reported \subseteq 1..MaxSteps
  /\ steps \in 0..MaxSteps
  /\ \A n \in 2..Len(queue) : queue[n].at = "queued"
  /\ \A p \in Pages : page[p].at = "open" => None \notin {page[p].draft, page[p].saved}

(* A save is about to replace the profile only if the profile, when it was *)
(* last looked at, was the content its page had been shown: neither the    *)
(* save of another page nor another program's change before that look is   *)
(* overwritten.                                                            *)
BaseConfirmed == Busy /\ First.at = "checked" => First.seen = First.base

(* What a page calls saved did replace the profile; and a temporary file   *)
(* that stays because its own removal failed is one of a save that neither *)
(* replaced the profile nor was called saved, although the same failing    *)
(* finally clause also runs after a rename that was done.                  *)
ReportedWasStored ==
  /\ TypeOK
  /\ reported \subseteq replaced
  /\ temporaries \cap replaced = {}

(* A save a page waits for ends, and the page can save again.              *)
SaveEnds == \A p \in Pages : page[p].pending # 0 ~> page[p].pending = 0

(* An answer never discards what was changed after it was asked for.       *)
AnswersKeepEdits ==
  \A p \in Pages :
    page[p].pending # 0 /\ page[p].draft # page[p].submitted
      /\ page[p].at = "open" /\ page'[p].at = "open" /\ steps' = steps
    => page'[p].draft = page[p].draft

(* A save ends, whatever fails, and its answer never discards what was     *)
(* changed after it was asked for.                                         *)
NewerEditsKept == SaveEnds /\ [][AnswersKeepEdits]_vars

(* docs/cli-contract.md:98: a save replaces the profile it was based on,   *)
(* never another.                                                          *)
OnlyOverBase == [][file' # file /\ outside' = outside => file = First.base]_vars
================================================================================
