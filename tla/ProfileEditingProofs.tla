-------------------------- MODULE ProfileEditingProofs --------------------------
(***************************************************************************)
(* For every number of pages, of values and of edits: a save replaces only *)
(* a profile that was, when last looked at, the one its page had shown;    *)
(* what a page calls saved did replace it; and no answer discards a newer  *)
(* edit.                                                                   *)
(***************************************************************************)
EXTENDS ProfileEditing, TLAPS

USE ValuesAssumption, BoundAssumption

--------------------------------------------------------------------------------
(* The inductive invariant.                                                *)

(* What the first save was told by its looks at the profile is still worth *)
(* what the next step takes it for.                                        *)
LooksOK ==
  Busy =>
    /\ First.at \in {"inspecting", "writing", "temporary"} =>
         First.stat <= version /\ (First.stat = version => file = First.base)
    /\ First.at = "checked" => First.seen = First.base
    /\ First.at \in {"replaced", "read"} => First.id \in replaced
    /\ First.at = "read" => First.seen \in Values

(* A page shows as saved what its revision stands for.                     *)
Fits(shown) ==
  /\ shown.at = "read" => shown.read # None
  /\ shown.at = "open" => None \notin {shown.draft, shown.saved}
  /\ shown.saved = shown.revision
PagesOK == \A p \in Pages : Fits(page[p])

(* Every save has a number of its own, and only the one at work can have   *)
(* replaced the profile already.                                           *)
SavesOK ==
  /\ \A n \in 1..Len(queue) : queue[n].id <= steps
  /\ \A m, n \in 1..Len(queue) : m # n => queue[m].id # queue[n].id
  /\ \A n \in 1..Len(queue) :
       queue[n].at \notin {"replaced", "read"} => queue[n].id \notin replaced
  /\ \A id \in replaced : id <= steps

(* The temporary file of a save becomes the profile, or stays what it is.  *)
FilesOK == temporaries \cap replaced = {} /\ reported \subseteq replaced

IInv == TypeOK /\ SavesOK /\ FilesOK /\ LooksOK /\ PagesOK

--------------------------------------------------------------------------------
(* The queue of saves.                                                     *)

LEMMA FirstSave ==
  ASSUME TypeOK, Busy
  PROVE  /\ First \in Save /\ First = queue[1]
         /\ Tail(queue) \in Seq(Save)
         /\ Len(queue) \in Nat \ {0} /\ Len(Tail(queue)) = Len(queue) - 1
         /\ \A n \in 1..(Len(queue) - 1) : Tail(queue)[n] = queue[n + 1]
  BY DEF TypeOK, Busy, First

LEMMA SaveNumbers ==
  ASSUME TypeOK, NEW n \in 1..Len(queue)
  PROVE  queue[n] \in Save /\ queue[n].id \in Nat
<1>1. queue[n] \in Save  BY DEF TypeOK
<1> QED BY <1>1 DEF Save

(* The first save goes on to its next step; the others still wait.         *)
LEMMA SaveGoes ==
  ASSUME TypeOK, Busy, NEW save \in Save, Goes(save)
  PROVE  /\ queue' \in Seq(Save) /\ Busy' /\ First' = save
         /\ \A n \in 2..Len(queue') : queue'[n].at = "queued"
         /\ Len(queue') = Len(queue) /\ queue'[1] = save
         /\ \A n \in 2..Len(queue') : queue'[n] = queue[n]
<1>1. queue' = <<save>> \o Tail(queue)  BY DEF Goes
<1>2. /\ <<save>> \in Seq(Save) /\ Len(<<save>>) = 1
      /\ queue' \in Seq(Save) /\ Len(queue') = Len(queue)
      /\ queue'[1] = save
      /\ \A n \in 2..Len(queue') : queue'[n] = Tail(queue)[n - 1]
  BY <1>1, FirstSave
<1>3. \A n \in 2..Len(queue') : queue'[n] = queue[n]
  BY <1>2, FirstSave
<1>4. Busy' /\ First' = save  BY <1>2, FirstSave DEF Busy, First
<1> QED BY <1>2, <1>3, <1>4 DEF TypeOK

(* The first save leaves; the next one, if any, has not been looked at.    *)
LEMMA SaveLeaves ==
  ASSUME TypeOK, Busy, queue' = Tail(queue)
  PROVE  /\ queue' \in Seq(Save)
         /\ \A n \in 2..Len(queue') : queue'[n].at = "queued"
         /\ Busy' => First'.at = "queued"
         /\ Len(queue') = Len(queue) - 1
         /\ \A n \in 1..Len(queue') : queue'[n] = queue[n + 1]
<1>1. /\ queue' \in Seq(Save) /\ Len(queue') = Len(queue) - 1
      /\ \A n \in 1..Len(queue') : queue'[n] = queue[n + 1] /\ queue'[n].at = "queued"
  BY FirstSave DEF TypeOK
<1>2. Busy' => First' = queue'[1] /\ 1 \in 1..Len(queue')
  BY <1>1 DEF Busy, First
<1>3. \A n \in 1..Len(queue') : queue'[n].at = "queued"  BY <1>1
<1>4. \A n \in 2..Len(queue') : n \in 1..Len(queue')  BY <1>1
<1> QED BY <1>1, <1>2, <1>3, <1>4

--------------------------------------------------------------------------------
(* Pages.                                                                  *)

PagesTyped ==
  /\ page \in [Pages -> Page]
  /\ \A p \in Pages : page[p].at = "open" => None \notin {page[p].draft, page[p].saved}

LEMMA PageChanges ==
  ASSUME TypeOK, PagesOK, NEW p \in Pages, NEW shown \in Page, Fits(shown),
         page' = [page EXCEPT ![p] = shown]
  PROVE  PagesTyped' /\ PagesOK'
  BY DEF TypeOK, PagesOK, PagesTyped, Fits

LEMMA Renders ==
  ASSUME TypeOK, PagesOK, NEW p \in Pages, NEW shown \in Page, Fits(shown), Render(p, shown)
  PROVE  /\ PagesTyped' /\ PagesOK'
         /\ page'[p].at = shown.at /\ page'[p].draft = shown.draft
         /\ \A q \in Pages \ {p} : page'[q] = page[q]
<1>1. /\ Remembered(shown) \in Page
      /\ Remembered(shown).at = shown.at /\ Remembered(shown).draft = shown.draft
      /\ Remembered(shown).read = shown.read /\ Remembered(shown).saved = shown.saved
      /\ Remembered(shown).revision = shown.revision
  BY DEF Remembered, Page
<1>2. Fits(Remembered(shown))  BY <1>1 DEF Fits
<1>3. page' = [page EXCEPT ![p] = Remembered(shown)]  BY DEF Render
<1> QED BY <1>1, <1>2, <1>3, PageChanges DEF TypeOK

(* What a page does alone leaves the server and the profile as they are.   *)
LEMMA ServerKept ==
  ASSUME IInv, PagesTyped', PagesOK', steps' \in 0..MaxSteps, steps' >= steps,
         UNCHANGED <<disk, server, reported>>
  PROVE  IInv'
<1> USE DEF disk, server
<1>1. TypeOK'  BY DEF IInv, TypeOK, PagesTyped
<1>2. SavesOK'
  <2>1. steps <= steps' /\ steps \in Nat /\ steps' \in Nat  BY DEF IInv, TypeOK
  <2>2. ASSUME NEW n \in 1..Len(queue) PROVE queue[n].id \in Nat
    BY SaveNumbers DEF IInv
  <2> QED BY <2>1, <2>2 DEF IInv, SavesOK, TypeOK
<1>3. LooksOK' /\ FilesOK'  BY DEF IInv, LooksOK, FilesOK, Busy, First
<1> QED BY <1>1, <1>2, <1>3 DEF IInv

LEMMA Parts == IInv => TypeOK /\ SavesOK /\ FilesOK /\ LooksOK /\ PagesOK
  BY DEF IInv

LEMMA Counted ==
  ASSUME TypeOK, Step
  PROVE  steps' \in 0..MaxSteps /\ steps' = steps + 1 /\ steps + 1 \in 1..MaxSteps /\ steps' >= steps
  BY DEF TypeOK, Step

LEMMA PageFields ==
  ASSUME TypeOK, PagesOK, NEW p \in Pages
  PROVE  /\ page[p] \in Page /\ Fits(page[p])
         /\ page[p].draft \in Values \cup {None} /\ page[p].saved \in Values \cup {None}
         /\ page[p].revision \in Values \cup {None} /\ page[p].numeric \in Numbers \cup {None}
         /\ page[p].read \in Contents \cup {None} /\ page[p].pending \in Nat
  BY DEF TypeOK, PagesOK, Page

LEMMA ValuesAreThere == None \notin Contents /\ Values \subseteq Contents /\ Unusable \notin Values
  BY DEF Values, Contents

--------------------------------------------------------------------------------
(* What a page and its user do.                                            *)

LEMMA SessionReadKeeps == ASSUME IInv, NEW p \in Pages, SessionRead(p) PROVE IInv'
<1> DEFINE shown == [page[p] EXCEPT !.at = "read", !.read = file]
<1>0. file \in Contents  BY Parts DEF TypeOK
<1>1. shown \in Page /\ Fits(shown)
  BY <1>0, Parts, PageFields, ValuesAreThere DEF Page, Fits
<1>2. page' = [page EXCEPT ![p] = shown]  BY DEF SessionRead
<1>3. PagesTyped' /\ PagesOK'  BY <1>1, <1>2, Parts, PageChanges
<1> QED BY <1>3, Parts, ServerKept DEF SessionRead, TypeOK

LEMMA SessionArrivesKeeps == ASSUME IInv, NEW p \in Pages, SessionArrives(p) PROVE IInv'
<1> DEFINE got == page[p].read
           shown == [page[p] EXCEPT !.at = "open", !.draft = got, !.saved = got, !.revision = got]
<1>1. got \in Values /\ got # None
  BY Parts, PageFields, ValuesAreThere DEF SessionArrives, Fits, Contents
<1>2. shown \in Page /\ Fits(shown)
  BY <1>1, Parts, PageFields DEF Page, Fits
<1>3. PagesTyped' /\ PagesOK'
  BY <1>2, Parts, Renders DEF SessionArrives
<1> QED BY <1>3, Parts, ServerKept DEF SessionArrives, TypeOK

LEMMA NoSessionKeeps == ASSUME IInv, NEW p \in Pages, NoSession(p) PROVE IInv'
<1> DEFINE shown == [page[p] EXCEPT !.at = "failed"]
<1>1. shown \in Page /\ Fits(shown)  BY Parts, PageFields DEF Page, Fits
<1>2. page' = [page EXCEPT ![p] = shown]  BY DEF NoSession
<1>3. PagesTyped' /\ PagesOK'  BY <1>1, <1>2, Parts, PageChanges
<1> QED BY <1>3, Parts, ServerKept DEF NoSession, TypeOK

LEMMA EditKeeps == ASSUME IInv, NEW p \in Pages, Edit(p) PROVE IInv'
<1>1. PICK value \in Offered(p) : Render(p, [page[p] EXCEPT !.draft = value])
  BY DEF Edit
<1> DEFINE shown == [page[p] EXCEPT !.draft = value]
<1>2. value \in Values /\ value # None
  BY Parts, PageFields, ValuesAreThere DEF Offered, Values, Contents
<1>3. shown \in Page /\ Fits(shown)
  BY <1>2, Parts, PageFields DEF Page, Fits
<1>4. PagesTyped' /\ PagesOK'  BY <1>1, <1>3, Parts, Renders
<1> QED BY <1>4, Parts, Counted, ServerKept DEF Edit

LEMMA RevertKeeps == ASSUME IInv, NEW p \in Pages, Revert(p) PROVE IInv'
<1> DEFINE shown == [page[p] EXCEPT !.draft = page[p].saved]
<1>1. shown \in Page /\ Fits(shown)
  BY Parts, PageFields DEF Page, Fits
<1>2. PagesTyped' /\ PagesOK'  BY <1>1, Parts, Renders DEF Revert
<1> QED BY <1>2, Parts, ServerKept DEF Revert, TypeOK

LEMMA IdleFits ==
  ASSUME TypeOK, PagesOK, NEW p \in Pages
  PROVE  /\ Idle(page[p]) \in Page /\ Fits(Idle(page[p]))
         /\ Idle(page[p]).draft = page[p].draft
  BY PageFields DEF Idle, Page, Fits

LEMMA AnswerLostKeeps == ASSUME IInv, NEW p \in Pages, AnswerLost(p) PROVE IInv'
<1>1. PagesTyped' /\ PagesOK'  BY Parts, IdleFits, PageChanges DEF AnswerLost
<1> QED BY <1>1, Parts, ServerKept DEF AnswerLost, TypeOK

LEMMA ReloadKeeps == ASSUME IInv, NEW p \in Pages, Reload(p) PROVE IInv'
<1>1. NewPage \in Page /\ Fits(NewPage)  BY DEF NewPage, Page, Fits
<1>2. PagesTyped' /\ PagesOK'  BY <1>1, Parts, PageChanges DEF Reload
<1> QED BY <1>2, Parts, Counted, ServerKept DEF Reload

LEMMA SubmitKeeps == ASSUME IInv, NEW p \in Pages, Submit(p) PROVE IInv'
<1> DEFINE shown == [page[p] EXCEPT !.pending = steps + 1, !.submitted = page[p].draft]
           save  == [page |-> p, id |-> steps + 1, source |-> page[p].draft,
                     base |-> page[p].revision, at |-> "queued", stat |-> 0, seen |-> None]
<1>1. steps + 1 \in 1..MaxSteps /\ steps' \in 0..MaxSteps
  BY Parts, Counted DEF Submit
<1>2. page[p].draft \in Values /\ page[p].revision \in Values
  BY Parts, PageFields DEF Submit, CanSave, Fits
<1>3. shown \in Page /\ Fits(shown)
  <2>1. steps + 1 \in Nat  BY <1>1
  <2> QED BY <1>2, <2>1, Parts, PageFields DEF Page, Fits
<1>4. page' = [page EXCEPT ![p] = shown]  BY DEF Submit
<1>5. PagesTyped' /\ PagesOK'  BY <1>3, <1>4, Parts, PageChanges
<1>6. save \in Save /\ save.at = "queued"  BY <1>1, <1>2 DEF Save
<1>7. queue' = Append(queue, save)  BY DEF Submit
<1>8. /\ queue' \in Seq(Save) /\ Len(queue') = Len(queue) + 1
      /\ queue'[Len(queue')] = save
      /\ \A n \in 1..Len(queue) : queue'[n] = queue[n]
  BY <1>6, <1>7, Parts DEF TypeOK
<1>9. ASSUME NEW n \in 2..Len(queue') PROVE queue'[n].at = "queued"
  <2>1. Len(queue) \in Nat  BY Parts DEF TypeOK
  <2>2. CASE n = Len(queue')  BY <1>6, <1>8, <2>2
  <2>3. CASE n # Len(queue')
    <3>1. n \in 2..Len(queue) /\ queue'[n] = queue[n]  BY <1>8, <2>1, <2>3
    <3> QED BY <3>1, Parts DEF TypeOK
  <2> QED BY <2>2, <2>3
<1>10. TypeOK'
  BY <1>1, <1>5, <1>8, <1>9, Parts DEF IInv, TypeOK, PagesTyped, Submit, disk
<1>11. /\ Busy' /\ (Busy => First' = First)
       /\ (~Busy => First'.at = "queued")
  BY <1>6, <1>8, Parts DEF Busy, First, TypeOK
<1>12. SavesOK'
  <2>1. /\ steps \in Nat /\ steps' = steps + 1 /\ save.id = steps + 1
        /\ Len(queue) \in Nat
        /\ \A n \in 1..Len(queue) : queue[n].id <= steps /\ queue[n].id \in Nat
    BY Parts, Counted, SaveNumbers DEF Submit, TypeOK, SavesOK
  <2>2. ASSUME NEW n \in 1..Len(queue')
        PROVE  \/ n \in 1..Len(queue) /\ queue'[n] = queue[n]
               \/ n = Len(queue) + 1 /\ queue'[n] = save
    BY <1>8, <2>1
  <2>3. replaced' = replaced /\ \A id \in replaced : id <= steps /\ id \in Nat
    BY Parts DEF Submit, SavesOK, TypeOK
  <2>4. save.id \notin replaced  BY <2>1, <2>3
  <2> HIDE DEF save
  <2>5. \A n \in 1..Len(queue') : queue'[n].id <= steps'  BY <2>1, <2>2
  <2>6. \A m, n \in 1..Len(queue') : m # n => queue'[m].id # queue'[n].id
    BY <2>1, <2>2, Parts DEF SavesOK
  <2>7. \A n \in 1..Len(queue') :
          queue'[n].at \notin {"replaced", "read"} => queue'[n].id \notin replaced'
    BY <2>2, <2>3, <2>4, Parts DEF SavesOK
  <2>8. \A id \in replaced' : id <= steps'  BY <2>1, <2>3
  <2> QED BY <2>5, <2>6, <2>7, <2>8 DEF SavesOK
<1>14. FilesOK'  BY Parts DEF FilesOK, Submit
<1>13. LooksOK'  BY <1>11, Parts DEF LooksOK, Submit, disk
<1> QED BY <1>5, <1>10, <1>12, <1>13, <1>14 DEF IInv

--------------------------------------------------------------------------------
(* What the server does.                                                   *)

LEMMA SaveFields ==
  ASSUME TypeOK, Busy
  PROVE  /\ First.page \in Pages /\ First.id \in 1..MaxSteps
         /\ First.source \in Values /\ First.base \in Values
         /\ First.stat \in Nat /\ First.seen \in Contents \cup {None}
  BY FirstSave DEF Save

(* The saves that wait keep their numbers when the first one leaves.       *)
LEMMA LeavingKeepsSaves ==
  ASSUME IInv, Busy, queue' = Tail(queue), UNCHANGED <<replaced, steps>>
  PROVE  SavesOK'
<1>1. /\ Len(queue) \in Nat /\ Len(queue') = Len(queue) - 1
      /\ \A n \in 1..Len(queue') : queue'[n] = queue[n + 1]
  BY Parts, FirstSave, SaveLeaves
<1>2. \A n \in 1..Len(queue') : n + 1 \in 1..Len(queue)  BY <1>1
<1>3. \A m, n \in 1..Len(queue') : m # n => m + 1 # n + 1  BY <1>1
<1> QED BY <1>1, <1>2, <1>3, Parts DEF SavesOK

(* A page stands as it did, except that a page which waited for the first  *)
(* save may have been told.  Whatever file this save leaves, it did not    *)
(* replace the profile.                                                    *)
LEMMA RefuseWithKeeps ==
  ASSUME IInv, Busy, NEW made \in SUBSET {First.id},
         made # {} => First.id \notin replaced, RefuseWith(made)
  PROVE  IInv'
<1>1. PagesTyped' /\ PagesOK'
  <2>1. CASE Waits(First)
    BY <2>1, Parts, SaveFields, IdleFits, PageChanges DEF RefuseWith
  <2>2. CASE ~Waits(First)
    BY <2>2, Parts DEF RefuseWith, PagesTyped, TypeOK, PagesOK
  <2> QED BY <2>1, <2>2
<1>2. /\ queue' \in Seq(Save)
      /\ \A n \in 2..Len(queue') : queue'[n].at = "queued"
      /\ Busy' => First'.at = "queued"
  BY Parts, SaveLeaves DEF RefuseWith
<1>3. TypeOK'
  <2>1. temporaries' \subseteq 1..MaxSteps  BY Parts, SaveFields DEF RefuseWith, TypeOK
  <2> QED BY <1>1, <1>2, <2>1, Parts DEF TypeOK, PagesTyped, RefuseWith, disk
<1>4. SavesOK'  BY LeavingKeepsSaves DEF RefuseWith
<1>5. LooksOK'  BY <1>2 DEF LooksOK
<1>6. FilesOK'  BY Parts DEF FilesOK, RefuseWith
<1> QED BY <1>1, <1>3, <1>4, <1>5, <1>6 DEF IInv

LEMMA RefuseKeeps == ASSUME IInv, Busy, Refuse PROVE IInv'
  BY RefuseWithKeeps DEF Refuse

LEMMA NotYetReplaced ==
  ASSUME TypeOK, SavesOK, Busy, First.at \notin {"replaced", "read"}
  PROVE  First.id \notin replaced
<1>1. First = queue[1] /\ 1 \in 1..Len(queue)  BY FirstSave
<1> QED BY <1>1 DEF SavesOK

(* The first save goes one step on, and no page is told.                   *)
LEMMA GoesOn ==
  ASSUME IInv, Busy, NEW save \in Save, Goes(save),
         file' \in Contents, version' \in Nat,
         replaced' \subseteq 1..MaxSteps, replaced \subseteq replaced',
         UNCHANGED <<outside, page, reported, steps>>,
         save.id = First.id,
         \/ UNCHANGED replaced /\ (save.at \in {"replaced", "read"} \/ First.at \notin {"replaced", "read"})
         \/ replaced' = replaced \cup {First.id} /\ save.at \in {"replaced", "read"},
         temporaries' \subseteq temporaries \cup {First.id},
         First.id \in temporaries' => First.id \notin replaced',
         save.at \in {"inspecting", "writing", "temporary"} =>
           save.stat <= version' /\ (save.stat = version' => file' = save.base),
         save.at = "checked" => save.seen = save.base,
         save.at \in {"replaced", "read"} => save.id \in replaced',
         save.at = "read" => save.seen \in Values
  PROVE  IInv'
<1>1. /\ queue' \in Seq(Save) /\ Busy' /\ First' = save
      /\ \A n \in 2..Len(queue') : queue'[n].at = "queued"
  BY Parts, SaveGoes
<1>2. TypeOK'
  <2>1. temporaries' \subseteq 1..MaxSteps  BY Parts, SaveFields DEF TypeOK
  <2> QED BY <1>1, <2>1, Parts DEF TypeOK
<1>3. SavesOK'
  <2>1. /\ Len(queue') = Len(queue) /\ queue'[1] = save /\ queue[1] = First
        /\ Len(queue) \in Nat \ {0}
        /\ \A n \in 2..Len(queue') : queue'[n] = queue[n]
    BY Parts, SaveGoes, FirstSave
  <2>2. ASSUME NEW n \in 1..Len(queue')
        PROVE  /\ n \in 1..Len(queue) /\ queue'[n].id = queue[n].id
               /\ n # 1 => queue'[n] = queue[n]
    BY <2>1
  <2>3. \A n \in 1..Len(queue') : queue'[n].id <= steps'
    BY <2>2, Parts DEF SavesOK
  <2>4. \A m, n \in 1..Len(queue') : m # n => queue'[m].id # queue'[n].id
    BY <2>2, Parts DEF SavesOK
  <2>5. ASSUME NEW n \in 1..Len(queue'), queue'[n].at \notin {"replaced", "read"}
        PROVE  queue'[n].id \notin replaced'
    <3>1. CASE n = 1
      <4>1. queue'[n] = save /\ save.at \notin {"replaced", "read"}  BY <2>1, <2>5, <3>1
      <4>2. First.at \notin {"replaced", "read"} /\ replaced' = replaced  BY <4>1
      <4> QED BY <4>1, <4>2, Parts, NotYetReplaced
    <3>2. CASE n # 1
      <4>1. queue'[n] = queue[n] /\ queue[n].id \notin replaced /\ queue[n].id # First.id
        BY <2>1, <2>2, <2>5, <3>2, Parts DEF SavesOK
      <4> QED BY <4>1
    <3> QED BY <3>1, <3>2
  <2>6. \A id \in replaced' : id <= steps'
    <3>1. First.id <= steps  BY <2>1, Parts DEF SavesOK
    <3> QED BY <3>1, Parts DEF SavesOK
  <2> QED BY <2>3, <2>4, <2>5, <2>6 DEF SavesOK
<1>4. LooksOK'  BY <1>1 DEF LooksOK
<1>5. PagesOK'  BY Parts DEF PagesOK
<1>6. FilesOK'  BY Parts DEF FilesOK
<1> QED BY <1>2, <1>3, <1>4, <1>5, <1>6 DEF IInv

LEMMA StartKeeps == ASSUME IInv, Start PROVE IInv'
<1> DEFINE save == [First EXCEPT !.at = "inspecting", !.stat = version]
<1>1. ASSUME file = First.base, Goes(save),
             UNCHANGED <<disk, page, temporaries, replaced, reported, steps>>
      PROVE  IInv'
  <2>1. version \in Nat /\ file \in Contents /\ replaced \subseteq 1..MaxSteps
    BY Parts DEF TypeOK
  <2>2. /\ save \in Save /\ save.at = "inspecting" /\ save.stat = version
        /\ save.base = First.base /\ save.id = First.id
    BY <2>1, Parts, FirstSave DEF Start, Save
  <2>3. First.id \notin replaced  BY Parts, NotYetReplaced DEF Start
  <2> HIDE DEF save
  <2> QED BY <1>1, <2>1, <2>2, <2>3, GoesOn DEF Start, disk
<1> QED BY <1>1, RefuseKeeps DEF Start

LEMMA InspectedKeeps == ASSUME IInv, Inspected PROVE IInv'
<1> DEFINE save == [First EXCEPT !.at = "writing"]
<1>1. ASSUME Goes(save), UNCHANGED <<disk, page, temporaries, replaced, reported, steps>>
      PROVE  IInv'
  <2>1. version \in Nat /\ file \in Contents /\ replaced \subseteq 1..MaxSteps
    BY Parts DEF TypeOK
  <2>2. /\ save \in Save /\ save.at = "writing" /\ save.stat = First.stat
        /\ save.base = First.base /\ save.id = First.id
    BY Parts, FirstSave DEF Inspected, Save
  <2>3. First.id \notin replaced  BY Parts, NotYetReplaced DEF Inspected
  <2>4. First.stat <= version /\ (First.stat = version => file = First.base)
    BY Parts DEF Inspected, LooksOK
  <2> HIDE DEF save
  <2> QED BY <1>1, <2>1, <2>2, <2>3, <2>4, GoesOn DEF Inspected, disk
<1> QED BY <1>1, RefuseKeeps DEF Inspected

LEMMA WriteTemporaryKeeps == ASSUME IInv, WriteTemporary PROVE IInv'
<1> DEFINE save == [First EXCEPT !.at = "temporary"]
<1>1. ASSUME Goes(save), temporaries' = temporaries \cup {First.id},
             UNCHANGED <<disk, page, replaced, reported, steps>>
      PROVE  IInv'
  <2>1. version \in Nat /\ file \in Contents /\ replaced \subseteq 1..MaxSteps
    BY Parts DEF TypeOK
  <2>2. /\ save \in Save /\ save.at = "temporary" /\ save.stat = First.stat
        /\ save.base = First.base /\ save.id = First.id
    BY Parts, FirstSave DEF WriteTemporary, Save
  <2>3. First.id \notin replaced  BY Parts, NotYetReplaced DEF WriteTemporary
  <2>4. First.stat <= version /\ (First.stat = version => file = First.base)
    BY Parts DEF WriteTemporary, LooksOK
  <2> HIDE DEF save
  <2> QED BY <1>1, <2>1, <2>2, <2>3, <2>4, GoesOn DEF WriteTemporary, disk
<1>2. ASSUME RefuseWith({First.id}) PROVE IInv'
  <2>1. First.id \notin replaced  BY Parts, NotYetReplaced DEF WriteTemporary
  <2> QED BY <1>2, <2>1, RefuseWithKeeps DEF WriteTemporary
<1> QED BY <1>1, <1>2, RefuseKeeps DEF WriteTemporary

(* The profile has not been written since its first look, so what is seen  *)
(* now is what the page had been shown.                                    *)
LEMMA RecheckKeeps == ASSUME IInv, Recheck PROVE IInv'
<1> DEFINE save == [First EXCEPT !.at = "checked", !.seen = file]
<1>1. ASSUME Unchanged, Goes(save), UNCHANGED <<disk, page, temporaries, replaced, reported, steps>>
      PROVE  IInv'
  <2>1. version \in Nat /\ file \in Contents /\ replaced \subseteq 1..MaxSteps
    BY Parts DEF TypeOK
  <2>2. /\ save \in Save /\ save.at = "checked" /\ save.seen = file
        /\ save.base = First.base /\ save.id = First.id
    BY <2>1, Parts, FirstSave DEF Recheck, Save
  <2>3. First.id \notin replaced  BY Parts, NotYetReplaced DEF Recheck
  <2>4. file = First.base
    BY <1>1, Parts DEF Recheck, LooksOK, Unchanged
  <2> HIDE DEF save
  <2> QED BY <1>1, <2>1, <2>2, <2>3, <2>4, GoesOn DEF Recheck, disk
<1> QED BY <1>1, RefuseKeeps DEF Recheck

LEMMA RenameKeeps == ASSUME IInv, Rename PROVE IInv'
<1> DEFINE save == [First EXCEPT !.at = "replaced"]
<1>1. ASSUME file' = First.source, version' = version + 1,
             temporaries' = temporaries \ {First.id},
             replaced' = replaced \cup {First.id},
             Goes(save), UNCHANGED <<outside, page, reported, steps>>
      PROVE  IInv'
  <2>1. /\ version \in Nat /\ replaced \subseteq 1..MaxSteps
        /\ First.id \in 1..MaxSteps /\ First.source \in Contents
    BY Parts, SaveFields, ValuesAreThere DEF TypeOK, Rename
  <2>2. save \in Save /\ save.at = "replaced" /\ save.id = First.id
    BY Parts, FirstSave DEF Rename, Save
  <2>3. First.id \notin temporaries' /\ temporaries' \subseteq temporaries  BY <1>1
  <2> HIDE DEF save
  <2> QED BY <1>1, <2>1, <2>2, <2>3, GoesOn DEF Rename
<1> QED BY <1>1, RefuseKeeps DEF Rename

LEMMA ReadBackKeeps == ASSUME IInv, ReadBack PROVE IInv'
<1> DEFINE save == [First EXCEPT !.at = "read", !.seen = file]
<1>1. ASSUME file # Unusable, Goes(save),
             UNCHANGED <<disk, page, temporaries, replaced, reported, steps>>
      PROVE  IInv'
  <2>1. version \in Nat /\ file \in Contents /\ replaced \subseteq 1..MaxSteps
    BY Parts DEF TypeOK
  <2>2. save \in Save /\ save.at = "read" /\ save.seen = file /\ save.id = First.id
    BY <2>1, Parts, FirstSave DEF ReadBack, Save
  <2>3. file \in Values /\ First.id \in replaced
    BY <1>1, <2>1, Parts DEF ReadBack, LooksOK, Contents
  <2>4. First.id \notin temporaries  BY <2>3, Parts DEF FilesOK
  <2> HIDE DEF save
  <2> QED BY <1>1, <2>1, <2>2, <2>3, <2>4, GoesOn DEF ReadBack, disk
<1> QED BY <1>1, RefuseKeeps DEF ReadBack

LEMMA AppliedFits ==
  ASSUME TypeOK, PagesOK, NEW p \in Pages, NEW got \in Values
  PROVE  /\ ApplySession(page[p], got) \in Page /\ Fits(ApplySession(page[p], got))
         /\ page[p].draft # page[p].submitted =>
              ApplySession(page[p], got).draft = page[p].draft
  BY PageFields, ValuesAreThere DEF ApplySession, Page, Fits

LEMMA AnswerKeeps == ASSUME IInv, Answer PROVE IInv'
<1>1. ASSUME Answered(First), queue' = Tail(queue),
             UNCHANGED <<disk, temporaries, replaced, steps>>
      PROVE  IInv'
  <2>1. First.page \in Pages /\ First.seen \in Values /\ First.id \in replaced
    BY Parts, SaveFields DEF Answer, LooksOK
  <2>2. PagesTyped' /\ PagesOK' /\ reported' \subseteq replaced /\ reported' \subseteq 1..MaxSteps
    <3>1. CASE Waits(First)
      <4>1. PagesTyped' /\ PagesOK'
        BY <1>1, <2>1, <3>1, Parts, AppliedFits, Renders DEF Answered
      <4>2. replaced' = replaced /\ reported' = reported \cup {First.id}
        BY <1>1, <3>1 DEF Answered
      <4>3. reported \subseteq replaced /\ replaced \subseteq 1..MaxSteps
        BY Parts DEF FilesOK, TypeOK
      <4> QED BY <2>1, <4>1, <4>2, <4>3
    <3>2. CASE ~Waits(First)
      BY <1>1, <3>2, Parts DEF Answered, FilesOK, PagesTyped, TypeOK, PagesOK
    <3> QED BY <3>1, <3>2
  <2>3. /\ queue' \in Seq(Save)
        /\ \A n \in 2..Len(queue') : queue'[n].at = "queued"
        /\ Busy' => First'.at = "queued"
    BY <1>1, Parts, SaveLeaves DEF Answer
  <2>4. TypeOK'  BY <1>1, <2>2, <2>3, Parts DEF TypeOK, PagesTyped, disk
  <2>5. SavesOK'  BY <1>1, LeavingKeepsSaves DEF Answer
  <2>6. LooksOK'  BY <2>3 DEF LooksOK
  <2>7. FilesOK'  BY <1>1, <2>2, Parts DEF FilesOK
  <2> QED BY <2>2, <2>4, <2>5, <2>6, <2>7 DEF IInv
<1> QED BY <1>1, RefuseKeeps DEF Answer

LEMMA OutsideKeeps == ASSUME IInv, Outside PROVE IInv'
<1>1. TypeOK'
  <2>1. /\ file' \in Contents /\ version' \in Nat /\ outside' \in 0..MaxOutside
    BY Parts DEF TypeOK, Outside
  <2> QED BY <2>1, Parts DEF TypeOK, Outside, server
<1>2. SavesOK' /\ FilesOK'  BY Parts DEF SavesOK, FilesOK, Outside, server
<1>3. LooksOK'
  <2>1. version \in Nat /\ version' = version + 1 /\ Busy' = Busy /\ First' = First
        /\ (Busy => First.stat \in Nat)
    BY Parts, SaveFields DEF Outside, server, Busy, First, TypeOK
  <2> QED BY <2>1, Parts DEF LooksOK, Outside, server
<1>4. PagesOK'  BY Parts DEF PagesOK, Outside
<1> QED BY <1>1, <1>2, <1>3, <1>4 DEF IInv

--------------------------------------------------------------------------------
(* The theorems.                                                           *)

LEMMA ServerKeeps == ASSUME IInv, Server PROVE IInv'
  BY StartKeeps, InspectedKeeps, WriteTemporaryKeeps, RecheckKeeps, RenameKeeps,
     ReadBackKeeps, AnswerKeeps DEF Server

LEMMA InitInv == Init => IInv
<1> SUFFICES ASSUME Init PROVE IInv  OBVIOUS
<1>1. NewPage \in Page /\ Fits(NewPage)  BY DEF NewPage, Page, Fits
<1>2. TypeOK
  BY <1>1, ValuesAreThere DEF Init, TypeOK, NewPage
<1> QED BY <1>1, <1>2 DEF Init, IInv, SavesOK, FilesOK, LooksOK, PagesOK, Busy

LEMMA StepInv == IInv /\ [Next]_vars => IInv'
<1> SUFFICES ASSUME IInv, [Next]_vars PROVE IInv'  OBVIOUS
<1>1. ASSUME NEW p \in Pages, User(p) \/ Loads(p) \/ AnswerLost(p) PROVE IInv'
  BY <1>1, EditKeeps, RevertKeeps, SubmitKeeps, ReloadKeeps, SessionReadKeeps,
     SessionArrivesKeeps, NoSessionKeeps, AnswerLostKeeps DEF User, Loads
<1>2. CASE UNCHANGED vars
  BY <1>2 DEF vars, disk, server, IInv, TypeOK, SavesOK, FilesOK, LooksOK, PagesOK, Busy, First
<1> QED BY <1>1, <1>2, ServerKeeps, OutsideKeeps DEF Next

THEOREM ProfileInvariance == Spec => []IInv
  BY InitInv, StepInv, PTL DEF Spec

(* A save is about to replace the profile only if the profile, when it was *)
(* last looked at, was what its page had been shown.                       *)
THEOREM BaseConfirmedAlways == Spec => []BaseConfirmed
<1>1. IInv => BaseConfirmed  BY DEF IInv, LooksOK, BaseConfirmed
<1> QED BY <1>1, ProfileInvariance, PTL

(* What a page calls saved did replace the profile, and a temporary file   *)
(* that stays because removing it failed is one of a save that neither     *)
(* replaced the profile nor was called saved.                              *)
THEOREM ReportedWasStoredAlways == Spec => []ReportedWasStored
<1>1. IInv => ReportedWasStored  BY DEF IInv, FilesOK, ReportedWasStored
<1> QED BY <1>1, ProfileInvariance, PTL

(* No answer of the server, early, late or lost, discards what was changed *)
(* on the page after its save was asked for: the part of NewerEditsKept    *)
(* that is about steps.                                                    *)
THEOREM AnswersKeepEditsAlways == Spec => [][AnswersKeepEdits]_vars
<1>1. ASSUME IInv, Next PROVE AnswersKeepEdits
  <2> SUFFICES ASSUME NEW p \in Pages,
                      page[p].pending # 0, page[p].draft # page[p].submitted,
                      page[p].at = "open", steps' = steps
               PROVE  page'[p].draft = page[p].draft
    BY DEF AnswersKeepEdits
  <2>0. steps \in Nat /\ page \in [Pages -> Page]  BY <1>1, Parts DEF TypeOK
  <2>1. ASSUME NEW q \in Pages, User(q) \/ Loads(q) \/ AnswerLost(q)
        PROVE  page'[p].draft = page[p].draft
    <3>1. CASE User(q)
      <4>1. Revert(q)  BY <2>0, <3>1 DEF User, Edit, Submit, Reload, Step
      <4> QED BY <2>0, <4>1 DEF Revert, CanSave, Render
    <3>2. CASE Loads(q)
      <4>1. q # p  BY <3>2 DEF Loads, SessionRead, SessionArrives, NoSession
      <4> QED BY <2>0, <3>2, <4>1 DEF Loads, SessionRead, SessionArrives, NoSession, Render
    <3>3. CASE AnswerLost(q)
      BY <2>0, <3>3, <1>1, Parts, IdleFits DEF AnswerLost
    <3> QED BY <2>1, <3>1, <3>2, <3>3
  <2>2. CASE Server
    <3>1. CASE Busy /\ \E made \in SUBSET {First.id} : RefuseWith(made)
      BY <2>0, <3>1, <1>1, Parts, SaveFields, IdleFits DEF RefuseWith
    <3>2. CASE First.at = "read" /\ Answered(First) /\ Busy
      <4>1. First.page \in Pages /\ First.seen \in Values
        BY <1>1, <3>2, Parts, SaveFields DEF LooksOK
      <4>2. CASE Waits(First)
        BY <1>1, <3>2, <4>1, <4>2, Parts, AppliedFits, Renders DEF Answered
      <4>3. CASE ~Waits(First)
        BY <3>2, <4>3 DEF Answered
      <4> QED BY <4>2, <4>3
    <3>3. CASE UNCHANGED page  BY <3>3
    <3> QED
      BY <2>2, <3>1, <3>2, <3>3 DEF Server, Start, Inspected, WriteTemporary, Recheck, Rename,
         ReadBack, Answer, Refuse
  <2> QED BY <1>1, <2>1, <2>2 DEF Next, Outside
<1>2. IInv /\ [Next]_vars => [AnswersKeepEdits]_vars  BY <1>1
<1>3. Spec => [][Next]_vars  BY PTL DEF Spec
<1> QED BY <1>2, <1>3, ProfileInvariance, PTL

================================================================================
