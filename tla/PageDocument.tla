------------------------------ MODULE PageDocument ------------------------------
(***************************************************************************)
(* The document of the receipt editor's page (web/app.js), the files it is *)
(* read from and saved to (web/orchestration/file-actions.js, web/io), and *)
(* the server's fixed file (web/server/document.mjs).  Loading, opening    *)
(* and saving wait for the browser or the server, and the user goes on     *)
(* editing meanwhile; an answer of the server may be lost while it works.  *)
(***************************************************************************)
EXTENDS Integers

CONSTANTS
  Files,        \* files the user may pick in the browser
  Null,
  MaxSteps      \* bound: edits, openings and savings in all

ASSUME FilesAssumption == Null \notin Files /\ "session" \notin Files
ASSUME BoundAssumption == MaxSteps \in Nat

Targets == Files \cup {"session"}

(* A text is known by the document it was written for and its number.      *)
Contents   == [for : Targets \cup {"draft"}, n : 0..MaxSteps]
Original(target) == [for |-> target, n |-> 0]

VARIABLES
  editorText, saved,    \* the text in the editor; state.savedSource
  origin, handle,       \* where it came from, a writable file or Null
  documentRevision, immutable, sessionAvailable,
  loading,              \* the session the page waits for
  openings,             \* files the user is picking, or the page is reading
  asked,                \* the save the page waits for, or Null
  puts,                 \* saves the server works on
  stored,               \* the content of every file
  had,                  \* history: the contents every file has had
  image,                \* the server's file is an image
  steps

page == <<editorText, saved, origin, handle, documentRevision, immutable, sessionAvailable>>
documentVars == <<page, loading, openings, asked, puts, stored, had, image, steps>>

Openings == [n : 0..MaxSteps, at : {"picking", "read"}, source : Contents,
             handle : Files \cup {Null}]
Saves == [revision : Nat, origin : {"browser", "session"}, handle : Files \cup {Null},
          source : Contents]

DocumentInit ==
  /\ editorText = Original("draft") /\ saved = Null
  /\ origin = "draft" /\ handle = Null
  /\ documentRevision = 0 /\ immutable = FALSE /\ sessionAvailable = FALSE
  /\ loading = [at |-> "asked", source |-> Original("session")]
  /\ openings = {} /\ asked = Null /\ puts = {}
  /\ stored = [t \in Targets |-> Original(t)]
  /\ had = [t \in Targets |-> {Original(t)}]
  /\ image \in BOOLEAN /\ steps = 0

Dirty == saved # editorText
Step  == steps < MaxSteps /\ steps' = steps + 1

Store(target, content) ==
  /\ stored' = [stored EXCEPT ![target] = content]
  /\ had' = [had EXCEPT ![target] = @ \cup {content}]

SetDocument(source, from, writable, fixed) ==
  /\ editorText' = source /\ saved' = source
  /\ origin' = from /\ handle' = writable
  /\ immutable' = fixed
  /\ documentRevision' = documentRevision + 1

--------------------------------------------------------------------------------
(* Loading the session when the page starts.                               *)

SessionRead ==
  /\ loading.at = "asked"
  /\ loading' = [at |-> "read", source |-> stored["session"]]
  /\ UNCHANGED <<page, openings, asked, puts, stored, had, image, steps>>

SessionArrives ==
  /\ loading.at = "read"
  /\ SetDocument(loading.source, "session", Null, image)
  /\ sessionAvailable' = TRUE /\ loading' = [loading EXCEPT !.at = "over"]
  /\ UNCHANGED <<openings, asked, puts, stored, had, image, steps>>

(* There is no server, or it does not answer.                              *)
NoSession ==
  /\ loading.at # "over"
  /\ loading' = [loading EXCEPT !.at = "over"]
  /\ UNCHANGED <<page, openings, asked, puts, stored, had, image, steps>>

--------------------------------------------------------------------------------
(* Editing and opening.                                                    *)

(* The document the editor holds: the one its text was written for.        *)
EditText ==
  /\ Step /\ ~immutable
  /\ \E n \in 1..MaxSteps \ {editorText.n} : editorText' = [editorText EXCEPT !.n = n]
  /\ UNCHANGED <<saved, origin, handle, documentRevision, immutable, sessionAvailable,
                 loading, openings, asked, puts, stored, had, image>>

(* A dirty text is discarded only after the user agreed.  Nothing keeps    *)
(* the user from opening a file while another one is on its way.           *)
OpenFile ==
  /\ Step /\ ~immutable
  /\ openings' = openings \cup
       {[n |-> steps, at |-> "picking", source |-> Original("draft"), handle |-> Null]}
  /\ UNCHANGED <<page, loading, asked, puts, stored, had, image>>

(* The browser gives a handle that can be written to, or only the content, *)
(* or no file.                                                             *)
PickFile(opening) ==
  /\ opening.at = "picking"
  /\ \/ openings' = openings \ {opening}
     \/ \E f \in Files, writable \in BOOLEAN :
          openings' = (openings \ {opening}) \cup
            {[n |-> opening.n, at |-> "read", source |-> stored[f],
              handle |-> IF writable THEN f ELSE Null]}
  /\ UNCHANGED <<page, loading, asked, puts, stored, had, image, steps>>

FileArrives(opening) ==
  /\ opening.at = "read"
  /\ SetDocument(opening.source, "browser", opening.handle, FALSE)
  /\ openings' = openings \ {opening}
  /\ UNCHANGED <<sessionAvailable, loading, asked, puts, stored, had, image, steps>>

(* The shell's setSource, for a document of its own.                       *)
SetSource ==
  /\ Step /\ ~immutable
  /\ SetDocument(Original("draft"), "draft", Null, FALSE)
  /\ UNCHANGED <<sessionAvailable, loading, openings, asked, puts, stored, had, image>>

--------------------------------------------------------------------------------
(* Saving: one save at a time, to the target the document has when it is   *)
(* asked for.                                                              *)

Target ==
  IF origin = "browser" /\ handle # Null THEN "browser"
  ELSE IF origin = "session" /\ sessionAvailable THEN "session" ELSE Null

SaveFile ==
  /\ Step /\ asked = Null /\ ~immutable /\ Target # Null
  /\ asked' = [revision |-> documentRevision, origin |-> Target, handle |-> handle,
               source |-> editorText]
  /\ puts' = IF Target = "session"
             THEN puts \cup {[source |-> editorText, n |-> steps, at |-> "asked"]} ELSE puts
  /\ UNCHANGED <<page, loading, openings, stored, had, image>>

(* A copy is written elsewhere and changes nothing here, unless the user   *)
(* picks a file of this page for it.                                       *)
SaveCopy ==
  /\ Step /\ ~immutable
  /\ \E f \in Files : Store(f, [editorText EXCEPT !.for = f])
  /\ UNCHANGED <<page, loading, openings, asked, puts, image>>

(* The outcome of a save counts if the document is still the same.         *)
ApplySaveOutcome_Always ==                                          \* fault
  /\ origin' = asked.origin
  /\ handle' = IF asked.origin = "session" THEN Null ELSE asked.handle
  /\ saved' = asked.source
ApplySaveOutcome ==
  IF asked.revision = documentRevision
  THEN /\ origin' = asked.origin
       /\ handle' = IF asked.origin = "session" THEN Null ELSE asked.handle
       /\ saved' = asked.source
  ELSE UNCHANGED <<origin, handle, saved>>

BrowserWrites ==
  /\ asked # Null /\ asked.origin = "browser"
  /\ Store(asked.handle, asked.source)
  /\ ApplySaveOutcome /\ asked' = Null
  /\ UNCHANGED <<editorText, documentRevision, immutable, sessionAvailable, loading, openings,
                 puts, image, steps>>

(* The write, the request or the server failed, or its answer is lost.     *)
SaveFails ==
  /\ asked # Null
  /\ asked' = Null
  /\ UNCHANGED <<page, loading, openings, puts, stored, had, image, steps>>

Change(put, at) == puts' = (puts \ {put}) \cup {[put EXCEPT !.at = at]}

(* The server writes a temporary file beside the target and renames it.    *)
WriteTemporary(put) ==
  /\ put.at = "asked" /\ ~image
  /\ Change(put, "written")
  /\ UNCHANGED <<page, loading, openings, asked, stored, had, image, steps>>

(* The server has no room, is an image's, or is stopped.                   *)
PutFails(put) ==
  /\ puts' = puts \ {put}
  /\ UNCHANGED <<page, loading, openings, asked, stored, had, image, steps>>

Rename(put) ==
  /\ put.at = "written"
  /\ Store("session", put.source)
  /\ Change(put, "renamed")
  /\ UNCHANGED <<page, loading, openings, asked, image, steps>>

SessionSaved_Early(put) ==                                          \* fault
  /\ asked # Null /\ asked.origin = "session"
  /\ ApplySaveOutcome /\ asked' = Null
  /\ UNCHANGED <<editorText, documentRevision, immutable, sessionAvailable, loading, openings,
                 puts, stored, had, image, steps>>
SessionSaved(put) ==
  /\ put.at = "renamed"
  /\ puts' = puts \ {put}
  /\ asked # Null /\ asked.origin = "session" /\ asked.source = put.source
  /\ ApplySaveOutcome /\ asked' = Null
  /\ UNCHANGED <<editorText, documentRevision, immutable, sessionAvailable, loading, openings,
                 stored, had, image, steps>>

Server(put) == WriteTemporary(put) \/ PutFails(put) \/ Rename(put) \/ SessionSaved(put)
User == EditText \/ OpenFile \/ SaveFile \/ SaveCopy \/ SetSource
DocumentNext ==
  \/ User \/ SessionRead \/ SessionArrives \/ NoSession
  \/ \E opening \in openings : PickFile(opening) \/ FileArrives(opening)
  \/ BrowserWrites \/ SaveFails \/ \E put \in puts : Server(put)

DocumentSpec == DocumentInit /\ [][DocumentNext]_documentVars

--------------------------------------------------------------------------------
(* Every variable has its type.                                            *)
DocumentTypeOK ==
  /\ editorText \in Contents /\ saved \in Contents \cup {Null}
  /\ origin \in {"draft", "browser", "session"} /\ handle \in Files \cup {Null}
  /\ documentRevision \in Nat /\ immutable \in BOOLEAN /\ sessionAvailable \in BOOLEAN
  /\ loading \in [at : {"asked", "read", "over"}, source : Contents]
  /\ openings \subseteq Openings
  /\ asked \in Saves \cup {Null} /\ image \in BOOLEAN
  /\ puts \subseteq [source : Contents, n : 0..MaxSteps, at : {"asked", "written", "renamed"}]
  /\ stored \in [Targets -> Contents] /\ had \in [Targets -> SUBSET Contents]
  /\ steps \in 0..MaxSteps

(* A file only ever holds what was written for it, however openings, saves *)
(* and their late answers interleave: a save never lands in the file of an *)
(* earlier document, and a read-only file never falls through to the       *)
(* session's (file-actions.js, docs/architecture.md).                      *)
OwnContent ==
  /\ DocumentTypeOK
  /\ \A t \in Targets : \A content \in had[t] : content.for = t

(* The page calls a document saved only if its file has held that text.    *)
CleanWasStored ==
  /\ origin = "browser" /\ handle # Null /\ ~Dirty => editorText \in had[handle]
  /\ origin = "session" /\ ~Dirty => editorText \in had["session"]

================================================================================
