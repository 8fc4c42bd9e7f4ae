------------------------------ MODULE GlyphEditing ------------------------------
(***************************************************************************)
(* The glyph editor (dev/glyph_editor): pages that draw the masks of a     *)
(* printer font, and the server that keeps them in two source files, one   *)
(* with every printable ASCII byte and a sparse one with the other bytes   *)
(* somebody has drawn.  A save reads its whole file, changes one entry and *)
(* replaces the file; saves are queued, but readers and other programs do  *)
(* not wait for the queue.  One font is modelled; the other has its own    *)
(* files and shares only the queue.                                        *)
(***************************************************************************)
EXTENDS Integers, Sequences, SequencesExt

CONSTANTS
  Pages,
  Bytes,                \* the bytes of the font
  FirstBase, LastBase,  \* the ASCII bytes, without a gap; the others are higher
  Masks, Blank,         \* dot patterns, and the one without a dot
  None,
  MaxSteps,             \* bound: edits, saves and reloads of all pages
  MaxOutside            \* bound: changes by other programs

ASSUME BytesAssumption ==
  /\ Bytes \subseteq Nat /\ FirstBase \in Nat /\ LastBase \in Nat /\ FirstBase <= LastBase
  /\ {byte \in Bytes : byte <= LastBase} = FirstBase..LastBase
ASSUME MasksAssumption == Blank \in Masks /\ None \notin Masks
ASSUME BoundAssumption == MaxSteps \in Nat /\ MaxOutside \in Nat

Files        == {"ascii", "extended"}
FileOf(byte) == IF byte > LastBase THEN "extended" ELSE "ascii"
Entry        == [byte : Bytes, mask : Masks]

VARIABLES
  file,         \* the entries of each file, in order
  outside,      \* how often other programs have changed one
  page,         \* what each page shows and waits for
  queue,        \* the saves, first come first served
  had,          \* history: the entries each file has ever had
  steps

vars == <<file, outside, page, queue, had, steps>>

Request == [id : 1..MaxSteps, byte : Bytes, mask : Masks, previous : Masks]
Nothing == [id |-> 0, byte |-> None, mask |-> None, previous |-> None]
Page    == [at : {"loading", "open", "failed"}, got : [Files -> Seq(Entry) \cup {None}],
            saved : [Bytes -> Masks \cup {None}], drafts : [Bytes -> Masks \cup {None}],
            asked : Request \cup {Nothing}]
Save    == [page : Pages, asked : Request, at : {"queued", "read"}, source : Seq(Entry)]

--------------------------------------------------------------------------------
(* A file of entries.                                                      *)

BytesIn(entries)       == {entries[n].byte : n \in DOMAIN entries}
MaskIn(entries, byte)  ==
  IF byte \in BytesIn(entries)
  THEN (CHOOSE entry \in ToSet(entries) : entry.byte = byte).mask ELSE None
Drawn(mask) == IF mask = None THEN Blank ELSE mask

(* What the parser accepts: entries by ascending byte, all of them in the  *)
(* ASCII file.                                                             *)
Parses(name, entries) ==
  /\ \A m, n \in DOMAIN entries : m < n => entries[m].byte < entries[n].byte
  /\ \A byte \in BytesIn(entries) : FileOf(byte) = name
  /\ name = "ascii" => \A byte \in Bytes : byte <= LastBase => byte \in BytesIn(entries)

\* fault: a byte drawn for the first time goes to the end
Replace_AtEnd(entries, byte, mask) ==
  IF byte \in BytesIn(entries)
  THEN [n \in DOMAIN entries |->
          IF entries[n].byte = byte THEN [entries[n] EXCEPT !.mask = mask] ELSE entries[n]]
  ELSE Append(entries, [byte |-> byte, mask |-> mask])

(* One entry changes its mask, or is inserted before the next higher byte. *)
Place(entries, byte) ==
  CHOOSE n \in 1..(Len(entries) + 1) :
    \A m \in DOMAIN entries : m < n <=> entries[m].byte < byte

Replace(entries, byte, mask) ==
  IF byte \in BytesIn(entries)
  THEN [n \in DOMAIN entries |->
          IF entries[n].byte = byte THEN [entries[n] EXCEPT !.mask = mask] ELSE entries[n]]
  ELSE InsertAt(entries, Place(entries, byte), [byte |-> byte, mask |-> mask])

Store(name, entries) ==
  /\ file' = [file EXCEPT ![name] = entries]
  /\ had' = had \cup ToSet(entries)

--------------------------------------------------------------------------------
NewPage == [at |-> "loading", got |-> [name \in Files |-> None],
            saved |-> [byte \in Bytes |-> None], drafts |-> [byte \in Bytes |-> None],
            asked |-> Nothing]

(* Every ASCII byte has been drawn, and one other byte.                    *)
Init ==
  /\ \E extra \in {byte \in Bytes : byte > LastBase} :
       LET entry(byte) == [byte |-> byte, mask |-> Blank]
       IN file = [ascii |-> [n \in 1..(LastBase - FirstBase + 1) |-> entry(FirstBase + n - 1)],
                  extended |-> <<entry(extra)>>]
  /\ had = ToSet(file.ascii) \cup ToSet(file.extended)
  /\ page = [p \in Pages |-> NewPage]
  /\ outside = 0 /\ queue = << >> /\ steps = 0

Step == steps < MaxSteps /\ steps' = steps + 1

(* What a page shows of a byte; what it has to save.                       *)
Saved(shown, byte) == Drawn(shown.saved[byte])
Shown(shown, byte) ==
  IF shown.drafts[byte] # None THEN shown.drafts[byte] ELSE Saved(shown, byte)
NeedsSave(shown, byte) ==
  Shown(shown, byte) # Saved(shown, byte) \/ shown.saved[byte] = None

(* The atlas is loaded: both files are read, each at its own moment.       *)
Read(p, name) ==
  /\ page[p].at = "loading" /\ page[p].got[name] = None
  /\ page' = [page EXCEPT ![p].got[name] = file[name]]
  /\ UNCHANGED <<file, outside, queue, had, steps>>

(* Each byte is shown as its own file has it.                              *)
Authored(got) == [byte \in Bytes |-> MaskIn(got[FileOf(byte)], byte)]

Loaded(p) ==
  /\ page[p].at = "loading" /\ \A name \in Files : page[p].got[name] # None
  /\ page' = [page EXCEPT ![p].at = "open", ![p].got = [name \in Files |-> None],
                          ![p].saved = Authored(page[p].got)]
  /\ UNCHANGED <<file, outside, queue, had, steps>>

NotLoaded(p) ==
  /\ page[p].at = "loading"
  /\ page' = [page EXCEPT ![p].at = "failed", ![p].got = [name \in Files |-> None]]
  /\ UNCHANGED <<file, outside, queue, had, steps>>

(* A byte is selected and its dots are set, cleared, reverted or restored: *)
(* another mask, which is a draft unless it is the saved one.              *)
SetPattern(shown, byte, mask) ==
  [shown EXCEPT !.drafts[byte] = IF mask = Saved(shown, byte) THEN None ELSE mask]

Edit(p) ==
  /\ page[p].at = "open" /\ Step
  /\ \E byte \in Bytes, mask \in Masks :
       /\ mask # Shown(page[p], byte)
       /\ page' = [page EXCEPT ![p] = SetPattern(page[p], byte, mask)]
  /\ UNCHANGED <<file, outside, queue, had>>

Submit(p) ==
  /\ page[p].at = "open" /\ page[p].asked = Nothing /\ Step
  /\ \E byte \in {b \in Bytes : NeedsSave(page[p], b)} :
     LET asked == [id |-> steps + 1, byte |-> byte, mask |-> Shown(page[p], byte),
                   previous |-> Saved(page[p], byte)]
     IN /\ page' = [page EXCEPT ![p].asked = asked]
        /\ queue' = Append(queue, [page |-> p, asked |-> asked, at |-> "queued",
                                   source |-> << >>])
  /\ UNCHANGED <<file, outside, had>>

\* fault: the draft is dropped when its save is answered
MarkGlyphSaved_Drop(shown) ==
  LET byte == shown.asked.byte
  IN [shown EXCEPT !.asked = Nothing, !.saved[byte] = shown.asked.mask,
        !.drafts[byte] = None]
(* The answer to a save: what the page shows stays what it shows, and is a *)
(* draft if it is not what was saved.                                      *)
MarkGlyphSaved(shown) ==
  LET byte == shown.asked.byte
  IN [shown EXCEPT !.asked = Nothing, !.saved[byte] = shown.asked.mask,
        !.drafts[byte] = IF Shown(shown, byte) = shown.asked.mask THEN None
                         ELSE Shown(shown, byte)]

SaveFailed(shown) == [shown EXCEPT !.asked = Nothing]

(* The connection is lost: the save may still be done.                     *)
AnswerLost(p) ==
  /\ page[p].asked # Nothing
  /\ page' = [page EXCEPT ![p] = SaveFailed(page[p])]
  /\ UNCHANGED <<file, outside, queue, had, steps>>

(* The page is left and opened again, with a warning if it has drafts.     *)
Reload(p) ==
  /\ page[p].at # "loading" /\ Step
  /\ page' = [page EXCEPT ![p] = NewPage]
  /\ UNCHANGED <<file, outside, queue, had>>

--------------------------------------------------------------------------------
(* The server.                                                             *)

\* fault: a save does not wait for the one before it
Turn_Any(n) == n \in DOMAIN queue

Turn(n) == n \in DOMAIN queue /\ n = 1

(* The page is told, if it still waits, and the next save has its turn.    *)
Finish(n, shown) ==
  LET save == queue[n]
  IN /\ queue' = RemoveAt(queue, n)
     /\ page' = IF page[save.page].asked = save.asked
                THEN [page EXCEPT ![save.page] = shown] ELSE page
     /\ UNCHANGED <<outside, steps>>

Refuse(n) == Finish(n, SaveFailed(page[queue[n].page])) /\ UNCHANGED <<file, had>>

(* The file is read; the entry must be what the page had been shown.       *)
ReadSource(n) ==
  /\ Turn(n) /\ queue[n].at = "queued"
  /\ LET asked == queue[n].asked
         source == file[FileOf(asked.byte)]
     IN \/ /\ Drawn(MaskIn(source, asked.byte)) = asked.previous
           /\ queue' = [queue EXCEPT ![n].at = "read",
                          ![n].source = Replace(source, asked.byte, asked.mask)]
           /\ UNCHANGED <<file, outside, page, had, steps>>
        \/ Refuse(n)

(* The file is replaced by what was read, with the new entry.              *)
Write(n) ==
  /\ Turn(n) /\ queue[n].at = "read"
  /\ \/ /\ Store(FileOf(queue[n].asked.byte), queue[n].source)
        /\ Finish(n, MarkGlyphSaved(page[queue[n].page]))
     \/ Refuse(n)

(* Another program, or another server, changes an entry.                   *)
Outside ==
  /\ outside < MaxOutside /\ outside' = outside + 1
  /\ \E byte \in Bytes, mask \in Masks :
       Store(FileOf(byte), Replace(file[FileOf(byte)], byte, mask))
  /\ UNCHANGED <<page, queue, steps>>

Loads(p) == (\E name \in Files : Read(p, name)) \/ Loaded(p) \/ NotLoaded(p)
User(p)  == Edit(p) \/ Submit(p) \/ Reload(p)
Server   == \E n \in 1..MaxSteps : ReadSource(n) \/ Write(n)
Next     ==
  \/ \E p \in Pages : Loads(p) \/ User(p) \/ AnswerLost(p)
  \/ Server
  \/ Outside

(* The server works on what it was asked; nobody has to draw or to save.   *)
Spec == Init /\ [][Next]_vars /\ WF_vars(Server)

--------------------------------------------------------------------------------
(* Every variable has its type.  What a page counts as drafts are masks    *)
(* that differ from the saved ones: the warning on leaving rests on it.    *)
TypeOK ==
  /\ file \in [Files -> Seq(Entry)] /\ outside \in 0..MaxOutside
  /\ page \in [Pages -> Page] /\ queue \in Seq(Save)
  /\ had \subseteq Entry /\ steps \in 0..MaxSteps
  /\ \A p \in Pages, byte \in Bytes :
       page[p].drafts[byte] # None => page[p].drafts[byte] # Saved(page[p], byte)

(* Whatever is saved in whatever order, the sources can be parsed again,   *)
(* and what a page shows as saved has been in them, for that byte.         *)
StaysReadable ==
  /\ TypeOK
  /\ \A name \in Files : Parses(name, file[name])
  /\ \A p \in Pages, byte \in Bytes :
       page[p].saved[byte] # None => [byte |-> byte, mask |-> page[p].saved[byte]] \in had

(* A save a page waits for ends, and the page can save again.              *)
SaveEnds == \A p \in Pages : page[p].asked # Nothing ~> page[p].asked = Nothing

(* A save ends, and only the user changes the dots on the screen: no       *)
(* answer, early, late or lost, to a save of this byte or of another,      *)
(* changes what any byte shows.                                            *)
AnswersKeepDots ==
  \A p \in Pages :
    page[p].at = "open" /\ page'[p].at = "open" /\ steps' = steps
    => \A byte \in Bytes : Shown(page'[p], byte) = Shown(page[p], byte)
DotsStay == SaveEnds /\ [][AnswersKeepDots]_vars

(* dev/glyph_editor/README.md:12: a save updates only the selected byte.   *)
Touched == {byte \in Bytes : MaskIn(file'[FileOf(byte)], byte) # MaskIn(file[FileOf(byte)], byte)}
TouchesItsByte ==
  \E n \in DOMAIN queue : queue' = RemoveAt(queue, n) /\ Touched \subseteq {queue[n].asked.byte}
OnlySelected == [][file' # file /\ outside' = outside => TouchesItsByte]_vars

(* A save changes no other byte, as long as no other program has changed   *)
(* the files.                                                              *)
OnlySelectedAlone == [][file' # file /\ outside' = 0 => TouchesItsByte]_vars

--------------------------------------------------------------------------------
(* The inductive invariant.                                                *)

FilesParse == \A name \in Files : Parses(name, file[name])

(* Every entry a page was given, has loaded or has been told of was there. *)
WasThere ==
  /\ \A name \in Files : ToSet(file[name]) \subseteq had
  /\ \A p \in Pages, name \in Files :
       page[p].got[name] # None => ToSet(page[p].got[name]) \subseteq had
  /\ \A p \in Pages, byte \in Bytes :
       page[p].saved[byte] # None => [byte |-> byte, mask |-> page[p].saved[byte]] \in had

(* A page that loads has nothing to keep and waits for no answer.          *)
LoadsAnew ==
  \A p \in Pages : page[p].at = "loading" =>
    page[p].asked = Nothing /\ \A byte \in Bytes : page[p].drafts[byte] = None

(* What the first save is about to write can be read again and has its     *)
(* mask; unless another program was there, it is the file with that change.*)
SourceOK ==
  \A n \in DOMAIN queue : queue[n].at = "read" =>
    LET asked == queue[n].asked  source == queue[n].source
    IN /\ n = 1
       /\ Parses(FileOf(asked.byte), source)
       /\ [byte |-> asked.byte, mask |-> asked.mask] \in ToSet(source)
       /\ outside = 0 => source = Replace(file[FileOf(asked.byte)], asked.byte, asked.mask)

GlyphInv == TypeOK /\ FilesParse /\ WasThere /\ LoadsAnew /\ SourceOK

================================================================================
