--------------------------- MODULE GlyphEditingProofs ---------------------------
(***************************************************************************)
(* Proofs about GlyphEditing, for every set of pages, of bytes and of      *)
(* masks: the sources stay readable, a page shows as saved what was in     *)
(* them, no answer changes a dot, and a save changes only its own byte     *)
(* while no other program changes the files.                               *)
(***************************************************************************)
EXTENDS GlyphEditing, SequenceTheorems, WellFoundedInduction, TLAPS

USE BytesAssumption, MasksAssumption, BoundAssumption

--------------------------------------------------------------------------------
(* Sequences.                                                              *)

LEMMA LeastNumber ==
  ASSUME NEW T, T \subseteq Nat, T # {}
  PROVE  \E x \in T : \A y \in T : x <= y
<1> DEFINE R == OpToRel(<, Nat)
<1>1. IsWellFoundedOn(R, Nat)
  BY NatLessThanWellFounded
<1>2. \A x, y \in Nat : <<x, y>> \in R <=> x < y
  BY DEF OpToRel
<1> HIDE DEF R
<1>3. PICK x \in T : \A y \in T : <<y, x>> \notin R
  BY <1>1, WFMin
<1>4. ASSUME NEW y \in T PROVE ~(y < x)
  BY <1>2, <1>3, T \subseteq Nat
<1>5. ASSUME NEW y \in T PROVE x <= y
  <2>1. x \in Nat /\ y \in Nat
    OBVIOUS
  <2> QED BY <1>4, <2>1
<1> QED BY <1>5

LEMMA Rest ==
  ASSUME NEW S, NEW s \in Seq(S), NEW k \in 1..(Len(s) + 1)
  PROVE  /\ SubSeq(s, k, Len(s)) \in Seq(S) /\ Len(SubSeq(s, k, Len(s))) = Len(s) - k + 1
         /\ \A n \in 1..(Len(s) - k + 1) : SubSeq(s, k, Len(s))[n] = s[n + k - 1]
  OBVIOUS

LEMMA Inserted ==
  ASSUME NEW S, NEW s \in Seq(S), NEW k \in 1..(Len(s) + 1), NEW x \in S
  PROVE  LET t == InsertAt(s, k, x)
         IN /\ t \in Seq(S) /\ Len(t) = Len(s) + 1 /\ DOMAIN t = 1..(Len(s) + 1)
            /\ \A n \in 1..(k - 1) : t[n] = s[n]
            /\ t[k] = x
            /\ \A n \in (k + 1)..(Len(s) + 1) : t[n] = s[n - 1]
<1> DEFINE front == SubSeq(s, 1, k - 1)
           rest == SubSeq(s, k, Len(s))
<1>1. /\ front \in Seq(S) /\ Len(front) = k - 1
      /\ \A n \in 1..(k - 1) : front[n] = s[n]
  OBVIOUS
<1>2. /\ rest \in Seq(S) /\ Len(rest) = Len(s) - k + 1
      /\ \A n \in 1..(Len(s) - k + 1) : rest[n] = s[n + k - 1]
  BY Rest
<1>3. Len(s) \in Nat /\ k \in Nat
  OBVIOUS
<1> HIDE DEF front, rest
<1>4. /\ front \o <<x>> \in Seq(S) /\ Len(front \o <<x>>) = k
      /\ \A n \in 1..(k - 1) : (front \o <<x>>)[n] = s[n]
      /\ (front \o <<x>>)[k] = x
  BY <1>1, <1>3
<1> DEFINE begun == front \o <<x>>
<1>5. InsertAt(s, k, x) = begun \o rest
  BY DEF InsertAt, front, rest
<1> HIDE DEF begun
<1>6. /\ begun \in Seq(S) /\ Len(begun) = k
      /\ \A n \in 1..(k - 1) : begun[n] = s[n]
      /\ begun[k] = x
  BY <1>4 DEF begun
<1>7. /\ begun \o rest \in Seq(S) /\ Len(begun \o rest) = Len(s) + 1
      /\ DOMAIN (begun \o rest) = 1..(Len(s) + 1)
      /\ \A n \in 1..k : (begun \o rest)[n] = begun[n]
      /\ \A n \in (k + 1)..(Len(s) + 1) : (begun \o rest)[n] = rest[n - k]
  BY <1>2, <1>3, <1>6
<1>8. \A n \in (k + 1)..(Len(s) + 1) : rest[n - k] = s[n - 1]
  BY <1>2, <1>3
<1> QED BY <1>3, <1>5, <1>6, <1>7, <1>8

LEMMA Appended ==
  ASSUME NEW S, NEW s \in Seq(S), NEW x \in S
  PROVE  /\ Append(s, x) \in Seq(S) /\ DOMAIN Append(s, x) = 1..(Len(s) + 1)
         /\ Append(s, x)[Len(s) + 1] = x
         /\ \A n \in 1..Len(s) : Append(s, x)[n] = s[n]
  OBVIOUS

LEMMA FirstRemoved ==
  ASSUME NEW S, NEW s \in Seq(S), 1 \in DOMAIN s
  PROVE  LET t == RemoveAt(s, 1)
         IN /\ t \in Seq(S) /\ Len(t) = Len(s) - 1 /\ DOMAIN t = 1..(Len(s) - 1)
            /\ \A n \in 1..(Len(s) - 1) : t[n] = s[n + 1]
<1>1. Len(s) \in Nat \ {0}
  OBVIOUS
<1>2. SubSeq(s, 1, 0) \in Seq(S) /\ Len(SubSeq(s, 1, 0)) = 0
  OBVIOUS
<1> DEFINE rest == SubSeq(s, 2, Len(s))
<1>3. /\ rest \in Seq(S) /\ Len(rest) = Len(s) - 1
      /\ \A n \in 1..(Len(s) - 1) : rest[n] = s[n + 1]
  <2>1. /\ rest \in Seq(S) /\ Len(rest) = Len(s) - 2 + 1
        /\ \A n \in 1..(Len(s) - 2 + 1) : rest[n] = s[n + 2 - 1]
    BY <1>1, Rest, 2 \in 1..(Len(s) + 1)
  <2> HIDE DEF rest
  <2> QED BY <1>1, <2>1
<1>4. RemoveAt(s, 1) = SubSeq(s, 1, 0) \o rest
  BY DEF RemoveAt
<1> HIDE DEF rest
<1> DEFINE none == SubSeq(s, 1, 0)
<1>5. none \in Seq(S) /\ Len(none) = 0 /\ RemoveAt(s, 1) = none \o rest
  BY <1>2, <1>4
<1> HIDE DEF none
<1>6. /\ none \o rest \in Seq(S) /\ Len(none \o rest) = Len(s) - 1
      /\ \A n \in 1..(Len(s) - 1) : (none \o rest)[n] = rest[n]
  BY <1>1, <1>3, <1>5
<1> QED BY <1>1, <1>3, <1>5, <1>6

--------------------------------------------------------------------------------
(* Files of entries.                                                       *)

Ascending(entries) ==
  \A m, n \in DOMAIN entries : m < n => entries[m].byte < entries[n].byte

(* In a file whose bytes ascend every byte has one place.                  *)
LEMMA PlaceIsThere ==
  ASSUME NEW entries \in Seq(Entry), Ascending(entries), NEW byte \in Bytes,
         byte \notin BytesIn(entries)
  PROVE  /\ Place(entries, byte) \in 1..(Len(entries) + 1)
         /\ \A m \in DOMAIN entries : m < Place(entries, byte) <=> entries[m].byte < byte
<1> DEFINE T == {n \in 1..(Len(entries) + 1) : n = Len(entries) + 1 \/ entries[n].byte > byte}
<1>1. /\ Len(entries) \in Nat /\ DOMAIN entries = 1..Len(entries)
      /\ \A m \in DOMAIN entries : entries[m].byte \in Nat /\ entries[m].byte # byte
      /\ byte \in Nat
  <2>1. Len(entries) \in Nat /\ DOMAIN entries = 1..Len(entries) /\ byte \in Nat
    OBVIOUS
  <2>2. ASSUME NEW m \in DOMAIN entries
        PROVE  entries[m].byte \in Nat /\ entries[m].byte # byte
    <3>1. entries[m] \in Entry
      OBVIOUS
    <3>2. entries[m].byte \in BytesIn(entries)
      BY DEF BytesIn
    <3> QED BY <3>1, <3>2 DEF Entry
  <2> QED BY <2>1, <2>2
<1>2. T \subseteq Nat /\ Len(entries) + 1 \in T
  BY <1>1
<1>3. PICK x \in T : \A y \in T : x <= y
  BY <1>2, LeastNumber
<1>4. ASSUME NEW m \in DOMAIN entries PROVE m < x <=> entries[m].byte < byte
  <2>1. CASE m < x
    <3>1. m \notin T
      BY <1>1, <1>3, <2>1
    <3>2. ~(entries[m].byte > byte)
      BY <1>1, <3>1
    <3> QED BY <1>1, <2>1, <3>2
  <2>2. CASE ~(m < x)
    <3>1. x \in DOMAIN entries /\ entries[x].byte > byte /\ (m = x \/ x < m)
      BY <1>1, <1>3, <2>2
    <3>2. entries[m].byte > byte
      BY <1>1, <3>1 DEF Ascending
    <3> QED BY <1>1, <2>2, <3>2
  <2> QED BY <2>1, <2>2
<1>5. \E n \in 1..(Len(entries) + 1) : \A m \in DOMAIN entries : m < n <=> entries[m].byte < byte
  BY <1>4
<1> QED BY <1>5, Zenon DEF Place

LEMMA MaskThere ==
  ASSUME NEW entries \in Seq(Entry), NEW byte \in Bytes
  PROVE  /\ byte \in BytesIn(entries) =>
              /\ MaskIn(entries, byte) \in Masks
              /\ [byte |-> byte, mask |-> MaskIn(entries, byte)] \in ToSet(entries)
         /\ byte \notin BytesIn(entries) => MaskIn(entries, byte) = None
<1>1. CASE byte \in BytesIn(entries)
  <2> DEFINE e == CHOOSE entry \in ToSet(entries) : entry.byte = byte
  <2>1. \E entry \in ToSet(entries) : entry.byte = byte
    BY <1>1 DEF BytesIn, ToSet
  <2>2. e \in ToSet(entries) /\ e.byte = byte
    BY <2>1, Zenon
  <2>3. MaskIn(entries, byte) = e.mask
    BY <1>1 DEF MaskIn
  <2> HIDE DEF e
  <2>4. e \in Entry
    BY <2>2 DEF ToSet
  <2>5. e.mask \in Masks /\ e = [byte |-> byte, mask |-> e.mask]
    BY <2>2, <2>4 DEF Entry
  <2>6. /\ MaskIn(entries, byte) \in Masks
        /\ [byte |-> byte, mask |-> MaskIn(entries, byte)] \in ToSet(entries)
    BY <2>2, <2>3, <2>5
  <2> QED BY <1>1, <2>6
<1>2. CASE byte \notin BytesIn(entries)
  BY <1>2 DEF MaskIn
<1> QED BY <1>1, <1>2

LEMMA InOnePlace ==
  ASSUME NEW entries \in Seq(Entry), Ascending(entries), NEW n \in DOMAIN entries
  PROVE  MaskIn(entries, entries[n].byte) = entries[n].mask
<1>1. /\ entries[n] \in Entry /\ entries[n].byte \in Bytes
      /\ entries[n].byte \in Nat /\ entries[n].byte \in BytesIn(entries)
  <2>1. entries[n] \in Entry
    OBVIOUS
  <2>2. entries[n].byte \in BytesIn(entries)
    BY DEF BytesIn
  <2> QED BY <2>1, <2>2 DEF Entry
<1>2. PICK m \in DOMAIN entries :
        entries[m] = [byte |-> entries[n].byte, mask |-> MaskIn(entries, entries[n].byte)]
  BY <1>1, MaskThere DEF ToSet
<1>3. m \in Nat /\ n \in Nat /\ entries[m].byte = entries[n].byte
  BY <1>2
<1>4. ~(m < n) /\ ~(n < m)
  BY <1>1, <1>3 DEF Ascending
<1>5. m = n
  BY <1>3, <1>4
<1> QED BY <1>2, <1>5

(* Files with the same entries for a byte show the same mask of it.        *)
LEMMA SameMask ==
  ASSUME NEW s \in Seq(Entry), NEW t \in Seq(Entry), Ascending(s), Ascending(t),
         NEW b \in Bytes,
         \A n \in DOMAIN s : s[n].byte = b => s[n] \in ToSet(t),
         \A n \in DOMAIN t : t[n].byte = b => t[n] \in ToSet(s)
  PROVE  MaskIn(s, b) = MaskIn(t, b)
<1>1. CASE b \in BytesIn(s)
  <2>1. PICK n \in DOMAIN s : s[n].byte = b
    BY <1>1 DEF BytesIn
  <2>2. PICK m \in DOMAIN t : t[m] = s[n]
    BY <2>1 DEF ToSet
  <2>3. MaskIn(s, b) = s[n].mask
    BY <2>1, InOnePlace
  <2>4. MaskIn(t, b) = t[m].mask
    BY <2>1, <2>2, InOnePlace
  <2> QED BY <2>2, <2>3, <2>4
<1>2. CASE b \notin BytesIn(s)
  <2>1. b \notin BytesIn(t)
    BY <1>2 DEF BytesIn, ToSet
  <2> QED BY <1>2, <2>1, MaskThere
<1> QED BY <1>1, <1>2

(* A change of one byte leaves the entries of all others, in their order.  *)
Changed(s, r, byte, mask) ==
  /\ r \in Seq(Entry) /\ Ascending(r)
  /\ [byte |-> byte, mask |-> mask] \in ToSet(r)
  /\ \A n \in DOMAIN s : s[n].byte = byte \/ s[n] \in ToSet(r)
  /\ \A n \in DOMAIN r : r[n] \in ToSet(s) \cup {[byte |-> byte, mask |-> mask]}

LEMMA ReplaceChanges ==
  ASSUME NEW s \in Seq(Entry), Ascending(s), NEW byte \in Bytes, NEW mask \in Masks
  PROVE  Changed(s, Replace(s, byte, mask), byte, mask)
<1> DEFINE new == [byte |-> byte, mask |-> mask]
           r == Replace(s, byte, mask)
<1>1. new \in Entry /\ byte \in Nat /\ new.byte = byte
  BY DEF Entry
<1>2. /\ Len(s) \in Nat /\ DOMAIN s = 1..Len(s)
      /\ \A n \in DOMAIN s : s[n] \in Entry
  OBVIOUS
<1>3. \A n \in DOMAIN s : s[n].byte \in Nat
  BY <1>2 DEF Entry
<1>4. CASE byte \in BytesIn(s)
  <2>1. r = [n \in DOMAIN s |-> IF s[n].byte = byte THEN [s[n] EXCEPT !.mask = mask] ELSE s[n]]
    BY <1>4 DEF Replace
  <2>2. ASSUME NEW n \in DOMAIN s, s[n].byte = byte PROVE [s[n] EXCEPT !.mask = mask] = new
    <3>1. s[n] \in Entry
      BY <1>2
    <3> QED BY <2>2, <3>1 DEF Entry
  <2>3. \A n \in DOMAIN s : r[n] = IF s[n].byte = byte THEN new ELSE s[n]
    BY <2>1, <2>2
  <2>4. DOMAIN r = DOMAIN s /\ r = [n \in 1..Len(s) |-> r[n]]
    BY <1>2, <2>1
  <2> HIDE DEF r, new
  <2>5. \A n \in DOMAIN s : r[n] \in Entry /\ r[n].byte = s[n].byte
    BY <1>1, <1>2, <2>3
  <2>6. r \in Seq(Entry)
    BY <1>2, <2>4, <2>5, IsASeq
  <2>7. Ascending(r)
    BY <2>4, <2>5 DEF Ascending
  <2>8. new \in ToSet(r)
    <3>1. PICK n \in DOMAIN s : s[n].byte = byte
      BY <1>4 DEF BytesIn
    <3> QED BY <2>3, <2>4, <3>1 DEF ToSet
  <2>9. /\ \A n \in DOMAIN s : s[n].byte = byte \/ s[n] \in ToSet(r)
        /\ \A n \in DOMAIN r : r[n] \in ToSet(s) \cup {new}
    BY <1>1, <2>3, <2>4 DEF ToSet
  <2> QED BY <2>6, <2>7, <2>8, <2>9 DEF Changed, r, new
<1>5. CASE byte \notin BytesIn(s)
  <2> DEFINE k == Place(s, byte)
  <2>1. k \in 1..(Len(s) + 1) /\ \A m \in DOMAIN s : m < k <=> s[m].byte < byte
    BY <1>5, PlaceIsThere
  <2>2. r = InsertAt(s, k, new)
    BY <1>5 DEF Replace
  <2> HIDE DEF k, new, r
  <2>3. /\ r \in Seq(Entry) /\ DOMAIN r = 1..(Len(s) + 1)
        /\ \A n \in 1..(k - 1) : r[n] = s[n]
        /\ r[k] = new
        /\ \A n \in (k + 1)..(Len(s) + 1) : r[n] = s[n - 1]
    <3>1. new \in Entry /\ k \in 1..(Len(s) + 1)
      BY <1>1, <2>1
    <3> DEFINE t == InsertAt(s, k, new)
    <3>2. /\ t \in Seq(Entry) /\ Len(t) = Len(s) + 1 /\ DOMAIN t = 1..(Len(s) + 1)
          /\ \A n \in 1..(k - 1) : t[n] = s[n]
          /\ t[k] = new
          /\ \A n \in (k + 1)..(Len(s) + 1) : t[n] = s[n - 1]
      BY <3>1, Inserted
    <3>3. r = t
      BY <2>2
    <3> HIDE DEF t
    <3> QED BY <3>2, <3>3
  <2>4. \A m \in DOMAIN s : s[m].byte # byte
    BY <1>5 DEF BytesIn
  <2>5. ASSUME NEW m \in DOMAIN r, NEW n \in DOMAIN r, m < n PROVE r[m].byte < r[n].byte
    <3>1. CASE n < k
      <4>1. m \in DOMAIN s /\ n \in DOMAIN s /\ r[m] = s[m] /\ r[n] = s[n]
        BY <1>2, <2>1, <2>3, <2>5, <3>1
      <4> QED BY <2>5, <4>1 DEF Ascending
    <3>2. CASE n = k
      <4>1. m \in DOMAIN s /\ m < k /\ r[m] = s[m] /\ r[n] = new
        BY <1>2, <2>1, <2>3, <2>5, <3>2
      <4> QED BY <1>1, <2>1, <4>1
    <3>3. CASE n > k
      <4>1. /\ n - 1 \in DOMAIN s /\ r[n] = s[n - 1] /\ ~(n - 1 < k)
            /\ n \in Nat /\ m \in Nat /\ k \in Nat
        BY <1>2, <2>1, <2>3, <3>3
      <4>2. s[n - 1].byte > byte
        BY <1>1, <1>3, <2>1, <2>4, <4>1
      <4>3. CASE m < k
        <5>1. m \in DOMAIN s /\ r[m] = s[m]
          BY <1>2, <2>1, <2>3, <4>3
        <5> QED BY <1>1, <1>3, <2>1, <4>1, <4>2, <4>3, <5>1
      <4>4. CASE m = k
        BY <1>1, <2>3, <4>1, <4>2, <4>4
      <4>5. CASE m > k
        <5>1. m - 1 \in DOMAIN s /\ r[m] = s[m - 1] /\ m - 1 < n - 1
          BY <1>2, <2>1, <2>3, <2>5, <4>1, <4>5
        <5> QED BY <4>1, <5>1 DEF Ascending
      <4> QED BY <4>1, <4>3, <4>4, <4>5
    <3>4. n \in Nat /\ k \in Nat
      BY <1>2, <2>1, <2>3
    <3> QED BY <3>1, <3>2, <3>3, <3>4
  <2>6. Ascending(r)
    BY <2>5 DEF Ascending
  <2>7. k \in DOMAIN r /\ new \in ToSet(r)
    BY <2>1, <2>3 DEF ToSet
  <2>8. ASSUME NEW n \in DOMAIN r PROVE r[n] = new \/ r[n] \in ToSet(s)
    <3>1. n \in 1..(k - 1) \/ n = k \/ n \in (k + 1)..(Len(s) + 1)
      BY <1>2, <2>1, <2>3
    <3>2. n \in 1..(k - 1) => n \in DOMAIN s
      BY <1>2, <2>1
    <3>3. n \in (k + 1)..(Len(s) + 1) => n - 1 \in DOMAIN s
      BY <1>2, <2>1
    <3> QED BY <2>3, <3>1, <3>2, <3>3 DEF ToSet
  <2>9. ASSUME NEW n \in DOMAIN s PROVE s[n] \in ToSet(r)
    <3>1. CASE n < k
      <4>1. n \in 1..(k - 1) /\ n \in DOMAIN r
        BY <1>2, <2>1, <2>3, <3>1
      <4> QED BY <2>3, <4>1 DEF ToSet
    <3>2. CASE ~(n < k)
      <4>1. n + 1 \in (k + 1)..(Len(s) + 1) /\ n + 1 \in DOMAIN r /\ (n + 1) - 1 = n
        BY <1>2, <2>1, <2>3, <3>2
      <4>2. r[n + 1] = s[n]
        BY <2>3, <4>1
      <4> QED BY <4>1, <4>2 DEF ToSet
    <3> QED BY <3>1, <3>2
  <2> QED BY <2>3, <2>6, <2>7, <2>8, <2>9 DEF Changed, r, new
<1> QED BY <1>4, <1>5

(* A source with one byte changed can be read again, as the same file.     *)
LEMMA ReplaceParses ==
  ASSUME NEW s \in Seq(Entry), NEW byte \in Bytes, NEW mask \in Masks,
         Parses(FileOf(byte), s)
  PROVE  /\ Changed(s, Replace(s, byte, mask), byte, mask)
         /\ Parses(FileOf(byte), Replace(s, byte, mask))
<1> DEFINE r == Replace(s, byte, mask)
<1>1. Ascending(s)
  BY DEF Parses, Ascending
<1>2. Changed(s, r, byte, mask)
  BY <1>1, ReplaceChanges
<1> HIDE DEF r
<1>3. BytesIn(r) \subseteq BytesIn(s) \cup {byte}
  BY <1>2 DEF Changed, BytesIn, ToSet
<1>4. BytesIn(s) \subseteq BytesIn(r) \cup {byte}
  BY <1>2 DEF Changed, BytesIn, ToSet
<1>5. byte \in BytesIn(r)
  BY <1>2 DEF Changed, BytesIn, ToSet
<1>6. \A b \in BytesIn(r) : FileOf(b) = FileOf(byte)
  BY <1>3 DEF Parses
<1>7. \A m, n \in DOMAIN r : m < n => r[m].byte < r[n].byte
  BY <1>2 DEF Changed, Ascending
<1>8. FileOf(byte) = "ascii" => \A b \in Bytes : b <= LastBase => b \in BytesIn(r)
  BY <1>4, <1>5 DEF Parses
<1>9. Parses(FileOf(byte), r)
  BY <1>6, <1>7, <1>8 DEF Parses
<1> QED BY <1>2, <1>9 DEF r

(* No other byte shows another mask.                                       *)
LEMMA OthersKeepTheirMask ==
  ASSUME NEW s \in Seq(Entry), NEW r, NEW byte \in Bytes, NEW mask \in Masks, Ascending(s),
         Changed(s, r, byte, mask), NEW b \in Bytes \ {byte}
  PROVE  MaskIn(r, b) = MaskIn(s, b)
<1>1. [byte |-> byte, mask |-> mask].byte # b
  OBVIOUS
<1>2. /\ r \in Seq(Entry) /\ Ascending(r)
      /\ \A n \in DOMAIN r : r[n].byte = b => r[n] \in ToSet(s)
      /\ \A n \in DOMAIN s : s[n].byte = b => s[n] \in ToSet(r)
  BY <1>1 DEF Changed
<1> QED BY <1>2, SameMask

--------------------------------------------------------------------------------
(* Pages.                                                                  *)

(* What the invariant says of one page, without and with the past of the   *)
(* files.                                                                  *)
PageOK(x) ==
  /\ x \in Page
  /\ \A byte \in Bytes : x.drafts[byte] # None => x.drafts[byte] # Saved(x, byte)
  /\ x.at = "loading" => x.asked = Nothing /\ \A byte \in Bytes : x.drafts[byte] = None
PageWas(x, past) ==
  /\ \A name \in Files : x.got[name] # None => ToSet(x.got[name]) \subseteq past
  /\ \A byte \in Bytes : x.saved[byte] # None => [byte |-> byte, mask |-> x.saved[byte]] \in past

LEMMA NothingIsNoRequest == Nothing \notin Request
  BY DEF Nothing, Request

LEMMA MasksShown ==
  ASSUME NEW x \in Page, NEW byte \in Bytes
  PROVE  /\ Saved(x, byte) \in Masks /\ Shown(x, byte) \in Masks
         /\ x.saved[byte] \in Masks \cup {None} /\ x.drafts[byte] \in Masks \cup {None}
<1>1. x.saved[byte] \in Masks \cup {None} /\ x.drafts[byte] \in Masks \cup {None}
  BY DEF Page
<1> QED BY <1>1 DEF Saved, Shown, Drawn

LEMMA NewPageOK ==
  ASSUME NEW past
  PROVE  PageOK(NewPage) /\ PageWas(NewPage, past)
<1>1. NewPage \in Page
  BY DEF NewPage, Page
<1> QED BY <1>1 DEF NewPage, PageOK, PageWas

(* The answer keeps what is shown: what is not saved becomes a draft.      *)
LEMMA SavedKeepsDots ==
  ASSUME NEW x, PageOK(x), x.asked \in Request
  PROVE  /\ PageOK(MarkGlyphSaved(x))
         /\ \A byte \in Bytes : Shown(MarkGlyphSaved(x), byte) = Shown(x, byte)
         /\ \A past : PageWas(x, past) /\ [byte |-> x.asked.byte, mask |-> x.asked.mask] \in past
                      => PageWas(MarkGlyphSaved(x), past)
<1> DEFINE b == x.asked.byte
           m == x.asked.mask
           d == IF Shown(x, b) = m THEN None ELSE Shown(x, b)
           y == MarkGlyphSaved(x)
<1>1. b \in Bytes /\ m \in Masks /\ x \in Page
  BY DEF Request, PageOK
<1>2. d \in Masks \cup {None} /\ Shown(x, b) \in Masks
  BY <1>1, MasksShown
<1>3. y = [x EXCEPT !.asked = Nothing, !.saved[b] = m, !.drafts[b] = d]
  BY DEF MarkGlyphSaved
<1> HIDE DEF b, m, d, y
<1>4. /\ y \in Page /\ y.at = x.at /\ y.got = x.got
      /\ y.saved = [x.saved EXCEPT ![b] = m] /\ y.drafts = [x.drafts EXCEPT ![b] = d]
      /\ x.saved \in [Bytes -> Masks \cup {None}] /\ x.drafts \in [Bytes -> Masks \cup {None}]
  BY <1>1, <1>2, <1>3 DEF Page
<1>5. /\ y.saved[b] = m /\ y.drafts[b] = d
      /\ \A byte \in Bytes \ {b} : y.saved[byte] = x.saved[byte] /\ y.drafts[byte] = x.drafts[byte]
  BY <1>1, <1>4
<1>6. /\ Saved(y, b) = m /\ Shown(y, b) = Shown(x, b)
      /\ y.drafts[b] # None => y.drafts[b] # Saved(y, b)
  <2>1. Saved(y, b) = m
    BY <1>1, <1>5 DEF Saved, Drawn
  <2>2. d = IF Shown(x, b) = m THEN None ELSE Shown(x, b)
    BY DEF d
  <2>3. Shown(y, b) = IF d # None THEN d ELSE m
    BY <1>5, <2>1 DEF Shown
  <2> QED BY <1>2, <1>5, <2>1, <2>2, <2>3
<1>7. \A byte \in Bytes \ {b} :
        Saved(y, byte) = Saved(x, byte) /\ Shown(y, byte) = Shown(x, byte)
  BY <1>5 DEF Saved, Shown
<1>8. x.at # "loading"
  BY NothingIsNoRequest DEF PageOK
<1>9. PageOK(y)
  <2>1. \A byte \in Bytes : y.drafts[byte] # None => y.drafts[byte] # Saved(y, byte)
    BY <1>5, <1>6, <1>7 DEF PageOK
  <2> QED BY <1>4, <1>8, <2>1 DEF PageOK
<1>10. \A byte \in Bytes : Shown(y, byte) = Shown(x, byte)
  BY <1>6, <1>7
<1>11. ASSUME NEW past, PageWas(x, past), [byte |-> b, mask |-> m] \in past PROVE PageWas(y, past)
  BY <1>4, <1>5, <1>11 DEF PageWas
<1> QED BY <1>9, <1>10, <1>11 DEF b, m, y

LEMMA FailedKeepsDots ==
  ASSUME NEW x, PageOK(x)
  PROVE  /\ PageOK(SaveFailed(x))
         /\ \A byte \in Bytes : Shown(SaveFailed(x), byte) = Shown(x, byte)
         /\ \A past : PageWas(x, past) => PageWas(SaveFailed(x), past)
<1> DEFINE y == SaveFailed(x)
<1>1. /\ y \in Page /\ y.at = x.at /\ y.got = x.got /\ y.saved = x.saved
      /\ y.drafts = x.drafts /\ y.asked = Nothing
  BY DEF SaveFailed, PageOK, Page
<1> HIDE DEF y
<1>2. \A byte \in Bytes : Saved(y, byte) = Saved(x, byte) /\ Shown(y, byte) = Shown(x, byte)
  BY <1>1 DEF Saved, Shown
<1>3. PageOK(y)
  BY <1>1, <1>2 DEF PageOK
<1>4. \A past : PageWas(x, past) => PageWas(y, past)
  BY <1>1 DEF PageWas
<1> QED BY <1>2, <1>3, <1>4 DEF y

(* A draft is never what is saved already.                                 *)
LEMMA PatternIsDraft ==
  ASSUME NEW x, PageOK(x), x.at # "loading", NEW byte \in Bytes, NEW mask \in Masks
  PROVE  /\ PageOK(SetPattern(x, byte, mask))
         /\ \A past : PageWas(x, past) => PageWas(SetPattern(x, byte, mask), past)
<1> DEFINE d == IF mask = Saved(x, byte) THEN None ELSE mask
           y == SetPattern(x, byte, mask)
<1>1. y = [x EXCEPT !.drafts[byte] = d] /\ d \in Masks \cup {None} /\ x \in Page
  BY DEF SetPattern, PageOK
<1>2. d # None => d # Saved(x, byte)
  OBVIOUS
<1> HIDE DEF d, y
<1>3. /\ y \in Page /\ y.at = x.at /\ y.got = x.got /\ y.saved = x.saved
      /\ y.drafts[byte] = d
      /\ \A b \in Bytes \ {byte} : y.drafts[b] = x.drafts[b]
  BY <1>1 DEF Page
<1>4. \A b \in Bytes : Saved(y, b) = Saved(x, b)
  BY <1>3 DEF Saved
<1>5. \A b \in Bytes : y.drafts[b] # None => y.drafts[b] # Saved(y, b)
  BY <1>2, <1>3, <1>4 DEF PageOK
<1>6. PageOK(y)
  BY <1>3, <1>5 DEF PageOK
<1>7. \A past : PageWas(x, past) => PageWas(y, past)
  BY <1>3 DEF PageWas
<1> QED BY <1>6, <1>7 DEF y

--------------------------------------------------------------------------------
(* The invariant, in parts: what the server keeps, and the pages.          *)

ServerTyped ==
  /\ file \in [Files -> Seq(Entry)] /\ outside \in 0..MaxOutside /\ queue \in Seq(Save)
  /\ had \subseteq Entry /\ steps \in 0..MaxSteps
FilesWere == \A name \in Files : ToSet(file[name]) \subseteq had
ServerOK  == ServerTyped /\ FilesParse /\ FilesWere /\ SourceOK
PagesOK   ==
  page \in [Pages -> Page] /\ \A p \in Pages : PageOK(page[p]) /\ PageWas(page[p], had)

LEMMA GlyphInvParts == GlyphInv <=> ServerOK /\ PagesOK
<1>1. GlyphInv => ServerOK
  BY DEF GlyphInv, TypeOK, WasThere, ServerOK, ServerTyped, FilesWere
<1>2. ASSUME GlyphInv PROVE PagesOK
  <2>1. page \in [Pages -> Page]
    BY <1>2 DEF GlyphInv, TypeOK
  <2>2. ASSUME NEW p \in Pages PROVE PageOK(page[p])
    BY <1>2, <2>1 DEF GlyphInv, TypeOK, LoadsAnew, PageOK
  <2>3. ASSUME NEW p \in Pages PROVE PageWas(page[p], had)
    BY <1>2 DEF GlyphInv, WasThere, PageWas
  <2> QED BY <2>1, <2>2, <2>3 DEF PagesOK
<1>3. ASSUME ServerOK, PagesOK PROVE GlyphInv
  <2>1. TypeOK
    BY <1>3 DEF ServerOK, ServerTyped, PagesOK, PageOK, TypeOK
  <2>2. WasThere
    BY <1>3 DEF ServerOK, FilesWere, PagesOK, PageWas, WasThere
  <2>3. LoadsAnew
    BY <1>3 DEF PagesOK, PageOK, LoadsAnew
  <2> QED BY <1>3, <2>1, <2>2, <2>3 DEF ServerOK, GlyphInv
<1> QED BY <1>1, <1>2, <1>3

(* A step of a page leaves the server alone.                               *)
LEMMA ServerStays ==
  ASSUME ServerOK, UNCHANGED <<file, outside, queue, had>>, steps' \in 0..MaxSteps
  PROVE  ServerOK'
<1>1. ServerTyped'
  BY DEF ServerOK, ServerTyped
<1>2. FilesParse' /\ FilesWere'
  BY DEF ServerOK, FilesParse, FilesWere
<1>3. SourceOK'
  BY DEF ServerOK, SourceOK
<1> QED BY <1>1, <1>2, <1>3 DEF ServerOK

LEMMA PagesStay ==
  ASSUME PagesOK, page' = page, had \subseteq had'
  PROVE  PagesOK'
<1>1. ASSUME NEW p \in Pages PROVE PageOK(page'[p]) /\ PageWas(page'[p], had')
  BY DEF PagesOK, PageWas
<1> QED BY <1>1 DEF PagesOK

LEMMA OnePageChanges ==
  ASSUME PagesOK, had \subseteq had', NEW p \in Pages, NEW x, page' = [page EXCEPT ![p] = x],
         PageOK(x), PageWas(x, had')
  PROVE  PagesOK'
<1>1. page \in [Pages -> Page] /\ x \in Page
  BY DEF PagesOK, PageOK
<1>2. page' \in [Pages -> Page] /\ page'[p] = x
      /\ \A q \in Pages \ {p} : page'[q] = page[q]
  BY <1>1
<1>3. ASSUME NEW q \in Pages PROVE PageOK(page'[q]) /\ PageWas(page'[q], had')
  <2>1. CASE q = p
    BY <1>2, <2>1
  <2>2. CASE q # p
    <3>1. PageOK(page[q]) /\ PageWas(page[q], had) /\ page'[q] = page[q]
      BY <1>2, <2>2 DEF PagesOK
    <3> QED BY <3>1 DEF PageWas
  <2> QED BY <2>1, <2>2
<1> QED BY <1>2, <1>3 DEF PagesOK

LEMMA OwnFile == \A byte : FileOf(byte) \in Files
  BY DEF FileOf, Files

--------------------------------------------------------------------------------
(* The steps of a page.                                                    *)

LEMMA InitIsOK == Init => GlyphInv
<1> SUFFICES ASSUME Init PROVE ServerOK /\ PagesOK
  BY GlyphInvParts
<1> DEFINE entry(byte) == [byte |-> byte, mask |-> Blank]
           N == LastBase - FirstBase + 1
           base == [n \in 1..N |-> entry(FirstBase + n - 1)]
<1>1. PICK extra \in {byte \in Bytes : byte > LastBase} :
        file = [ascii |-> base, extended |-> <<entry(extra)>>]
  BY DEF Init
<1>2. extra \in Bytes /\ extra \in Nat /\ extra > LastBase /\ N \in Nat
  OBVIOUS
<1>3. ASSUME NEW n \in 1..N
      PROVE  /\ FirstBase + n - 1 \in Bytes /\ FirstBase + n - 1 \in Nat
             /\ FirstBase + n - 1 <= LastBase /\ base[n] = entry(FirstBase + n - 1)
  <2>1. FirstBase + n - 1 \in FirstBase..LastBase
    BY <1>2
  <2> QED BY <2>1
<1>4. base \in Seq(Entry) /\ DOMAIN base = 1..N
  <2>1. \A n \in 1..N : base[n] \in Entry
    BY <1>3 DEF Entry
  <2> HIDE DEF base
  <2>2. base = [n \in 1..N |-> base[n]]
    BY DEF base
  <2> QED BY <1>2, <2>1, <2>2, IsASeq
<1>5. <<entry(extra)>> \in Seq(Entry)
  BY <1>2 DEF Entry
<1>6. /\ file \in [Files -> Seq(Entry)]
      /\ file["ascii"] = base /\ file["extended"] = <<entry(extra)>>
  <2> DEFINE more == <<entry(extra)>>
  <2>1. file = [ascii |-> base, extended |-> more] /\ base \in Seq(Entry) /\ more \in Seq(Entry)
    BY <1>1, <1>4, <1>5
  <2> HIDE DEF base, more
  <2>2. file \in [Files -> Seq(Entry)] /\ file["ascii"] = base /\ file["extended"] = more
    BY <2>1 DEF Files
  <2> QED BY <2>2 DEF more
<1>7. had = ToSet(base) \cup ToSet(<<entry(extra)>>)
  BY <1>6 DEF Init
<1>8. ServerTyped
  <2>1. had \subseteq Entry
    <3> DEFINE more == <<entry(extra)>>
    <3>1. base \in Seq(Entry) /\ more \in Seq(Entry) /\ had = ToSet(base) \cup ToSet(more)
      BY <1>4, <1>5, <1>7
    <3> HIDE DEF base, more
    <3> QED BY <3>1 DEF ToSet
  <2>2. outside \in 0..MaxOutside /\ queue \in Seq(Save) /\ steps \in 0..MaxSteps
    BY DEF Init
  <2> QED BY <1>6, <2>1, <2>2 DEF ServerTyped
<1>9. FilesWere
  BY <1>6, <1>7 DEF FilesWere, Files
<1>10. FilesParse
  <2>1. Parses("ascii", base)
    <3>1. \A n \in DOMAIN base : base[n].byte = FirstBase + n - 1
      BY <1>3, <1>4
    <3>2. \A m, n \in DOMAIN base : m < n => base[m].byte < base[n].byte
      BY <1>4, <3>1
    <3>3. \A byte \in BytesIn(base) : FileOf(byte) = "ascii"
      BY <1>3, <1>4, <3>1 DEF BytesIn, FileOf
    <3>4. ASSUME NEW byte \in Bytes, byte <= LastBase PROVE byte \in BytesIn(base)
      <4>1. byte \in FirstBase..LastBase
        BY <3>4
      <4>2. byte - FirstBase + 1 \in 1..N /\ FirstBase + (byte - FirstBase + 1) - 1 = byte
        BY <4>1
      <4> HIDE DEF base, N
      <4> QED BY <1>4, <3>1, <4>2 DEF BytesIn
    <3> HIDE DEF base
    <3> QED BY <3>2, <3>3, <3>4 DEF Parses
  <2>2. Parses("extended", <<entry(extra)>>)
    BY <1>2 DEF Parses, BytesIn, FileOf
  <2> QED BY <1>6, <2>1, <2>2 DEF FilesParse, Files
<1>11. SourceOK
  BY DEF Init, SourceOK
<1>12. PagesOK
  BY NewPageOK DEF Init, PagesOK, PageOK
<1> QED BY <1>8, <1>9, <1>10, <1>11, <1>12 DEF ServerOK

LEMMA ReadIsOK ==
  ASSUME ServerOK, PagesOK, NEW p \in Pages, NEW name \in Files, Read(p, name)
  PROVE  ServerOK' /\ PagesOK'
<1> DEFINE x == page[p]
           y == [x EXCEPT !.got[name] = file[name]]
<1>1. /\ PageOK(x) /\ PageWas(x, had) /\ x \in Page
      /\ file[name] \in Seq(Entry) /\ ToSet(file[name]) \subseteq had
  BY DEF PagesOK, PageOK, ServerOK, ServerTyped, FilesWere
<1>2. page' = [page EXCEPT ![p] = y] /\ had' = had
  BY DEF Read
<1> HIDE DEF x
<1>3. /\ y \in Page /\ y.at = x.at /\ y.saved = x.saved /\ y.drafts = x.drafts /\ y.asked = x.asked
      /\ y.got[name] = file[name] /\ \A other \in Files \ {name} : y.got[other] = x.got[other]
  BY <1>1 DEF Page
<1> HIDE DEF y
<1>4. PageOK(y)
  BY <1>1, <1>3 DEF PageOK, Saved
<1>5. PageWas(y, had)
  BY <1>1, <1>3 DEF PageWas
<1>6. PagesOK'
  BY <1>2, <1>4, <1>5, OnePageChanges
<1>7. ServerOK'
  BY ServerStays DEF Read, ServerOK, ServerTyped
<1> QED BY <1>6, <1>7

(* What a page loads has been in the files it was read from.               *)
LEMMA AuthoredWas ==
  ASSUME NEW past, NEW got \in [Files -> Seq(Entry)],
         \A name \in Files : ToSet(got[name]) \subseteq past
  PROVE  /\ Authored(got) \in [Bytes -> Masks \cup {None}]
         /\ \A byte \in Bytes : Authored(got)[byte] # None
                                => [byte |-> byte, mask |-> Authored(got)[byte]] \in past
<1> DEFINE A == Authored(got)
<1>1. A = [byte \in Bytes |-> MaskIn(got[FileOf(byte)], byte)]
  BY DEF Authored
<1> HIDE DEF A
<1>2. ASSUME NEW byte \in Bytes
      PROVE  /\ A[byte] \in Masks \cup {None}
             /\ A[byte] # None => [byte |-> byte, mask |-> A[byte]] \in past
  <2>1. FileOf(byte) \in Files /\ got[FileOf(byte)] \in Seq(Entry)
        /\ ToSet(got[FileOf(byte)]) \subseteq past /\ A[byte] = MaskIn(got[FileOf(byte)], byte)
    BY <1>1, OwnFile
  <2> QED BY <2>1, MaskThere
<1>3. A \in [Bytes -> Masks \cup {None}]
  BY <1>1, <1>2
<1> QED BY <1>2, <1>3 DEF A

LEMMA LoadedIsOK ==
  ASSUME ServerOK, PagesOK, NEW p \in Pages, Loaded(p)
  PROVE  ServerOK' /\ PagesOK'
<1> DEFINE x == page[p]
           A == Authored(x.got)
           y == [x EXCEPT !.at = "open", !.got = [name \in Files |-> None], !.saved = A]
<1>1. PageOK(x) /\ PageWas(x, had) /\ x \in Page /\ x.at = "loading"
      /\ \A name \in Files : x.got[name] # None
  BY DEF PagesOK, PageOK, Loaded
<1>2. page' = [page EXCEPT ![p] = y] /\ had' = had
  BY DEF Loaded
<1> HIDE DEF x
<1>3. x.got \in [Files -> Seq(Entry)] /\ \A name \in Files : ToSet(x.got[name]) \subseteq had
  BY <1>1 DEF Page, PageWas
<1>4. /\ A \in [Bytes -> Masks \cup {None}]
      /\ \A byte \in Bytes : A[byte] # None => [byte |-> byte, mask |-> A[byte]] \in had
  BY <1>3, AuthoredWas
<1> HIDE DEF A
<1>5. /\ y \in Page /\ y.at = "open" /\ y.saved = A /\ y.drafts = x.drafts
      /\ \A name \in Files : y.got[name] = None
  BY <1>1, <1>4 DEF Page
<1> HIDE DEF y
<1>6. PageOK(y)
  BY <1>1, <1>5 DEF PageOK
<1>7. PageWas(y, had)
  BY <1>4, <1>5 DEF PageWas
<1>8. PagesOK'
  BY <1>2, <1>6, <1>7, OnePageChanges
<1>9. ServerOK'
  BY ServerStays DEF Loaded, ServerOK, ServerTyped
<1> QED BY <1>8, <1>9

LEMMA NotLoadedIsOK ==
  ASSUME ServerOK, PagesOK, NEW p \in Pages, NotLoaded(p)
  PROVE  ServerOK' /\ PagesOK'
<1> DEFINE x == page[p]
           y == [x EXCEPT !.at = "failed", !.got = [name \in Files |-> None]]
<1>1. PageOK(x) /\ PageWas(x, had) /\ x \in Page
  BY DEF PagesOK, PageOK
<1>2. page' = [page EXCEPT ![p] = y] /\ had' = had
  BY DEF NotLoaded
<1> HIDE DEF x
<1>3. /\ y \in Page /\ y.at = "failed" /\ y.saved = x.saved /\ y.drafts = x.drafts
      /\ \A name \in Files : y.got[name] = None
  BY <1>1 DEF Page
<1> HIDE DEF y
<1>4. PageOK(y)
  BY <1>1, <1>3 DEF PageOK, Saved
<1>5. PageWas(y, had)
  BY <1>1, <1>3 DEF PageWas
<1>6. PagesOK'
  BY <1>2, <1>4, <1>5, OnePageChanges
<1>7. ServerOK'
  BY ServerStays DEF NotLoaded, ServerOK, ServerTyped
<1> QED BY <1>6, <1>7

LEMMA StepCounts ==
  ASSUME ServerOK, Step
  PROVE  steps' \in 0..MaxSteps /\ steps' # steps /\ steps + 1 \in 1..MaxSteps
  BY DEF ServerOK, ServerTyped, Step

LEMMA EditIsOK ==
  ASSUME ServerOK, PagesOK, NEW p \in Pages, Edit(p)
  PROVE  ServerOK' /\ PagesOK' /\ steps' # steps
<1>1. PICK byte \in Bytes, mask \in Masks : page' = [page EXCEPT ![p] = SetPattern(page[p], byte, mask)]
  BY DEF Edit
<1>2. PageOK(page[p]) /\ PageWas(page[p], had) /\ page[p].at # "loading" /\ had' = had
  BY DEF PagesOK, Edit
<1>3. PagesOK'
  BY <1>1, <1>2, PatternIsDraft, OnePageChanges
<1>4. ServerOK' /\ steps' # steps
  BY StepCounts, ServerStays DEF Edit
<1> QED BY <1>3, <1>4

LEMMA ReloadIsOK ==
  ASSUME ServerOK, PagesOK, NEW p \in Pages, Reload(p)
  PROVE  ServerOK' /\ PagesOK' /\ steps' # steps
<1>1. page' = [page EXCEPT ![p] = NewPage] /\ had' = had
  BY DEF Reload
<1>2. PagesOK'
  BY <1>1, NewPageOK, OnePageChanges
<1>3. ServerOK' /\ steps' # steps
  BY StepCounts, ServerStays DEF Reload
<1> QED BY <1>2, <1>3

LEMMA AnswerLostIsOK ==
  ASSUME ServerOK, PagesOK, NEW p \in Pages, AnswerLost(p)
  PROVE  ServerOK' /\ PagesOK'
<1>1. page' = [page EXCEPT ![p] = SaveFailed(page[p])] /\ had' = had
  BY DEF AnswerLost
<1>2. PageOK(page[p]) /\ PageWas(page[p], had)
  BY DEF PagesOK
<1>3. PagesOK'
  BY <1>1, <1>2, FailedKeepsDots, OnePageChanges
<1>4. ServerOK'
  BY ServerStays DEF AnswerLost, ServerOK, ServerTyped
<1> QED BY <1>3, <1>4

LEMMA SubmitIsOK ==
  ASSUME ServerOK, PagesOK, NEW p \in Pages, Submit(p)
  PROVE  ServerOK' /\ PagesOK' /\ steps' # steps
<1> DEFINE x == page[p]
<1>1. PageOK(x) /\ PageWas(x, had) /\ x \in Page /\ x.at = "open"
  BY DEF PagesOK, PageOK, Submit
<1>2. PICK byte \in Bytes :
        LET asked == [id |-> steps + 1, byte |-> byte, mask |-> Shown(x, byte),
                      previous |-> Saved(x, byte)]
        IN /\ page' = [page EXCEPT ![p].asked = asked]
           /\ queue' = Append(queue, [page |-> p, asked |-> asked, at |-> "queued",
                                      source |-> << >>])
  BY DEF Submit
<1> DEFINE asked == [id |-> steps + 1, byte |-> byte, mask |-> Shown(x, byte),
                     previous |-> Saved(x, byte)]
           y == [x EXCEPT !.asked = asked]
           save == [page |-> p, asked |-> asked, at |-> "queued", source |-> << >>]
<1>3. /\ page' = [page EXCEPT ![p] = y] /\ queue' = Append(queue, save)
      /\ UNCHANGED <<file, outside, had>>
  BY <1>2 DEF Submit
<1>4. steps' \in 0..MaxSteps /\ steps' # steps /\ steps + 1 \in 1..MaxSteps
  BY StepCounts DEF Submit
<1> HIDE DEF x
<1>5. asked \in Request
  BY <1>1, <1>4, MasksShown DEF Request
<1> HIDE DEF asked
<1>6. save \in Save /\ save.at = "queued"
  BY <1>5 DEF Save
<1>7. /\ y \in Page /\ y.at = "open" /\ y.got = x.got /\ y.saved = x.saved /\ y.drafts = x.drafts
  BY <1>1, <1>5 DEF Page
<1> HIDE DEF y, save
<1>8. PageOK(y)
  BY <1>1, <1>7 DEF PageOK, Saved
<1>9. PageWas(y, had)
  BY <1>1, <1>7 DEF PageWas
<1>10. PagesOK'
  BY <1>3, <1>8, <1>9, OnePageChanges
<1>11. queue \in Seq(Save)
  BY DEF ServerOK, ServerTyped
<1>12. /\ queue' \in Seq(Save)
       /\ \A n \in DOMAIN queue' : queue'[n] = save \/ (n \in DOMAIN queue /\ queue'[n] = queue[n])
  <2> DEFINE t == Append(queue, save)
  <2>1. /\ t \in Seq(Save) /\ DOMAIN t = 1..(Len(queue) + 1) /\ t[Len(queue) + 1] = save
        /\ \A n \in 1..Len(queue) : t[n] = queue[n]
    BY <1>6, <1>11, Appended
  <2>2. Len(queue) \in Nat /\ DOMAIN queue = 1..Len(queue) /\ queue' = t
    BY <1>3, <1>11
  <2> HIDE DEF t
  <2>3. ASSUME NEW n \in DOMAIN t PROVE t[n] = save \/ (n \in DOMAIN queue /\ t[n] = queue[n])
    <3>1. n = Len(queue) + 1 \/ n \in 1..Len(queue)
      BY <2>1, <2>2
    <3> QED BY <2>1, <2>2, <3>1
  <2> QED BY <2>1, <2>2, <2>3
<1>13. ServerTyped' /\ FilesParse' /\ FilesWere'
  BY <1>3, <1>4, <1>12 DEF ServerOK, ServerTyped, FilesParse, FilesWere
<1>14. SourceOK'
  <2>1. SUFFICES ASSUME NEW n \in DOMAIN queue', queue'[n].at = "read"
                 PROVE  n \in DOMAIN queue /\ queue'[n] = queue[n]
    BY <1>3 DEF ServerOK, SourceOK
  <2>2. queue'[n] # save
    BY <1>6, <2>1
  <2> QED BY <1>12, <2>1, <2>2
<1> QED BY <1>4, <1>10, <1>13, <1>14 DEF ServerOK

--------------------------------------------------------------------------------
(* The steps of the server.                                                *)

(* The save whose turn it is, and the files its answer leaves.             *)
LEMMA FirstSave ==
  ASSUME ServerOK, PagesOK, NEW n, Turn(n)
  PROVE  /\ n = 1 /\ 1 \in DOMAIN queue /\ queue[1] \in Save
         /\ queue[1].page \in Pages /\ queue[1].asked \in Request
         /\ queue[1].source \in Seq(Entry)
         /\ queue[1].asked.byte \in Bytes /\ queue[1].asked.mask \in Masks
         /\ PageOK(page[queue[1].page]) /\ PageWas(page[queue[1].page], had)
<1>1. n = 1 /\ 1 \in DOMAIN queue /\ queue \in Seq(Save)
  BY DEF Turn, ServerOK, ServerTyped
<1>2. queue[1] \in Save
  BY <1>1
<1>3. queue[1].page \in Pages /\ queue[1].asked \in Request /\ queue[1].source \in Seq(Entry)
  BY <1>2 DEF Save
<1>4. queue[1].asked.byte \in Bytes /\ queue[1].asked.mask \in Masks
  BY <1>3 DEF Request
<1> QED BY <1>1, <1>2, <1>3, <1>4 DEF PagesOK

(* The queue after the first save is done: none of the others was begun.   *)
LEMMA NextTurn ==
  ASSUME ServerOK, 1 \in DOMAIN queue, queue' = RemoveAt(queue, 1)
  PROVE  queue' \in Seq(Save) /\ SourceOK'
<1>1. queue \in Seq(Save) /\ Len(queue) \in Nat /\ DOMAIN queue = 1..Len(queue)
  BY DEF ServerOK, ServerTyped
<1>2. /\ queue' \in Seq(Save) /\ DOMAIN queue' = 1..(Len(queue) - 1)
      /\ \A n \in 1..(Len(queue) - 1) : queue'[n] = queue[n + 1]
  <2> DEFINE t == RemoveAt(queue, 1)
  <2>1. /\ t \in Seq(Save) /\ DOMAIN t = 1..(Len(queue) - 1)
        /\ \A n \in 1..(Len(queue) - 1) : t[n] = queue[n + 1]
    BY <1>1, FirstRemoved
  <2>2. queue' = t
    OBVIOUS
  <2> HIDE DEF t
  <2> QED BY <2>1, <2>2
<1>3. ASSUME NEW n \in DOMAIN queue' PROVE queue'[n].at # "read"
  <2>1. n + 1 \in DOMAIN queue /\ n + 1 # 1 /\ queue'[n] = queue[n + 1]
    BY <1>1, <1>2
  <2>2. queue[n + 1].at # "read"
    BY <2>1 DEF ServerOK, SourceOK
  <2> QED BY <2>1, <2>2
<1> QED BY <1>2, <1>3 DEF SourceOK

(* The answer to a save reaches its page, or nobody.                       *)
LEMMA PagesAnswered ==
  ASSUME PagesOK, had \subseteq had', NEW p \in Pages, NEW asked \in Request, NEW x,
         page' = IF page[p].asked = asked THEN [page EXCEPT ![p] = x] ELSE page,
         page[p].asked = asked => PageOK(x) /\ PageWas(x, had')
                                  /\ \A byte \in Bytes : Shown(x, byte) = Shown(page[p], byte)
  PROVE  /\ PagesOK'
         /\ \A q \in Pages, byte \in Bytes : Shown(page'[q], byte) = Shown(page[q], byte)
<1>1. CASE page[p].asked = asked
  <2>1. PagesOK'
    BY <1>1, OnePageChanges
  <2>2. /\ page \in [Pages -> Page] /\ page' = [page EXCEPT ![p] = x]
        /\ \A byte \in Bytes : Shown(x, byte) = Shown(page[p], byte)
    BY <1>1 DEF PagesOK
  <2>3. page'[p] = x /\ \A q \in Pages \ {p} : page'[q] = page[q]
    BY <2>2
  <2> QED BY <2>1, <2>2, <2>3
<1>2. CASE page[p].asked # asked
  <2>1. page' = page
    BY <1>2
  <2> QED BY <2>1, PagesStay
<1> QED BY <1>1, <1>2

LEMMA RefuseIsOK ==
  ASSUME ServerOK, PagesOK, NEW n, Turn(n), Refuse(n)
  PROVE  /\ ServerOK' /\ PagesOK' /\ file' = file
         /\ \A q \in Pages, byte \in Bytes : Shown(page'[q], byte) = Shown(page[q], byte)
<1> DEFINE p == queue[1].page
           asked == queue[1].asked
<1>1. /\ n = 1 /\ 1 \in DOMAIN queue /\ p \in Pages /\ asked \in Request
      /\ PageOK(page[p]) /\ PageWas(page[p], had)
  BY FirstSave
<1>2. /\ queue' = RemoveAt(queue, 1) /\ UNCHANGED <<file, had, outside, steps>>
      /\ page' = IF page[p].asked = asked THEN [page EXCEPT ![p] = SaveFailed(page[p])] ELSE page
  BY <1>1 DEF Refuse, Finish
<1>3. queue' \in Seq(Save) /\ SourceOK'
  BY <1>1, <1>2, NextTurn
<1>4. ServerOK'
  BY <1>2, <1>3 DEF ServerOK, ServerTyped, FilesParse, FilesWere
<1>5. /\ PageOK(SaveFailed(page[p])) /\ PageWas(SaveFailed(page[p]), had')
      /\ \A byte \in Bytes : Shown(SaveFailed(page[p]), byte) = Shown(page[p], byte)
  BY <1>1, <1>2, FailedKeepsDots
<1> HIDE DEF p, asked
<1>6. /\ PagesOK'
      /\ \A q \in Pages, byte \in Bytes : Shown(page'[q], byte) = Shown(page[q], byte)
  BY <1>1, <1>2, <1>5, PagesAnswered
<1> QED BY <1>2, <1>4, <1>6

LEMMA ReadSourceIsOK ==
  ASSUME ServerOK, PagesOK, NEW n, ReadSource(n)
  PROVE  /\ ServerOK' /\ PagesOK' /\ file' = file
         /\ \A q \in Pages, byte \in Bytes : Shown(page'[q], byte) = Shown(page[q], byte)
<1> DEFINE asked == queue[1].asked
           name == FileOf(asked.byte)
           new == Replace(file[name], asked.byte, asked.mask)
<1>1. /\ Turn(n) /\ n = 1 /\ 1 \in DOMAIN queue /\ queue[1] \in Save
      /\ asked.byte \in Bytes /\ asked.mask \in Masks
  BY FirstSave DEF ReadSource
<1>2. CASE /\ queue' = [queue EXCEPT ![n].at = "read", ![n].source = new]
           /\ UNCHANGED <<file, outside, page, had, steps>>
  <2> DEFINE save == [queue[1] EXCEPT !.at = "read", !.source = new]
  <2>1. /\ name \in Files /\ file[name] \in Seq(Entry) /\ Parses(name, file[name])
    BY OwnFile DEF ServerOK, ServerTyped, FilesParse
  <2>2. /\ Changed(file[name], new, asked.byte, asked.mask) /\ Parses(name, new)
    BY <1>1, <2>1, ReplaceParses
  <2>3. new \in Seq(Entry) /\ [byte |-> asked.byte, mask |-> asked.mask] \in ToSet(new)
    BY <2>2 DEF Changed
  <2>4. queue' = [queue EXCEPT ![1] = save]
    BY <1>1, <1>2
  <2>5. save \in Save /\ save.asked = asked /\ save.source = new
    <3> HIDE DEF new
    <3> QED BY <1>1, <2>3 DEF Save
  <2>6. /\ queue \in Seq(Save) /\ DOMAIN queue = 1..Len(queue) /\ Len(queue) \in Nat
        /\ \A k \in DOMAIN queue : k # 1 => queue[k].at # "read"
    <3>1. queue \in Seq(Save)
      BY DEF ServerOK, ServerTyped
    <3>2. \A k \in DOMAIN queue : k # 1 => queue[k].at # "read"
      BY DEF ServerOK, SourceOK
    <3> QED BY <3>1, <3>2
  <2> HIDE DEF save, asked, name, new
  <2>7. /\ queue' \in Seq(Save) /\ DOMAIN queue' = DOMAIN queue /\ queue'[1] = save
        /\ \A k \in DOMAIN queue : k # 1 => queue'[k] = queue[k]
    BY <1>1, <2>4, <2>5, <2>6
  <2>8. ServerTyped' /\ FilesParse' /\ FilesWere'
    BY <1>2, <2>7 DEF ServerOK, ServerTyped, FilesParse, FilesWere
  <2>9. /\ file' = file /\ name = FileOf(asked.byte)
         /\ new = Replace(file[name], asked.byte, asked.mask)
    BY <1>2 DEF name, new
  <2>10. ASSUME NEW k \in DOMAIN queue', queue'[k].at = "read"
         PROVE  k = 1 /\ queue'[k] = save
    BY <2>6, <2>7, <2>10
  <2>11. SourceOK'
    BY <2>2, <2>3, <2>5, <2>9, <2>10 DEF SourceOK
  <2>12. PagesOK' /\ page' = page
    BY <1>2, PagesStay
  <2> QED BY <2>8, <2>9, <2>11, <2>12 DEF ServerOK
<1>3. CASE Refuse(n)
  BY <1>1, <1>3, RefuseIsOK
<1> QED BY <1>1, <1>2, <1>3 DEF ReadSource

LEMMA WriteIsOK ==
  ASSUME ServerOK, PagesOK, NEW n, Write(n)
  PROVE  /\ ServerOK' /\ PagesOK' /\ outside' = outside
         /\ file' # file =>
              /\ n = 1 /\ 1 \in DOMAIN queue /\ queue[1].at = "read"
              /\ queue' = RemoveAt(queue, 1)
              /\ file' = [file EXCEPT ![FileOf(queue[1].asked.byte)] = queue[1].source]
         /\ \A q \in Pages, byte \in Bytes : Shown(page'[q], byte) = Shown(page[q], byte)
<1> DEFINE p == queue[1].page
           asked == queue[1].asked
           name == FileOf(asked.byte)
           source == queue[1].source
<1>1. /\ Turn(n) /\ n = 1 /\ 1 \in DOMAIN queue /\ p \in Pages /\ asked \in Request
      /\ source \in Seq(Entry) /\ asked.byte \in Bytes /\ queue[1].at = "read"
      /\ PageOK(page[p]) /\ PageWas(page[p], had)
  BY FirstSave DEF Write
<1>2. CASE Store(FileOf(queue[n].asked.byte), queue[n].source)
           /\ Finish(n, MarkGlyphSaved(page[queue[n].page]))
  <2>1. /\ file' = [file EXCEPT ![name] = source] /\ had' = had \cup ToSet(source)
        /\ queue' = RemoveAt(queue, 1) /\ UNCHANGED <<outside, steps>>
        /\ page' = IF page[p].asked = asked
                   THEN [page EXCEPT ![p] = MarkGlyphSaved(page[p])] ELSE page
    BY <1>1, <1>2 DEF Store, Finish
  <2>2. /\ Parses(name, source) /\ [byte |-> asked.byte, mask |-> asked.mask] \in ToSet(source)
    BY <1>1 DEF ServerOK, SourceOK
  <2>3. queue' \in Seq(Save) /\ SourceOK'
    BY <1>1, <2>1, NextTurn
  <2>4. name \in Files /\ file \in [Files -> Seq(Entry)]
    BY OwnFile DEF ServerOK, ServerTyped
  <2> HIDE DEF name, source, p, asked
  <2>5. /\ file' \in [Files -> Seq(Entry)] /\ file'[name] = source
        /\ \A other \in Files \ {name} : file'[other] = file[other]
    BY <1>1, <2>1, <2>4
  <2>6. had' \subseteq Entry
    BY <1>1, <2>1 DEF ToSet, ServerOK, ServerTyped
  <2>7. ServerTyped'
    BY <2>1, <2>3, <2>5, <2>6 DEF ServerOK, ServerTyped
  <2>8. FilesParse'
    BY <2>2, <2>5 DEF ServerOK, FilesParse
  <2>9. FilesWere'
    BY <2>1, <2>5 DEF ServerOK, FilesWere
  <2>10. page[p].asked = asked =>
           /\ PageOK(MarkGlyphSaved(page[p])) /\ PageWas(MarkGlyphSaved(page[p]), had')
           /\ \A byte \in Bytes : Shown(MarkGlyphSaved(page[p]), byte) = Shown(page[p], byte)
    <3>1. SUFFICES ASSUME page[p].asked = asked
                   PROVE  /\ page[p].asked \in Request /\ PageWas(page[p], had')
                          /\ [byte |-> page[p].asked.byte, mask |-> page[p].asked.mask] \in had'
      BY <1>1, SavedKeepsDots
    <3>2. PageWas(page[p], had')
      BY <1>1, <2>1 DEF PageWas
    <3> QED BY <1>1, <2>1, <2>2, <3>1, <3>2
  <2>11. had \subseteq had'
    BY <2>1
  <2>12. /\ PagesOK'
         /\ \A q \in Pages, byte \in Bytes : Shown(page'[q], byte) = Shown(page[q], byte)
    BY <1>1, <2>1, <2>10, <2>11, PagesAnswered
  <2> QED BY <1>1, <2>1, <2>3, <2>7, <2>8, <2>9, <2>12 DEF ServerOK, name, source, asked
<1>3. CASE Refuse(n)
  <2>1. UNCHANGED outside
    BY <1>3 DEF Refuse, Finish
  <2> QED BY <1>1, <1>3, <2>1, RefuseIsOK
<1> QED BY <1>2, <1>3 DEF Write

LEMMA OutsideIsOK ==
  ASSUME ServerOK, PagesOK, Outside
  PROVE  ServerOK' /\ PagesOK' /\ outside' # 0 /\ page' = page
<1>1. PICK byte \in Bytes, mask \in Masks :
        Store(FileOf(byte), Replace(file[FileOf(byte)], byte, mask))
  BY DEF Outside
<1> DEFINE name == FileOf(byte)
           new == Replace(file[name], byte, mask)
<1>2. /\ file' = [file EXCEPT ![name] = new] /\ had' = had \cup ToSet(new)
      /\ UNCHANGED <<page, queue, steps>>
  BY <1>1 DEF Store, Outside
<1>3. outside' \in 0..MaxOutside /\ outside' # 0
  BY DEF Outside, ServerOK, ServerTyped
<1>4. /\ name \in Files /\ file \in [Files -> Seq(Entry)] /\ file[name] \in Seq(Entry)
      /\ Parses(name, file[name])
  BY OwnFile DEF ServerOK, ServerTyped, FilesParse
<1>5. Changed(file[name], new, byte, mask) /\ Parses(name, new)
  BY <1>4, ReplaceParses
<1>6. new \in Seq(Entry)
  BY <1>5 DEF Changed
<1> HIDE DEF name, new
<1>7. /\ file' \in [Files -> Seq(Entry)] /\ file'[name] = new
      /\ \A other \in Files \ {name} : file'[other] = file[other]
  BY <1>2, <1>4, <1>6
<1>8. had' \subseteq Entry
  BY <1>2, <1>6 DEF ToSet, ServerOK, ServerTyped
<1>9. ServerTyped'
  BY <1>2, <1>3, <1>7, <1>8 DEF ServerOK, ServerTyped
<1>10. FilesParse'
  BY <1>5, <1>7 DEF ServerOK, FilesParse
<1>11. FilesWere'
  BY <1>2, <1>7 DEF ServerOK, FilesWere
<1>12. SourceOK'
  BY <1>2, <1>3 DEF ServerOK, SourceOK
<1>13. PagesOK'
  BY <1>2, PagesStay
<1> QED BY <1>2, <1>3, <1>9, <1>10, <1>11, <1>12, <1>13 DEF ServerOK

--------------------------------------------------------------------------------
(* Theorems.                                                               *)

(* A step of the program, and what is shown after it.                      *)
LEMMA NextIsOK ==
  ASSUME GlyphInv, Next
  PROVE  GlyphInv' /\ AnswersKeepDots
<1> DEFINE Kept == \A q \in Pages, byte \in Bytes : Shown(page'[q], byte) = Shown(page[q], byte)
<1>1. ServerOK /\ PagesOK
  BY GlyphInvParts
<1>2. Kept => AnswersKeepDots
  BY DEF AnswersKeepDots
<1>3. steps' # steps => AnswersKeepDots
  BY DEF AnswersKeepDots
<1>4. ASSUME NEW p \in Pages, page[p].at = "loading", NEW x, page' = [page EXCEPT ![p] = x]
      PROVE  AnswersKeepDots
  <2>1. page \in [Pages -> Page]
    BY <1>1 DEF PagesOK
  <2>2. \A q \in Pages \ {p} : page'[q] = page[q]
    BY <1>4, <2>1
  <2> QED BY <1>4, <2>2 DEF AnswersKeepDots
<1>5. ASSUME NEW p \in Pages, Loads(p) PROVE ServerOK' /\ PagesOK' /\ AnswersKeepDots
  <2>1. ASSUME NEW name \in Files, Read(p, name) PROVE ServerOK' /\ PagesOK' /\ AnswersKeepDots
    <3>1. page[p].at = "loading" /\ page' = [page EXCEPT ![p] = [page[p] EXCEPT !.got[name] = file[name]]]
      BY <2>1 DEF Read
    <3> QED BY <1>1, <1>4, <2>1, <3>1, ReadIsOK
  <2>2. ASSUME Loaded(p) PROVE ServerOK' /\ PagesOK' /\ AnswersKeepDots
    <3>1. page[p].at = "loading" /\ \E x : page' = [page EXCEPT ![p] = x]
      BY <2>2 DEF Loaded
    <3> QED BY <1>1, <1>4, <2>2, <3>1, LoadedIsOK
  <2>3. ASSUME NotLoaded(p) PROVE ServerOK' /\ PagesOK' /\ AnswersKeepDots
    <3>1. page[p].at = "loading" /\ \E x : page' = [page EXCEPT ![p] = x]
      BY <2>3 DEF NotLoaded
    <3> QED BY <1>1, <1>4, <2>3, <3>1, NotLoadedIsOK
  <2> QED BY <1>5, <2>1, <2>2, <2>3 DEF Loads
<1>6. ASSUME NEW p \in Pages, User(p) PROVE ServerOK' /\ PagesOK' /\ AnswersKeepDots
  BY <1>1, <1>3, <1>6, EditIsOK, SubmitIsOK, ReloadIsOK DEF User
<1>7. ASSUME NEW p \in Pages, AnswerLost(p) PROVE ServerOK' /\ PagesOK' /\ AnswersKeepDots
  <2>1. PageOK(page[p]) /\ page \in [Pages -> Page]
        /\ page' = [page EXCEPT ![p] = SaveFailed(page[p])]
    BY <1>1, <1>7 DEF PagesOK, AnswerLost
  <2>2. page'[p] = SaveFailed(page[p]) /\ \A q \in Pages \ {p} : page'[q] = page[q]
    BY <2>1
  <2>3. Kept
    BY <2>1, <2>2, FailedKeepsDots
  <2> QED BY <1>1, <1>2, <1>7, <2>3, AnswerLostIsOK
<1>8. ASSUME Server PROVE ServerOK' /\ PagesOK' /\ AnswersKeepDots
  <2>1. PICK n \in 1..MaxSteps : ReadSource(n) \/ Write(n)
    BY <1>8 DEF Server
  <2>2. ServerOK' /\ PagesOK' /\ Kept
    BY <1>1, <2>1, ReadSourceIsOK, WriteIsOK
  <2> QED BY <1>2, <2>2
<1>9. ASSUME Outside PROVE ServerOK' /\ PagesOK' /\ AnswersKeepDots
  <2>1. ServerOK' /\ PagesOK' /\ page' = page
    BY <1>1, <1>9, OutsideIsOK
  <2> QED BY <1>2, <2>1
<1>10. GlyphInv' <=> ServerOK' /\ PagesOK'
  BY GlyphInvParts, PTL
<1>11. ServerOK' /\ PagesOK' /\ AnswersKeepDots
  BY <1>5, <1>6, <1>7, <1>8, <1>9 DEF Next
<1> QED BY <1>10, <1>11

LEMMA StutterIsOK ==
  ASSUME GlyphInv, UNCHANGED vars
  PROVE  GlyphInv'
<1>1. ServerOK /\ PagesOK
  BY GlyphInvParts
<1>2. ServerOK'
  BY <1>1, ServerStays DEF vars, ServerOK, ServerTyped
<1>3. PagesOK'
  BY <1>1, PagesStay DEF vars
<1>4. GlyphInv' <=> ServerOK' /\ PagesOK'
  BY GlyphInvParts, PTL
<1> QED BY <1>2, <1>3, <1>4

(* The inductive invariant of the glyph editor: its types, files that      *)
(* parse, what pages and files have had, pages that load anew, and what a  *)
(* save is about to write.                                                 *)
THEOREM GlyphInvariance == Spec => []GlyphInv
<1>1. Init => GlyphInv
  BY InitIsOK
<1>2. GlyphInv /\ [Next]_vars => GlyphInv'
  BY NextIsOK, StutterIsOK
<1> QED BY <1>1, <1>2, PTL DEF Spec

(* Whatever is edited, saved, lost or changed by other programs, the       *)
(* sources can be parsed, and what a page shows as saved was in them.      *)
THEOREM StaysReadableAlways == Spec => []StaysReadable
<1>1. GlyphInv => StaysReadable
  BY DEF GlyphInv, FilesParse, WasThere, StaysReadable
<1> QED BY <1>1, GlyphInvariance, PTL

(* No answer changes what a page shows (the step part of DotsStay).        *)
THEOREM AnswersKeepDotsAlways == Spec => [][AnswersKeepDots]_vars
<1>1. GlyphInv /\ [Next]_vars => [AnswersKeepDots]_vars
  BY NextIsOK
<1> QED BY <1>1, GlyphInvariance, PTL DEF Spec

(* What was written has another mask for one byte only.                    *)
LEMMA WriteTouchesItsByte ==
  ASSUME ServerOK, PagesOK, NEW n, Write(n), file' # file, outside' = 0
  PROVE  TouchesItsByte
<1> DEFINE asked == queue[1].asked
           name == FileOf(asked.byte)
           new == Replace(file[name], asked.byte, asked.mask)
<1>1. /\ 1 \in DOMAIN queue /\ queue' = RemoveAt(queue, 1) /\ queue[1].at = "read"
      /\ file' = [file EXCEPT ![name] = queue[1].source] /\ outside = 0
  BY WriteIsOK
<1>2. asked.byte \in Bytes /\ asked.mask \in Masks
  BY FirstSave DEF Write
<1>3. queue[1].source = new
  BY <1>1 DEF ServerOK, SourceOK
<1>4. name \in Files /\ file \in [Files -> Seq(Entry)] /\ Parses(name, file[name])
  BY OwnFile DEF ServerOK, ServerTyped, FilesParse
<1>5. Changed(file[name], new, asked.byte, asked.mask) /\ Ascending(file[name])
  BY <1>2, <1>4, ReplaceParses DEF Parses, Ascending
<1> HIDE DEF name, new
<1>6. file'[name] = new /\ \A other \in Files \ {name} : file'[other] = file[other]
  BY <1>1, <1>3, <1>4
<1>7. ASSUME NEW b \in Bytes \ {asked.byte}
      PROVE  MaskIn(file'[FileOf(b)], b) = MaskIn(file[FileOf(b)], b)
  <2>1. CASE FileOf(b) = name
    <3> DEFINE s == file[name]
    <3>1. s \in Seq(Entry) /\ Ascending(s) /\ Changed(s, new, asked.byte, asked.mask)
      BY <1>4, <1>5
    <3> HIDE DEF s, asked
    <3>2. MaskIn(new, b) = MaskIn(s, b)
      BY <1>2, <3>1, OthersKeepTheirMask
    <3>3. MaskIn(new, b) = MaskIn(file[name], b)
      BY <3>2 DEF s
    <3> QED BY <1>6, <2>1, <3>3
  <2>2. CASE FileOf(b) # name
    BY <1>6, <2>2, OwnFile
  <2> QED BY <2>1, <2>2
<1>8. Touched \subseteq {asked.byte}
  BY <1>7 DEF Touched
<1> QED BY <1>1, <1>8 DEF TouchesItsByte

(* As long as no other program has changed the files, a save changes its   *)
(* own byte only, whichever pages save which bytes in whatever order.      *)
THEOREM OnlySelectedAloneAlways == Spec => OnlySelectedAlone
<1>1. ASSUME GlyphInv, Next, file' # file, outside' = 0 PROVE TouchesItsByte
  <2>1. ServerOK /\ PagesOK
    BY <1>1, GlyphInvParts
  <2>2. ~(\E p \in Pages : Loads(p) \/ User(p) \/ AnswerLost(p))
    BY <1>1 DEF Loads, User, Read, Loaded, NotLoaded, Edit, Submit, Reload, AnswerLost
  <2>3. ~Outside
    BY <1>1, <2>1, OutsideIsOK
  <2>4. PICK n \in 1..MaxSteps : ReadSource(n) \/ Write(n)
    BY <1>1, <2>2, <2>3 DEF Next, Server
  <2>5. Write(n)
    BY <1>1, <2>1, <2>4, ReadSourceIsOK
  <2> QED BY <1>1, <2>1, <2>5, WriteTouchesItsByte
<1>2. GlyphInv /\ [Next]_vars => [file' # file /\ outside' = 0 => TouchesItsByte]_vars
  BY <1>1
<1> QED BY <1>2, GlyphInvariance, PTL DEF Spec, OnlySelectedAlone
================================================================================
