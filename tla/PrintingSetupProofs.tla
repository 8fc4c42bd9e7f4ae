--------------------------- MODULE PrintingSetupProofs ---------------------------
(***************************************************************************)
(* Setting up printing.  The device probe, for every length of a model     *)
(* name and every number of unasked status frames, whatever bytes follow   *)
(* the first of each: what it verifies is genuine, and a healthy printer   *)
(* said so.  PrintingPackage, for every number of changes by other         *)
(* programs: what passed is right, what is opened was reviewed, and the    *)
(* outcome is told as it is.                                               *)
(***************************************************************************)
EXTENDS DeviceProbe, PrintingPackage, SequenceTheorems, TLAPS

--------------------------------------------------------------------------------
(* The device probe.  The bytes on their way to the reader are those of    *)
(* the chunk it looks at and those still on the wire.                      *)

pipe == buffer \o wire

(* The bytes of a frame follow its first one, which no answer contains.  A *)
(* position is clean as long as no such byte was read or comes before it;  *)
(* what stands there is the device's answer.                               *)
Framed   == \E n \in DOMAIN bytes : bytes[n] \in Headers
Clean(n) == ~Framed /\ n \in DOMAIN pipe /\ \A m \in 1..n : pipe[m] \notin Headers

FromDevice == {device.name, device.id, "5F", "00", "clear", "trouble", "other"}
OwnBytesOK ==
  /\ query > 1 => ~Framed
  /\ pc \in {"write", "read"} =>
       /\ \A n \in DOMAIN pipe : Clean(n) => pipe[n] \in FromDevice
       /\ Framed \/ \A n \in DOMAIN bytes : bytes[n] \in FromDevice

(* The probe goes on to the next query with what the last one showed.      *)
IdentityOK ==
  /\ query > 1 => device.name = "TM-U220"
  /\ query > 2 => device.id = "0D"
  /\ report.outcome = "verified" => query > 2

(* A status answer that can be taken for one is the answer to the query    *)
(* the probe is at: nobody is asked for another, and the device has not    *)
(* answered this one twice.                                                *)
StatusByte(byte) == byte \in {"clear", "trouble"}
StatusAt(n)      == Clean(n) /\ StatusByte(pipe[n])
NoStatusByte     == \A n \in DOMAIN pipe : ~StatusAt(n)
NoStatusAsked    == \A n \in DOMAIN asked : asked[n] \notin Statuses
Expects(q)       ==
  \/ /\ \E n \in DOMAIN asked :
          /\ asked[n] = q
          /\ \A m \in DOMAIN asked : asked[m] \in Statuses => m = n
     /\ NoStatusByte
  \/ /\ NoStatusAsked
     /\ \A n \in DOMAIN pipe :
          StatusAt(n) =>
            /\ pipe[n] = said[q]
            /\ \A m \in DOMAIN pipe : StatusAt(m) => m = n

AnswersOK ==
  \/ pc = "write" /\ NoStatusAsked /\ NoStatusByte
  \/ pc = "read" /\ Queries[query] \notin Statuses /\ NoStatusAsked /\ NoStatusByte
  \/ pc = "read" /\ Queries[query] \in Statuses /\ Expects(Queries[query])
  \/ pc \notin {"write", "read"} /\ (report.ready = "yes" => NoStatusAsked)

(* What the report says so far is what the device said so far.             *)
Cleared(n) == \A k \in 3..n : said[Queries[k]] = "clear"
ReadyOK ==
  /\ pc \in {"write", "read"} => report.ready \in {"unknown", "no"}
  /\ pc \in {"write", "read"} /\ report.ready = "unknown" => Cleared(query - 1)
  /\ report.ready = "yes" => Cleared(6)
  /\ healthy => report.ready = "yes" /\ pc = "done"

ProbeInv == ProbeTypeOK /\ OwnBytesOK /\ IdentityOK /\ AnswersOK /\ ReadyOK

LEMMA ProbeParts ==
  ProbeInv => ProbeTypeOK /\ OwnBytesOK /\ IdentityOK /\ AnswersOK /\ ReadyOK
  BY DEF ProbeInv

LEMMA Joined ==
  ASSUME NEW S, NEW s \in Seq(S), NEW t \in Seq(S)
  PROVE  /\ s \o t \in Seq(S) /\ Len(s \o t) = Len(s) + Len(t)
         /\ Len(s) \in Nat /\ Len(t) \in Nat /\ DOMAIN (s \o t) = 1..(Len(s) + Len(t))
         /\ \A n \in 1..Len(s) : (s \o t)[n] = s[n]
         /\ \A n \in 1..Len(t) : (s \o t)[Len(s) + n] = t[n]
  OBVIOUS

LEMMA Appended ==
  ASSUME NEW S, NEW s \in Seq(S), NEW e \in S
  PROVE  /\ Len(Append(s, e)) = Len(s) + 1 /\ Append(s, e)[Len(s) + 1] = e
         /\ \A n \in 1..Len(s) : Append(s, e)[n] = s[n]
  OBVIOUS

(* The name of a TM-U220, framed.                                          *)
Spelled(t) == Len(t) = 3 /\ t[1] = "5F" /\ t[2] = "TM-U220" /\ t[3] = "00"

LEMMA SpelledBytes ==
  ASSUME NEW S, NEW s \in Seq(S), NEW e \in S, Spelled(Append(s, e))
  PROVE  DOMAIN s = 1..2 /\ s[1] = "5F" /\ s[2] = "TM-U220" /\ e = "00"
<1> DEFINE t == Append(s, e)
<1>1. /\ Len(t) = Len(s) + 1 /\ t[Len(s) + 1] = e
      /\ \A n \in 1..Len(s) : t[n] = s[n]
  BY Appended
<1>2. Spelled(t)  OBVIOUS
<1> HIDE DEF t
<1>3. Len(t) = 3 /\ t[1] = "5F" /\ t[2] = "TM-U220" /\ t[3] = "00"  BY <1>2 DEF Spelled
<1>4. Len(s) \in Nat /\ DOMAIN s = 1..Len(s)  OBVIOUS
<1>5. Len(s) = 2
  <2> DEFINE n == Len(s)
  <2>1. n \in Nat /\ n + 1 = 3  BY <1>1, <1>3, <1>4
  <2> HIDE DEF n
  <2>2. n = 2  BY <2>1
  <2> QED BY <2>2 DEF n
<1>6. t[1] = s[1] /\ t[2] = s[2] /\ t[3] = e  BY <1>1, <1>5
<1> QED BY <1>3, <1>4, <1>5, <1>6

LEMMA PipeTyped ==
  ASSUME ProbeTypeOK
  PROVE  /\ pipe \in Seq(Bytes) /\ Len(pipe) = Len(buffer) + Len(wire)
         /\ \A n \in 1..Len(buffer) : pipe[n] = buffer[n]
         /\ \A n \in 1..Len(wire) : pipe[Len(buffer) + n] = wire[n]
  BY DEF ProbeTypeOK, pipe

(* A chunk that arrives stays in the pipe.                                 *)
LEMMA ArriveMoves == ASSUME ProbeTypeOK, Arrive PROVE pipe' = pipe /\ buffer' \in Seq(Bytes) /\ wire' \in Seq(Bytes)
<1>1. PICK n \in 1..Len(wire) : /\ buffer' = buffer \o SubSeq(wire, 1, n)
                                /\ wire' = SubSeq(wire, n + 1, Len(wire))
  BY DEF Arrive
<1>2. buffer \in Seq(Bytes) /\ wire \in Seq(Bytes) /\ Len(buffer) \in Nat /\ Len(wire) \in Nat
  BY DEF ProbeTypeOK
<1>3. /\ buffer' \in Seq(Bytes) /\ Len(buffer') = Len(buffer) + n
      /\ \A k \in 1..Len(buffer) : buffer'[k] = buffer[k]
      /\ \A k \in 1..n : buffer'[Len(buffer) + k] = wire[k]
  BY <1>1, <1>2
<1>4. /\ wire' \in Seq(Bytes) /\ Len(wire') = Len(wire) - n
      /\ \A k \in 1..(Len(wire) - n) : wire'[k] = wire[n + k]
  BY <1>1, <1>2
<1>5. /\ pipe' \in Seq(Bytes) /\ Len(pipe') = Len(buffer') + Len(wire')
      /\ \A k \in 1..Len(buffer') : pipe'[k] = buffer'[k]
      /\ \A k \in 1..Len(wire') : pipe'[Len(buffer') + k] = wire'[k]
  <2>1. buffer' \in Seq(Bytes) /\ wire' \in Seq(Bytes)  BY <1>3, <1>4
  <2> QED BY ONLY <2>1, Joined DEF pipe
<1>6. Len(pipe') = Len(pipe)
  <2>1. Len(buffer') = Len(buffer) + n /\ Len(wire') = Len(wire) - n  BY <1>3, <1>4
  <2>2. Len(pipe') = Len(buffer') + Len(wire')  BY <1>5
  <2> QED BY <1>2, <2>1, <2>2, PipeTyped
<1>7. ASSUME NEW k \in 1..Len(pipe) PROVE pipe'[k] = pipe[k]
  <2>1. CASE k <= Len(buffer)
    BY <1>2, <1>3, <1>5, <2>1, PipeTyped
  <2>2. CASE k > Len(buffer) /\ k <= Len(buffer) + n
    <3>1. k - Len(buffer) \in 1..n /\ k = Len(buffer) + (k - Len(buffer)) /\ k \in 1..Len(buffer')
      BY <1>2, <1>3, <2>2
    <3>2. pipe'[k] = buffer'[k]  BY <1>5, <3>1
    <3>3. buffer'[k] = wire[k - Len(buffer)]  BY <1>3, <3>1
    <3>4. k - Len(buffer) \in 1..Len(wire)  BY <1>2, <3>1
    <3>5. pipe[k] = wire[k - Len(buffer)]  BY <3>1, <3>4, PipeTyped
    <3> QED BY <3>2, <3>3, <3>5
  <2>3. CASE k > Len(buffer) + n
    <3> DEFINE i == k - Len(buffer) - n
    <3>1. /\ i \in 1..Len(wire') /\ k = Len(buffer') + i
          /\ n + i \in 1..Len(wire) /\ k = Len(buffer) + (n + i)
      BY <1>2, <1>3, <1>4, <2>3, PipeTyped
    <3> HIDE DEF i
    <3>2. pipe'[k] = wire'[i]  BY <1>5, <3>1
    <3>3. wire'[i] = wire[n + i]  BY <1>4, <3>1
    <3>4. pipe[k] = wire[n + i]  BY <3>1, PipeTyped
    <3> QED BY <3>2, <3>3, <3>4
  <2> QED BY <1>2, <2>1, <2>2, <2>3
<1>8. pipe' = pipe
  BY <1>5, <1>6, <1>7, PipeTyped, SeqEqual
<1> QED BY <1>3, <1>4, <1>8

(* The reader takes the first byte out of it.                              *)
LEMMA ReadTakes ==
  ASSUME ProbeTypeOK, buffer # <<>>, buffer' = Tail(buffer), wire' = wire
  PROVE  /\ Head(buffer) = pipe[1] /\ 1 \in DOMAIN pipe
         /\ buffer' \in Seq(Bytes) /\ pipe' \in Seq(Bytes)
         /\ DOMAIN pipe' = 1..(Len(pipe) - 1) /\ DOMAIN pipe = 1..Len(pipe) /\ Len(pipe) \in Nat
         /\ \A n \in DOMAIN pipe' : n + 1 \in DOMAIN pipe /\ pipe'[n] = pipe[n + 1]
<1>1. /\ buffer \in Seq(Bytes) /\ wire \in Seq(Bytes) /\ Len(buffer) \in Nat \ {0}
      /\ Len(wire) \in Nat /\ Head(buffer) = buffer[1]
  BY DEF ProbeTypeOK
<1>2. /\ buffer' \in Seq(Bytes) /\ Len(buffer') = Len(buffer) - 1
      /\ \A n \in 1..(Len(buffer) - 1) : buffer'[n] = buffer[n + 1]
  BY <1>1
<1>3. /\ pipe' \in Seq(Bytes) /\ Len(pipe') = Len(buffer) - 1 + Len(wire)
      /\ \A n \in 1..(Len(buffer) - 1) : pipe'[n] = buffer'[n]
      /\ \A n \in 1..Len(wire) : pipe'[Len(buffer) - 1 + n] = wire[n]
  BY <1>1, <1>2 DEF pipe
<1>4. ASSUME NEW n \in 1..(Len(pipe) - 1) PROVE pipe'[n] = pipe[n + 1]
  <2>1. CASE n <= Len(buffer) - 1
    BY <1>1, <1>2, <1>3, <2>1, PipeTyped
  <2>2. CASE n > Len(buffer) - 1
    <3> DEFINE i == n - (Len(buffer) - 1)
    <3>1. i \in 1..Len(wire) /\ n = Len(buffer) - 1 + i /\ n + 1 = Len(buffer) + i
      BY <1>1, <2>2, PipeTyped
    <3> HIDE DEF i
    <3> QED BY <1>3, <3>1, PipeTyped
  <2> QED BY <1>1, <2>1, <2>2
<1> QED BY <1>1, <1>2, <1>3, <1>4, PipeTyped

(* What the device sends comes last.                                       *)
LEMMA DeviceSends ==
  ASSUME ProbeTypeOK, NEW sent \in Seq(Bytes), wire' = wire \o sent, buffer' = buffer
  PROVE  /\ wire' \in Seq(Bytes) /\ pipe' \in Seq(Bytes)
         /\ DOMAIN pipe' = 1..(Len(pipe) + Len(sent)) /\ DOMAIN pipe = 1..Len(pipe)
         /\ Len(pipe) \in Nat /\ Len(sent) \in Nat
         /\ \A n \in 1..Len(pipe) : pipe'[n] = pipe[n]
         /\ \A n \in 1..Len(sent) : pipe'[Len(pipe) + n] = sent[n]
<1>1. buffer \in Seq(Bytes) /\ wire \in Seq(Bytes) /\ Len(buffer) \in Nat /\ Len(wire) \in Nat
  BY DEF ProbeTypeOK
<1>2. /\ wire' \in Seq(Bytes) /\ Len(wire') = Len(wire) + Len(sent)
      /\ \A n \in 1..Len(wire) : wire'[n] = wire[n]
      /\ \A n \in 1..Len(sent) : wire'[Len(wire) + n] = sent[n]
  BY <1>1
<1>3. /\ pipe' \in Seq(Bytes) /\ Len(pipe') = Len(buffer) + Len(wire')
      /\ \A n \in 1..Len(buffer) : pipe'[n] = buffer[n]
      /\ \A n \in 1..Len(wire') : pipe'[Len(buffer) + n] = wire'[n]
  BY <1>1, <1>2 DEF pipe
<1>4. ASSUME NEW n \in 1..Len(pipe) PROVE pipe'[n] = pipe[n]
  <2>1. CASE n <= Len(buffer)  BY <1>1, <1>3, <2>1, PipeTyped
  <2>2. CASE n > Len(buffer)
    <3> DEFINE i == n - Len(buffer)
    <3>1. i \in 1..Len(wire) /\ i \in 1..Len(wire') /\ n = Len(buffer) + i
      BY <1>1, <1>2, <2>2, PipeTyped
    <3> HIDE DEF i
    <3> QED BY <1>2, <1>3, <3>1, PipeTyped
  <2> QED BY <1>1, <2>1, <2>2
<1>5. ASSUME NEW n \in 1..Len(sent) PROVE pipe'[Len(pipe) + n] = sent[n]
  <2>1. Len(pipe) = Len(buffer) + Len(wire)  BY PipeTyped
  <2>2. Len(sent) \in Nat /\ Len(wire') = Len(wire) + Len(sent)  BY <1>2
  <2>3. Len(wire) + n \in 1..Len(wire') /\ Len(pipe) + n = Len(buffer) + (Len(wire) + n)
    BY <1>1, <2>1, <2>2
  <2>4. pipe'[Len(buffer) + (Len(wire) + n)] = wire'[Len(wire) + n]  BY <1>3, <2>3
  <2> QED BY <1>2, <2>3, <2>4
<1>6. /\ Len(pipe') = Len(pipe) + Len(sent) /\ Len(pipe) \in Nat /\ Len(sent) \in Nat
      /\ DOMAIN pipe = 1..Len(pipe) /\ DOMAIN pipe' = 1..Len(pipe')
  <2>1. Len(pipe) = Len(buffer) + Len(wire) /\ pipe \in Seq(Bytes)  BY PipeTyped
  <2>2. Len(wire') = Len(wire) + Len(sent) /\ Len(sent) \in Nat  BY <1>2
  <2>3. pipe' \in Seq(Bytes) /\ Len(pipe') = Len(buffer) + Len(wire')  BY <1>3
  <2> QED BY <1>1, <2>1, <2>2, <2>3
<1> QED BY <1>2, <1>3, <1>4, <1>5, <1>6

--------------------------------------------------------------------------------
(* The probe's queries and what it makes of an answer.                     *)

LEMMA QueriesAre ==
  /\ DOMAIN Queries = 1..6
  /\ Queries[1] = "modelName" /\ Queries[2] = "modelId"
  /\ \A k \in 1..6 : /\ Queries[k] \in Statuses <=> k > 2
                     /\ Queries[k] = "modelName" <=> k = 1
                     /\ Queries[k] = "modelId" <=> k = 2
  /\ \A j, k \in 1..6 : Queries[j] = Queries[k] => j = k
  /\ \A s \in Statuses : \E k \in 3..6 : s = Queries[k]
  /\ Len(Queries) = 6
  BY DEF Queries, Statuses

LEMMA ProbeFields ==
  ASSUME ProbeTypeOK
  PROVE  /\ device.name \in Names /\ device.id \in {"0D", "other"}
         /\ query \in 1..6 /\ bytes \in Seq(Bytes) /\ Len(bytes) \in Nat /\ Len(bytes) < Limit
         /\ report.outcome \in Outcomes /\ report.identity \in BOOLEAN
         /\ report.ready \in {"unknown", "yes", "no", "unavailable"}
         /\ report \in [outcome : Outcomes, identity : BOOLEAN,
                        ready : {"unknown", "yes", "no", "unavailable"}]
         /\ \A n \in DOMAIN asked : asked[n] \in {Queries[i] : i \in 1..6}
  BY QueriesAre DEF ProbeTypeOK

(* The probe gives up: what it reports is the way it ended.                *)
GivesUp(outcomes) ==
  /\ pc' = "close" /\ query' = query /\ bytes' = bytes
  /\ report' \in [outcome : outcomes, identity : BOOLEAN, ready : {report.ready, "unavailable"}]

LEMMA Fails ==
  ASSUME ProbeTypeOK, NEW how \in Outcomes, Fail(how)
  PROVE  GivesUp({how})
  BY ProbeFields DEF Fail, GivesUp

LEMMA TransportEnds ==
  ASSUME ProbeTypeOK, NEW error \in {"unreachable", "probe_error"}, TransportFails(error)
  PROVE  GivesUp(IF query > 2 THEN Outcomes ELSE Outcomes \ {"verified"})
<1> USE QueriesAre, ProbeFields
<1>1. ASSUME NEW how \in Outcomes \ {"verified"}, Fail(how)
      PROVE  GivesUp(IF query > 2 THEN Outcomes ELSE Outcomes \ {"verified"})
  BY <1>1 DEF Fail, GivesUp
<1>2. {"malformed_response", error} \subseteq Outcomes \ {"verified"}  BY DEF Outcomes
<1>3. CASE query = 1
  <2>1. Fail("malformed_response") \/ Fail(error)  BY <1>3 DEF TransportFails, Statuses
  <2> QED BY <1>1, <1>2, <2>1
<1>4. CASE query = 2
  <2>1. Fail("malformed_response") \/ Fail(error)  BY <1>4 DEF TransportFails, Statuses
  <2> QED BY <1>1, <1>2, <2>1
<1>5. CASE query > 2 /\ error = "probe_error"
  BY <1>1, <1>2, <1>5 DEF TransportFails
<1>6. CASE query > 2 /\ error = "unreachable"
  <2>1. /\ report' = [report EXCEPT !.outcome = "verified", !.ready = "unavailable"]
        /\ pc' = "close" /\ UNCHANGED <<query, bytes>>
    BY <1>6 DEF TransportFails
  <2> QED BY <1>6, <2>1 DEF GivesUp, Outcomes
<1> QED BY <1>3, <1>4, <1>5, <1>6

Reads    == query = 1 /\ Len(Append(bytes, pipe[1])) < Limit
            /\ bytes' = Append(bytes, pipe[1]) /\ UNCHANGED <<pc, query, report>>
GoesOn   == query' = query + 1 /\ pc' = "write" /\ bytes' = <<>>
Named    == query = 1 /\ bytes # <<>> /\ GoesOn /\ report' = report
            /\ Spelled(Append(bytes, pipe[1]))
Numbered == query = 2 /\ pipe[1] = "0D" /\ GoesOn /\ report' = [report EXCEPT !.identity = TRUE]
Judges(ready) == IF pipe[1] = "trouble" \/ report.ready = "no" THEN "no" ELSE ready
Answered == query \in 3..5 /\ StatusByte(pipe[1]) /\ GoesOn
            /\ report' = [report EXCEPT !.ready = Judges("unknown")]
Finishes == query = 6 /\ StatusByte(pipe[1]) /\ pc' = "close" /\ UNCHANGED <<query, bytes>>
            /\ report' = [report EXCEPT !.ready = Judges("yes"), !.outcome = "verified"]

LEMMA ReadJudges ==
  ASSUME ProbeTypeOK, Read
  PROVE  Reads \/ Named \/ Numbered \/ Answered \/ Finishes \/ GivesUp(Outcomes \ {"verified"})
<1> DEFINE byte == Head(buffer)
           s    == Append(bytes, byte)
           trailing == Tail(buffer) # <<>>
<1> USE QueriesAre, ProbeFields
<1>1. byte = pipe[1] /\ s = Append(bytes, pipe[1])  BY ReadTakes DEF Read
<1>2. \A how \in {"malformed_response", "wrong_device"} :
        Fail(how) => GivesUp(Outcomes \ {"verified"})
  BY DEF Fail, GivesUp, Outcomes
<1>3. /\ query = 1 => ReadName(s, trailing)
      /\ query = 2 => ReadId(byte, trailing)
      /\ query > 2 => ReadStatus(byte, trailing)
  <2>1. \/ Queries[query] = "modelName" /\ ReadName(s, trailing)
        \/ Queries[query] = "modelId" /\ ReadId(byte, trailing)
        \/ Queries[query] \in Statuses /\ ReadStatus(byte, trailing)
    BY ZenonT(30) DEF Read
  <2> HIDE DEF byte, s, trailing
  <2> QED BY <2>1
<1>4. CASE query = 1
  <2>1. Len(s) = Len(bytes) + 1 /\ Len(s) <= Limit /\ DOMAIN s = 1..Len(s)
    BY LimitAssumption
  <2>2. CASE s[Len(s)] # "00" /\ Len(s) < Limit
    BY <1>1, <1>3, <1>4, <2>1, <2>2 DEF ReadName, Reads
  <2>3. CASE s[Len(s)] # "00" /\ Len(s) = Limit
    BY <1>2, <1>3, <1>4, <2>1, <2>3 DEF ReadName
  <2>4. CASE s[Len(s)] = "00" /\ (~WellFramed(s) \/ trailing)
    BY <1>2, <1>3, <1>4, <2>4 DEF ReadName
  <2>5. CASE s[Len(s)] = "00" /\ WellFramed(s) /\ ~trailing
    <3>1. IF s = <<"5F", "TM-U220", "00">>
          THEN Advance /\ UNCHANGED report ELSE Fail("wrong_device")
      BY <1>3, <1>4, <2>5 DEF ReadName
    <3>2. CASE s = <<"5F", "TM-U220", "00">>
      <4> HIDE DEF s
      <4>1. Len(s) = 3 /\ s[2] = "TM-U220" /\ 2 \in DOMAIN s  BY <2>1, <3>2
      <4>2. bytes # <<>>  BY <2>1, <4>1
      <4>4. Spelled(s)  BY <3>2 DEF Spelled
      <4>3. GoesOn /\ report' = report  BY <3>1, <3>2 DEF Advance, GoesOn
      <4> QED BY <1>1, <1>4, <4>2, <4>3, <4>4 DEF Named
    <3>3. CASE s # <<"5F", "TM-U220", "00">>  BY <1>2, <3>1, <3>3
    <3> QED BY <3>2, <3>3
  <2>6. \/ s[Len(s)] # "00" /\ (Len(s) < Limit \/ Len(s) = Limit)
        \/ s[Len(s)] = "00" /\ ((~WellFramed(s) \/ trailing) \/ (WellFramed(s) /\ ~trailing))
    <3> HIDE DEF s, trailing
    <3> QED BY <2>1, LimitAssumption
  <2> HIDE DEF s, trailing
  <2> QED BY <2>2, <2>3, <2>4, <2>5, <2>6
<1>5. CASE query = 2
  BY <1>1, <1>2, <1>3, <1>5 DEF ReadId, Advance, Numbered, GoesOn
<1>6. CASE query > 2
  <2>1. CASE byte \notin {"clear", "trouble"} \/ trailing
    BY <1>2, <1>3, <1>6, <2>1 DEF ReadStatus
  <2>2. CASE byte \in {"clear", "trouble"} /\ ~trailing /\ query < 6
    BY <1>1, <1>3, <1>6, <2>2 DEF ReadStatus, Advance, Answered, GoesOn, StatusByte, Judges
  <2>3. CASE byte \in {"clear", "trouble"} /\ ~trailing /\ query = 6
    <3> DEFINE ready == IF byte = "trouble" \/ report.ready = "no" THEN "no" ELSE "yes"
    <3>1. /\ report' = [report EXCEPT !.ready = ready, !.outcome = "verified"]
          /\ pc' = "close" /\ UNCHANGED <<query, bytes>>
      BY <1>3, <1>6, <2>3 DEF ReadStatus
    <3>2. ready = Judges("yes")  BY <1>1 DEF Judges
    <3> HIDE DEF ready
    <3> QED BY <1>1, <2>3, <3>1, <3>2 DEF Finishes, StatusByte
  <2> QED BY <2>1, <2>2, <2>3
<1> QED BY <1>4, <1>5, <1>6

--------------------------------------------------------------------------------
(* The probe's steps.                                                      *)

(* Giving up keeps everything: no device is called ready that way.         *)
LEMMA GivingUpKeeps ==
  ASSUME ProbeInv, pc \in {"write", "read"},
         GivesUp(IF query > 2 THEN Outcomes ELSE Outcomes \ {"verified"}),
         buffer' \in Seq(Bytes), wire' \in Seq(Bytes),
         UNCHANGED <<device, asked, ended, child, healthy, said, frames>>
  PROVE  ProbeInv'
<1> USE ProbeParts, ProbeFields
<1>1. /\ report'.outcome \in Outcomes /\ report'.identity \in BOOLEAN
      /\ report'.ready \in {report.ready, "unavailable"}
      /\ report'.outcome = "verified" => query > 2
      /\ pc' = "close" /\ query' = query /\ bytes' = bytes
      /\ report' \in [outcome : Outcomes, identity : BOOLEAN,
                      ready : {"unknown", "yes", "no", "unavailable"}]
  BY DEF GivesUp
<1>2. ProbeTypeOK'  BY <1>1 DEF ProbeTypeOK
<1>3. OwnBytesOK'  BY <1>1 DEF OwnBytesOK, Framed
<1>4. IdentityOK'  BY <1>1 DEF IdentityOK
<1>5. report'.ready # "yes" /\ ~healthy
  BY <1>1 DEF ReadyOK
<1>6. AnswersOK'  BY <1>1, <1>5 DEF AnswersOK
<1>7. ReadyOK'  BY <1>1, <1>5 DEF ReadyOK
<1> QED BY <1>2, <1>3, <1>4, <1>6, <1>7 DEF ProbeInv

LEMMA WriteKeeps == ASSUME ProbeInv, Write PROVE ProbeInv'
<1> USE ProbeParts, ProbeFields
<1>1. CASE ended = "no"
  <2>1. /\ asked' = Append(asked, Queries[query]) /\ pc' = "read" /\ pc = "write"
        /\ UNCHANGED <<query, bytes, report, device, wire, buffer, ended, child, healthy, said, frames>>
        /\ pipe' = pipe
    BY <1>1 DEF Write, pipe
  <2>2. /\ asked \in Seq({Queries[i] : i \in DOMAIN Queries})
        /\ Queries[query] \in {Queries[i] : i \in DOMAIN Queries}
    BY QueriesAre DEF ProbeTypeOK
  <2>3. /\ asked' \in Seq({Queries[i] : i \in DOMAIN Queries})
        /\ DOMAIN asked' = 1..(Len(asked) + 1) /\ Len(asked) \in Nat
        /\ asked'[Len(asked) + 1] = Queries[query]
        /\ \A n \in 1..Len(asked) : n \in DOMAIN asked /\ asked'[n] = asked[n]
    BY <2>1, <2>2
  <2>4. ProbeTypeOK'  BY <2>1, <2>3 DEF ProbeTypeOK
  <2>5. OwnBytesOK' /\ IdentityOK'
    BY <2>1 DEF OwnBytesOK, IdentityOK, FromDevice, Framed, Clean
  <2>6. NoStatusAsked /\ NoStatusByte  BY <2>1 DEF AnswersOK
  <2>7. NoStatusByte'  BY <2>1, <2>6 DEF NoStatusByte, StatusAt, Framed, Clean
  <2>8. \A n \in 1..Len(asked) : asked'[n] \notin Statuses
    BY <2>3, <2>6 DEF NoStatusAsked
  <2>9. AnswersOK'
    <3>1. CASE Queries[query] \notin Statuses
      <4>1. NoStatusAsked'
        BY <2>3, <2>8, <3>1 DEF NoStatusAsked
      <4> QED BY <2>1, <2>7, <3>1, <4>1 DEF AnswersOK
    <3>2. CASE Queries[query] \in Statuses
      <4>1. Expects(Queries[query])'
        BY <2>1, <2>3, <2>7, <2>8 DEF Expects
      <4> QED BY <2>1, <3>2, <4>1 DEF AnswersOK
    <3> QED BY <3>1, <3>2
  <2>10. ReadyOK'  BY <2>1 DEF ReadyOK, Cleared
  <2> QED BY <2>4, <2>5, <2>9, <2>10 DEF ProbeInv
<1>2. CASE ended # "no"
  <2>1. /\ ended \in {"unreachable", "probe_error"} /\ TransportFails(ended)
        /\ UNCHANGED <<device, asked, wire, buffer, ended, child, healthy, said, frames>>
        /\ pc = "write" /\ pipe' = pipe
    BY <1>2 DEF Write, ProbeTypeOK, pipe
  <2>2. buffer' \in Seq(Bytes) /\ wire' \in Seq(Bytes)  BY <2>1 DEF ProbeTypeOK
  <2> QED BY <2>1, <2>2, TransportEnds, GivingUpKeeps
<1> QED BY <1>1, <1>2

LEMMA TimeoutKeeps == ASSUME ProbeInv, Timeout PROVE ProbeInv'
<1> USE ProbeParts, ProbeFields
<1> DEFINE error == IF ended = "no" THEN "unreachable" ELSE ended
<1>1. /\ error \in {"unreachable", "probe_error"} /\ TransportFails(error)
      /\ UNCHANGED <<device, asked, wire, buffer, ended, child, healthy, said, frames>>
      /\ pc = "read" /\ pipe' = pipe
  BY DEF Timeout, ProbeTypeOK, pipe, connection
<1>2. buffer' \in Seq(Bytes) /\ wire' \in Seq(Bytes)  BY <1>1 DEF ProbeTypeOK
<1> HIDE DEF error
<1> QED BY <1>1, <1>2, TransportEnds, GivingUpKeeps

LEMMA CloseKeeps == ASSUME ProbeInv, Close PROVE ProbeInv'
<1> USE ProbeParts, ProbeFields
<1>1. /\ pc \in {"close", "term", "kill"} /\ pc' \in {"term", "kill", "report"}
      /\ UNCHANGED <<device, asked, wire, buffer, ended, child, query, bytes, report, healthy,
                     said, frames>>
      /\ pipe' = pipe
  BY DEF Close, connection, pipe
<1>2. ProbeTypeOK'  BY <1>1 DEF ProbeTypeOK
<1>3. OwnBytesOK' /\ IdentityOK'  BY <1>1 DEF OwnBytesOK, IdentityOK, Framed
<1>4. AnswersOK'  BY <1>1 DEF AnswersOK, NoStatusAsked
<1>5. ReadyOK'  BY <1>1 DEF ReadyOK, Cleared
<1> QED BY <1>2, <1>3, <1>4, <1>5 DEF ProbeInv

LEMMA ReportKeeps == ASSUME ProbeInv, Report PROVE ProbeInv'
<1> USE ProbeParts, ProbeFields
<1>1. /\ pc = "report" /\ pc' = "done"
      /\ UNCHANGED <<device, asked, wire, buffer, ended, child, query, bytes, report, said, frames>>
      /\ pipe' = pipe /\ healthy' \in BOOLEAN /\ (healthy' => report.ready = "yes")
  BY DEF Report, MarkDevice, connection, pipe
<1>2. ProbeTypeOK'  BY <1>1 DEF ProbeTypeOK
<1>3. OwnBytesOK' /\ IdentityOK'  BY <1>1 DEF OwnBytesOK, IdentityOK, Framed
<1>4. AnswersOK'  BY <1>1 DEF AnswersOK, NoStatusAsked
<1>5. ReadyOK'  BY <1>1 DEF ReadyOK, Cleared
<1> QED BY <1>2, <1>3, <1>4, <1>5 DEF ProbeInv

LEMMA Seen ==
  ASSUME ProbeInv, Read
  PROVE  /\ pc = "read" /\ buffer # <<>>
         /\ UNCHANGED <<device, asked, wire, ended, child, healthy, said, frames>>
         /\ buffer' \in Seq(Bytes) /\ wire' \in Seq(Bytes)
         /\ 1 \in DOMAIN pipe
         /\ \A n \in DOMAIN pipe' : n + 1 \in DOMAIN pipe /\ pipe'[n] = pipe[n + 1]
         /\ FromDevice' = FromDevice
         /\ \A n \in DOMAIN pipe' : n \in Nat /\ n # 0
         /\ Clean(1) => pipe[1] \in FromDevice
<1>1. buffer # <<>> /\ buffer' = Tail(buffer) /\ wire' = wire  BY DEF Read
<1>2. ProbeTypeOK /\ OwnBytesOK  BY ProbeParts
<1>3. /\ 1 \in DOMAIN pipe /\ buffer' \in Seq(Bytes) /\ Len(pipe) \in Nat
      /\ DOMAIN pipe' = 1..(Len(pipe) - 1)
      /\ \A n \in DOMAIN pipe' : n + 1 \in DOMAIN pipe /\ pipe'[n] = pipe[n + 1]
  BY <1>1, <1>2, ReadTakes
<1>4. \A n \in DOMAIN pipe' : n \in Nat /\ n # 0  BY <1>3
<1>5. /\ UNCHANGED <<device, asked, wire, ended, child, healthy, said, frames>>
      /\ pc = "read" /\ FromDevice' = FromDevice
  BY DEF Read, FromDevice
<1> QED BY <1>1, <1>2, <1>3, <1>4, <1>5 DEF OwnBytesOK, ProbeTypeOK

(* The bytes that stay are as clean as they were, if the one taken is not  *)
(* the first of a frame.                                                   *)
LEMMA StaysClean ==
  ASSUME ProbeInv, Read, ~Framed, pipe[1] \notin Headers, NEW n \in DOMAIN pipe', Clean(n)'
  PROVE  Clean(n + 1) /\ n + 1 \in DOMAIN pipe /\ pipe'[n] = pipe[n + 1]
<1>1. \A m \in DOMAIN pipe' : m + 1 \in DOMAIN pipe /\ pipe'[m] = pipe[m + 1]  BY Seen
<1>2. DOMAIN pipe' = 1..(Len(pipe) - 1) /\ Len(pipe) \in Nat
  BY ProbeParts, ReadTakes DEF Read
<1>3. ASSUME NEW m \in 1..(n + 1) PROVE pipe[m] \notin Headers
  <2>1. CASE m = 1  BY <2>1
  <2>2. CASE m # 1
    <3>1. m - 1 \in 1..n /\ m - 1 \in DOMAIN pipe' /\ (m - 1) + 1 = m  BY <1>2, <2>2
    <3>2. pipe'[m - 1] \notin Headers  BY <3>1 DEF Clean, Headers
    <3> QED BY <1>1, <3>1, <3>2
  <2> QED BY <2>1, <2>2
<1> QED BY <1>1, <1>3 DEF Clean

LEMMA NoneLeft ==
  ASSUME ProbeInv, Read, NoStatusByte, ~Framed, pipe[1] \notin Headers PROVE NoStatusByte'
<1> SUFFICES ASSUME NEW n \in DOMAIN pipe', StatusAt(n)' PROVE FALSE  BY DEF NoStatusByte
<1>1. StatusAt(n + 1) /\ n + 1 \in DOMAIN pipe
  BY StaysClean DEF StatusAt, StatusByte
<1> QED BY <1>1 DEF NoStatusByte

(* The byte read for a status query is the device's answer to it, and the  *)
(* only one.                                                               *)
LEMMA AnswerRead ==
  ASSUME ProbeInv, Read, query > 2, StatusByte(pipe[1])
  PROVE  /\ NoStatusAsked /\ NoStatusByte' /\ said[Queries[query]] = pipe[1]
<1>1. query \in 1..6 /\ Queries[query] \in Statuses
  BY ProbeParts, ProbeFields, QueriesAre
<1>2. Expects(Queries[query])  BY <1>1, ProbeParts, Seen DEF AnswersOK
<1>3. ~Framed  BY <1>1, ProbeParts DEF OwnBytesOK
<1>4. pipe[1] \notin Headers  BY DEF StatusByte, Headers
<1>5. StatusAt(1)  BY <1>3, <1>4, Seen DEF StatusAt, Clean
<1>6. /\ NoStatusAsked /\ said[Queries[query]] = pipe[1]
      /\ \A m \in DOMAIN pipe : StatusAt(m) => m = 1
  BY <1>2, <1>5, Seen DEF Expects, NoStatusByte
<1>7. ASSUME NEW n \in DOMAIN pipe', StatusAt(n)' PROVE FALSE
  <2>1. n + 1 \in DOMAIN pipe /\ StatusAt(n + 1)
    BY <1>3, <1>4, <1>7, StaysClean DEF StatusAt, StatusByte
  <2>2. n + 1 # 1  BY Seen
  <2> QED BY <1>6, <2>1, <2>2
<1> QED BY <1>6, <1>7 DEF NoStatusByte

LEMMA ReadsKeeps == ASSUME ProbeInv, Read, Reads PROVE ProbeInv'
<1> USE ProbeParts, ProbeFields, Seen
<1>1. /\ query = 1 /\ bytes' = Append(bytes, pipe[1]) /\ Len(Append(bytes, pipe[1])) < Limit
      /\ UNCHANGED <<pc, query, report>>
  BY DEF Reads
<1>2. pipe[1] \in Bytes  BY PipeTyped
<1>3. /\ bytes' \in Seq(Bytes) /\ Len(bytes') < Limit /\ DOMAIN bytes' = 1..(Len(bytes) + 1)
      /\ bytes'[Len(bytes) + 1] = pipe[1] /\ DOMAIN bytes = 1..Len(bytes)
      /\ \A n \in 1..Len(bytes) : bytes'[n] = bytes[n]
  BY <1>1, <1>2
<1>4. ProbeTypeOK'  BY <1>1, <1>3 DEF ProbeTypeOK
<1>5. Framed' \/ (~Framed /\ pipe[1] \notin Headers)
  BY <1>3 DEF Framed, Headers
<1>6. IdentityOK'  BY <1>1 DEF IdentityOK
<1>11. OwnBytesOK'
  <2>1. CASE Framed'
    BY <1>1, <2>1 DEF OwnBytesOK, Clean
  <2>2. CASE ~Framed /\ pipe[1] \notin Headers
    <3>1. \A n \in DOMAIN bytes : bytes[n] \in FromDevice  BY <2>2 DEF OwnBytesOK
    <3>2. pipe[1] \in FromDevice  BY <2>2 DEF Clean
    <3>3. \A n \in DOMAIN bytes' : bytes'[n] \in FromDevice  BY <1>3, <3>1, <3>2
    <3>4. ASSUME NEW n \in DOMAIN pipe', Clean(n)' PROVE pipe'[n] \in FromDevice
      BY <2>2, <3>4, StaysClean DEF OwnBytesOK
    <3> QED BY <1>1, <3>3, <3>4 DEF OwnBytesOK
  <2> QED BY <1>5, <2>1, <2>2
<1>7. Queries[query] \notin Statuses /\ NoStatusAsked /\ NoStatusByte
  BY <1>1, QueriesAre DEF AnswersOK
<1>8. NoStatusByte' /\ NoStatusAsked'
  <2>1. CASE Framed'  BY <1>7, <2>1 DEF NoStatusAsked, NoStatusByte, StatusAt, Clean
  <2> QED BY <1>5, <1>7, <2>1, NoneLeft DEF NoStatusAsked
<1>9. AnswersOK'  BY <1>1, <1>7, <1>8 DEF AnswersOK
<1>10. ReadyOK'  BY <1>1 DEF ReadyOK, Cleared
<1> QED BY <1>4, <1>6, <1>9, <1>10, <1>11 DEF ProbeInv

(* The next query is written only when nothing is left of the last one.    *)
LEMMA NextQuery ==
  ASSUME ProbeInv, Read, GoesOn, query < 6, IdentityOK', NoStatusAsked, NoStatusByte',
         ~Framed, pipe[1] \notin Headers,
         report' \in [outcome : Outcomes, identity : BOOLEAN, ready : {"unknown", "no"}],
         report'.ready = "unknown" => Cleared(query)
  PROVE  ProbeInv'
<1> USE ProbeParts, ProbeFields, Seen
<1>1. query' = query + 1 /\ query' \in 1..6 /\ pc' = "write" /\ bytes' = <<>> /\ query' - 1 = query
  BY DEF GoesOn
<1>2. ProbeTypeOK'  BY <1>1, QueriesAre, LimitAssumption DEF ProbeTypeOK
<1>3. OwnBytesOK'
  <2>1. ASSUME NEW n \in DOMAIN pipe', Clean(n)' PROVE pipe'[n] \in FromDevice
    BY <2>1, StaysClean DEF OwnBytesOK
  <2>2. DOMAIN bytes' = {}  BY <1>1
  <2> QED BY <2>1, <2>2 DEF OwnBytesOK, Framed
<1>4. NoStatusAsked'  BY DEF NoStatusAsked
<1>5. AnswersOK'  BY <1>1, <1>4 DEF AnswersOK
<1>6. report'.ready \in {"unknown", "no"} /\ ~healthy  BY DEF ReadyOK
<1>7. ReadyOK'  BY <1>1, <1>6 DEF ReadyOK, Cleared
<1> QED BY <1>2, <1>3, <1>5, <1>7 DEF ProbeInv

LEMMA ReadKeeps == ASSUME ProbeInv, Read PROVE ProbeInv'
<1> USE ProbeParts, ProbeFields, Seen
<1>0. report.ready \in {"unknown", "no"}  BY DEF ReadyOK
<1>1. CASE Reads  BY <1>1, ReadsKeeps
<1>2. CASE Named
  <2>1. query = 1 /\ GoesOn /\ query' = 2 /\ report' = report  BY <1>2 DEF Named, GoesOn
  <2>2. /\ ~Framed /\ pipe[1] \notin Headers
        /\ \E n \in DOMAIN bytes : bytes[n] = "TM-U220"
    <3>1. Spelled(Append(bytes, pipe[1]))  BY <1>2 DEF Named
    <3>3. bytes \in Seq(Bytes) /\ pipe[1] \in Bytes  BY PipeTyped
    <3>2. /\ DOMAIN bytes = 1..2 /\ bytes[1] = "5F" /\ bytes[2] = "TM-U220"
          /\ pipe[1] = "00"
      BY <3>1, <3>3, SpelledBytes
    <3> QED BY <3>2 DEF Framed, Headers
  <2>7. device.name = "TM-U220"
    <3>1. "TM-U220" \in FromDevice  BY <2>2 DEF OwnBytesOK
    <3> QED BY <3>1 DEF FromDevice
  <2>3. IdentityOK'  BY <2>1, <2>7 DEF IdentityOK
  <2>4. NoStatusAsked /\ NoStatusByte'
    <3>1. NoStatusAsked /\ NoStatusByte  BY <2>1, QueriesAre DEF AnswersOK
    <3> QED BY <2>2, <3>1, NoneLeft
  <2>5. Cleared(query)  BY <2>1 DEF Cleared
  <2> QED BY <1>0, <2>1, <2>2, <2>3, <2>4, <2>5, NextQuery
<1>3. CASE Numbered
  <2>1. /\ query = 2 /\ pipe[1] = "0D" /\ GoesOn /\ query' = 3
        /\ report' = [report EXCEPT !.identity = TRUE]
    BY <1>3 DEF Numbered, GoesOn
  <2>7. ~Framed /\ pipe[1] \notin Headers  BY <2>1 DEF OwnBytesOK, Headers
  <2>2. device.id = "0D"
    <3>1. Clean(1)  BY <2>7 DEF Clean
    <3> QED BY <2>1, <3>1 DEF FromDevice, Names
  <2>3. /\ report'.outcome = report.outcome /\ report'.ready = report.ready
        /\ report' \in [outcome : Outcomes, identity : BOOLEAN, ready : {"unknown", "no"}]
    BY <1>0, <2>1
  <2>4. IdentityOK'  BY <2>1, <2>2, <2>3 DEF IdentityOK
  <2>5. NoStatusAsked /\ NoStatusByte'
    <3>1. NoStatusAsked /\ NoStatusByte  BY <2>1, QueriesAre DEF AnswersOK
    <3> QED BY <2>7, <3>1, NoneLeft
  <2>6. Cleared(query)  BY <2>1 DEF Cleared
  <2> QED BY <2>1, <2>3, <2>4, <2>5, <2>6, <2>7, NextQuery
<1>4. CASE Answered
  <2>1. /\ query \in 3..5 /\ StatusByte(pipe[1]) /\ GoesOn /\ query' = query + 1
        /\ report' = [report EXCEPT !.ready = Judges("unknown")]
    BY <1>4 DEF Answered, GoesOn
  <2>2. NoStatusAsked /\ NoStatusByte' /\ said[Queries[query]] = pipe[1]
    BY <2>1, AnswerRead
  <2>3. /\ report'.outcome = report.outcome
        /\ report' \in [outcome : Outcomes, identity : BOOLEAN, ready : {"unknown", "no"}]
        /\ report'.ready = "unknown" => pipe[1] # "trouble" /\ report.ready = "unknown"
    BY <1>0, <2>1 DEF Judges
  <2>4. IdentityOK'  BY <2>1, <2>3 DEF IdentityOK
  <2>5. report'.ready = "unknown" => Cleared(query)
    BY <2>1, <2>2, <2>3 DEF ReadyOK, Cleared, StatusByte
  <2>6. ~Framed /\ pipe[1] \notin Headers  BY <2>1 DEF OwnBytesOK, StatusByte, Headers
  <2> QED BY <2>1, <2>2, <2>3, <2>4, <2>5, <2>6, NextQuery
<1>5. CASE Finishes
  <2>1. /\ query = 6 /\ StatusByte(pipe[1]) /\ pc' = "close" /\ UNCHANGED <<query, bytes>>
        /\ report' = [report EXCEPT !.ready = Judges("yes"), !.outcome = "verified"]
    BY <1>5 DEF Finishes
  <2>2. NoStatusAsked /\ said[Queries[query]] = pipe[1]
    BY <2>1, AnswerRead
  <2>3. /\ report' \in [outcome : Outcomes, identity : BOOLEAN,
                        ready : {"unknown", "yes", "no", "unavailable"}]
        /\ report'.ready = "yes" => pipe[1] # "trouble" /\ report.ready = "unknown"
    BY <1>0, <2>1 DEF Judges, Outcomes
  <2>4. ProbeTypeOK'  BY <2>1, <2>3 DEF ProbeTypeOK
  <2>5. OwnBytesOK'  BY <2>1 DEF OwnBytesOK, Framed
  <2>6. IdentityOK'  BY <2>1 DEF IdentityOK
  <2>7. AnswersOK'  BY <2>1, <2>2 DEF AnswersOK, NoStatusAsked
  <2>8. report'.ready = "yes" => Cleared(6)
    BY <2>1, <2>2, <2>3 DEF ReadyOK, Cleared, StatusByte
  <2>9. ReadyOK'  BY <2>1, <2>8 DEF ReadyOK, Cleared
  <2> QED BY <2>4, <2>5, <2>6, <2>7, <2>9 DEF ProbeInv
<1>6. CASE GivesUp(Outcomes \ {"verified"})
  <2>1. GivesUp(IF query > 2 THEN Outcomes ELSE Outcomes \ {"verified"})
    BY <1>6 DEF GivesUp
  <2> QED BY <2>1, GivingUpKeeps
<1> QED BY <1>1, <1>2, <1>3, <1>4, <1>5, <1>6, ReadJudges

--------------------------------------------------------------------------------
(* What the device and netcat do to the probe.                             *)

LEMMA Replies ==
  ASSUME ProbeTypeOK, NEW q \in {Queries[i] : i \in 1..6}, NEW reply \in Reply(q)
  PROVE  /\ reply \in Seq(Bytes) /\ Len(reply) \in Nat /\ DOMAIN reply = 1..Len(reply)
         /\ \A n \in DOMAIN reply : reply[n] \in FromDevice
         /\ q \notin Statuses => \A n \in DOMAIN reply : ~StatusByte(reply[n])
         /\ q \in Statuses => Len(reply) = 1 /\ reply[1] \in {"clear", "trouble", "other"}
<1> USE QueriesAre, ProbeFields DEF FromDevice, Bytes, Names, StatusByte
<1>1. CASE q = "modelName"
  <2>1. reply \in {<<"5F", device.name, "00">>, <<"5F", device.name>>,
                   <<device.name, device.name, device.name, device.name>>}
    BY <1>1 DEF Reply
  <2>2. CASE reply = <<"5F", device.name, "00">>  BY <1>1, <2>2
  <2>3. CASE reply = <<"5F", device.name>>  BY <1>1, <2>3
  <2>4. CASE reply = <<device.name, device.name, device.name, device.name>>  BY <1>1, <2>4
  <2> QED BY <2>1, <2>2, <2>3, <2>4
<1>2. CASE q = "modelId"
  <2>1. reply = <<device.id>>  BY <1>2 DEF Reply
  <2> QED BY <1>2, <2>1
<1>3. CASE q \in Statuses
  <2>1. reply \in {<<"clear">>, <<"trouble">>, <<"other">>}
    <3>1. q # "modelName" /\ q # "modelId"  BY <1>3 DEF Statuses
    <3>2. Reply(q) = {<<"clear">>, <<"trouble">>, <<"other">>}
      BY ONLY <1>3, <3>1 DEF Reply
    <3> QED BY <3>2
  <2>2. CASE reply = <<"clear">>  BY <1>3, <2>2
  <2>3. CASE reply = <<"trouble">>  BY <1>3, <2>3
  <2>4. CASE reply = <<"other">>  BY <1>3, <2>4
  <2> QED BY <2>1, <2>2, <2>3, <2>4
<1> QED BY <1>1, <1>2, <1>3

(* Where bytes are, and which of them are clean, after the device has sent  *)
(* something.                                                              *)
LEMMA SentBytes ==
  ASSUME ProbeTypeOK, NEW sent \in Seq(Bytes), wire' = wire \o sent, buffer' = buffer
  PROVE  /\ \A n \in DOMAIN pipe' :
              \/ n \in DOMAIN pipe /\ pipe'[n] = pipe[n]
              \/ \E k \in 1..Len(sent) : n = Len(pipe) + k /\ pipe'[n] = sent[k]
         /\ \A n \in DOMAIN pipe : n <= Len(pipe)
         /\ Len(pipe) \in Nat
<1>1. /\ DOMAIN pipe' = 1..(Len(pipe) + Len(sent)) /\ DOMAIN pipe = 1..Len(pipe)
      /\ Len(pipe) \in Nat /\ Len(sent) \in Nat
      /\ \A n \in 1..Len(pipe) : pipe'[n] = pipe[n]
      /\ \A n \in 1..Len(sent) : pipe'[Len(pipe) + n] = sent[n]
  BY DeviceSends
<1>2. ASSUME NEW n \in DOMAIN pipe', n > Len(pipe)
      PROVE  \E k \in 1..Len(sent) : n = Len(pipe) + k /\ pipe'[n] = sent[k]
  <2>1. n - Len(pipe) \in 1..Len(sent) /\ n = Len(pipe) + (n - Len(pipe))  BY <1>1, <1>2
  <2> QED BY <1>1, <2>1
<1>3. ASSUME NEW n \in DOMAIN pipe', ~(n > Len(pipe))
      PROVE  n \in DOMAIN pipe /\ pipe'[n] = pipe[n]
  <2>1. n \in 1..Len(pipe)  BY <1>1, <1>3
  <2> QED BY <1>1, <2>1
<1>4. \A n \in DOMAIN pipe : n <= Len(pipe)  BY <1>1
<1> QED BY <1>1, <1>2, <1>3, <1>4

LEMMA SentClean ==
  ASSUME ProbeTypeOK, NEW sent \in Seq(Bytes), wire' = wire \o sent, buffer' = buffer,
         bytes' = bytes, NEW n \in DOMAIN pipe', Clean(n)'
  PROVE  \/ n \in DOMAIN pipe /\ Clean(n) /\ pipe'[n] = pipe[n]
         \/ /\ \E k \in 1..Len(sent) : n = Len(pipe) + k /\ pipe'[n] = sent[k]
            /\ sent[1] \notin Headers
<1>1. /\ DOMAIN pipe' = 1..(Len(pipe) + Len(sent)) /\ DOMAIN pipe = 1..Len(pipe)
      /\ Len(pipe) \in Nat /\ Len(sent) \in Nat
      /\ \A m \in 1..Len(pipe) : pipe'[m] = pipe[m]
      /\ \A m \in 1..Len(sent) : pipe'[Len(pipe) + m] = sent[m]
  BY DeviceSends
<1>2. ~Framed /\ \A m \in 1..n : pipe'[m] \notin Headers
  BY DEF Clean, Framed, Headers
<1>3. CASE n \in DOMAIN pipe
  <2>1. \A m \in 1..n : m \in 1..Len(pipe)  BY <1>1, <1>3
  <2> QED BY <1>1, <1>2, <1>3, <2>1 DEF Clean
<1>4. CASE n \notin DOMAIN pipe
  <2>1. n - Len(pipe) \in 1..Len(sent) /\ n = Len(pipe) + (n - Len(pipe))  BY <1>1, <1>4
  <2>2. 1 \in 1..Len(sent) /\ Len(pipe) + 1 \in 1..n  BY <1>1, <2>1
  <2>3. pipe'[Len(pipe) + 1] = sent[1]  BY <1>1, <2>2
  <2> QED BY <1>1, <1>2, <2>1, <2>2, <2>3
<1> QED BY <1>3, <1>4

(* The device sends bytes; the answer to a status query counts as said.    *)
LEMMA SentKeeps ==
  ASSUME ProbeInv, NEW sent \in Seq(Bytes),
         sent[1] \notin Headers => \A n \in 1..Len(sent) : sent[n] \in FromDevice,
         wire' = wire \o sent,
         UNCHANGED <<device, buffer, ended, child, pc, query, bytes, report, healthy>>,
         frames' \in 0..MaxAsb,
         asked' \in Seq({Queries[i] : i \in DOMAIN Queries}),
         said' \in [Statuses -> {"nothing", "clear", "trouble", "other"}],
         AnswersOK', ReadyOK'
  PROVE  ProbeInv'
<1> USE ProbeParts
<1>1. /\ wire' \in Seq(Bytes)
      /\ DOMAIN pipe' = 1..(Len(pipe) + Len(sent)) /\ DOMAIN pipe = 1..Len(pipe)
      /\ Len(pipe) \in Nat /\ Len(sent) \in Nat
      /\ \A n \in 1..Len(pipe) : pipe'[n] = pipe[n]
      /\ \A n \in 1..Len(sent) : pipe'[Len(pipe) + n] = sent[n]
  BY DeviceSends
<1>2. ProbeTypeOK'  BY <1>1 DEF ProbeTypeOK
<1>3. ASSUME pc \in {"write", "read"}, NEW n \in DOMAIN pipe', Clean(n)'
      PROVE  pipe'[n] \in FromDevice
  BY <1>3, SentClean DEF OwnBytesOK
<1>4. OwnBytesOK'
  <2>1. FromDevice' = FromDevice /\ Framed' = Framed  BY DEF FromDevice, Framed
  <2> QED BY <1>3, <2>1 DEF OwnBytesOK
<1>5. IdentityOK'  BY DEF IdentityOK
<1> QED BY <1>2, <1>4, <1>5 DEF ProbeInv

LEMMA AnswerKeeps == ASSUME ProbeInv, Answer PROVE ProbeInv'
<1> USE ProbeParts, ProbeFields
<1> DEFINE q == Head(asked)
<1>1. asked \in Seq({Queries[i] : i \in DOMAIN Queries}) /\ asked # <<>> /\ asked' = Tail(asked)
  BY DEF ProbeTypeOK, Answer
<1>2. /\ q = asked[1] /\ 1 \in DOMAIN asked /\ q \in {Queries[i] : i \in 1..6}
      /\ asked' \in Seq({Queries[i] : i \in DOMAIN Queries})
      /\ \A n \in DOMAIN asked' : n + 1 \in DOMAIN asked /\ asked'[n] = asked[n + 1] /\ n \in Nat /\ n # 0
      /\ \A n \in DOMAIN asked : n # 1 => n - 1 \in DOMAIN asked' /\ n \in Int
  BY <1>1, QueriesAre
<1>3. PICK reply \in Reply(q) :
        /\ wire' = wire \o reply
        /\ said' = IF q \in Statuses THEN [said EXCEPT ![q] = reply[1]] ELSE said
  BY DEF Answer
<1>4. UNCHANGED <<device, buffer, ended, child, pc, query, bytes, report, healthy, frames>>
  BY DEF Answer
<1> HIDE DEF q
<1>5. /\ reply \in Seq(Bytes) /\ Len(reply) \in Nat /\ DOMAIN reply = 1..Len(reply)
      /\ \A n \in 1..Len(reply) : reply[n] \in FromDevice
      /\ q \notin Statuses => \A n \in 1..Len(reply) : ~StatusByte(reply[n])
      /\ q \in Statuses => Len(reply) = 1 /\ reply[1] \in {"clear", "trouble", "other"}
  BY <1>2, Replies
<1>6. said \in [Statuses -> {"nothing", "clear", "trouble", "other"}]
  BY DEF ProbeTypeOK
<1>7. /\ said' \in [Statuses -> {"nothing", "clear", "trouble", "other"}]
      /\ q \notin Statuses => said' = said
      /\ \A s \in Statuses : s # q => said'[s] = said[s]
      /\ q \in Statuses => said'[q] = reply[1]
  BY <1>3, <1>5, <1>6
<1>8. /\ \A n \in DOMAIN pipe' :
           \/ n \in DOMAIN pipe /\ pipe'[n] = pipe[n]
           \/ \E k \in 1..Len(reply) : n = Len(pipe) + k /\ pipe'[n] = reply[k]
      /\ \A n \in DOMAIN pipe : n <= Len(pipe)
      /\ Len(pipe) \in Nat
  BY <1>3, <1>4, <1>5, SentBytes
<1>9. NoStatusAsked => NoStatusAsked' /\ q \notin Statuses
  BY <1>2 DEF NoStatusAsked
<1>14. ASSUME NEW n \in DOMAIN pipe', StatusAt(n)'
       PROVE  \/ n \in DOMAIN pipe /\ StatusAt(n) /\ pipe'[n] = pipe[n]
              \/ \E k \in 1..Len(reply) : n = Len(pipe) + k /\ pipe'[n] = reply[k]
                                         /\ StatusByte(reply[k])
  BY <1>3, <1>4, <1>5, <1>14, SentClean DEF StatusAt, StatusByte
<1>10. q \notin Statuses /\ NoStatusByte => NoStatusByte'
  BY <1>5, <1>14 DEF NoStatusByte
<1>11. ASSUME NEW s \in Statuses, Expects(s) PROVE Expects(s)' /\ (q \in Statuses => q = s)
  <2>1. CASE /\ \E n \in DOMAIN asked :
                  /\ asked[n] = s
                  /\ \A m \in DOMAIN asked : asked[m] \in Statuses => m = n
             /\ NoStatusByte
    <3>1. PICK n \in DOMAIN asked :
            asked[n] = s /\ \A m \in DOMAIN asked : asked[m] \in Statuses => m = n
      BY <2>1
    <3>2. CASE n = 1
      <4>1. q = s /\ NoStatusAsked'
        BY <1>2, <3>1, <3>2 DEF NoStatusAsked
      <4>2. \A k \in 1..Len(reply) : k = 1  BY <1>5, <4>1
      <4>3. \A k \in DOMAIN pipe' :
              StatusAt(k)' => k = Len(pipe) + 1 /\ pipe'[k] = said'[s]
        BY <1>5, <1>7, <1>14, <2>1, <4>1, <4>2 DEF NoStatusByte
      <4> QED BY <4>1, <4>3 DEF Expects
    <3>3. CASE n # 1
      <4>1. q \notin Statuses  BY <1>2, <3>1, <3>3
      <4>2. n - 1 \in DOMAIN asked' /\ asked'[n - 1] = s
        BY <1>2, <3>1, <3>3
      <4>3. \A m \in DOMAIN asked' : asked'[m] \in Statuses => m = n - 1
        BY <1>2, <3>1
      <4> QED BY <1>10, <2>1, <4>1, <4>2, <4>3 DEF Expects
    <3> QED BY <3>2, <3>3
  <2>2. CASE /\ NoStatusAsked
             /\ \A n \in DOMAIN pipe :
                  StatusAt(n) =>
                    /\ pipe[n] = said[s]
                    /\ \A m \in DOMAIN pipe : StatusAt(m) => m = n
    <3>1. NoStatusAsked' /\ q \notin Statuses /\ said' = said
      BY <1>7, <1>9, <2>2
    <3>2. \A n \in DOMAIN pipe' :
            StatusAt(n)' => n \in DOMAIN pipe /\ StatusAt(n) /\ pipe'[n] = pipe[n]
      BY <1>5, <1>14, <3>1
    <3> QED BY <2>2, <3>1, <3>2 DEF Expects
  <2> QED BY <1>11, <2>1, <2>2 DEF Expects
<1>12. AnswersOK'
  <2>1. CASE pc \in {"write", "read"} /\ NoStatusAsked /\ NoStatusByte
             /\ (pc = "read" => Queries[query] \notin Statuses)
    <3>1. NoStatusAsked' /\ NoStatusByte'  BY <1>9, <1>10, <2>1
    <3> QED BY <1>4, <2>1, <3>1 DEF AnswersOK
  <2>2. CASE pc = "read" /\ Queries[query] \in Statuses /\ Expects(Queries[query])
    <3>1. Expects(Queries[query])'  BY <1>4, <1>11, <2>2
    <3> QED BY <1>4, <2>2, <3>1 DEF AnswersOK
  <2>3. CASE pc \notin {"write", "read"} /\ (report.ready = "yes" => NoStatusAsked)
    BY <1>4, <1>9, <2>3 DEF AnswersOK
  <2> QED BY <2>1, <2>2, <2>3 DEF AnswersOK
<1>13. ReadyOK'
  <2>1. pc \in {"write", "read"} /\ q \in Statuses => q = Queries[query]
    BY <1>9, <1>11 DEF AnswersOK
  <2>2. report.ready = "yes" => q \notin Statuses
    BY <1>9 DEF AnswersOK, ReadyOK
  <2>3. report.ready = "yes" => said' = said  BY <1>7, <2>2
  <2>4. ASSUME pc \in {"write", "read"}, NEW k \in 3..(query - 1)
        PROVE  said'[Queries[k]] = said[Queries[k]]
    <3>1. k \in 1..6 /\ k # query /\ k > 2  BY <2>4
    <3>2. Queries[k] \in Statuses /\ Queries[k] # Queries[query]  BY <3>1, QueriesAre
    <3> QED BY <1>7, <2>1, <2>4, <3>2
  <2> QED BY <1>4, <2>3, <2>4 DEF ReadyOK, Cleared
<1> QED BY <1>2, <1>3, <1>4, <1>5, <1>7, <1>12, <1>13, SentKeeps DEF ProbeTypeOK

(* A status frame nobody asked for is not an answer.                       *)
LEMMA SendAsbKeeps == ASSUME ProbeInv, SendAsb PROVE ProbeInv'
<1> USE ProbeParts, ProbeFields
<1>1. PICK frame \in AsbFrames : wire' = wire \o frame  BY DEF SendAsb
<1>2. frame \in Seq(Bytes) /\ frame[1] \in Headers  BY FrameAssumption
<1>3. /\ frames' \in 0..MaxAsb
      /\ UNCHANGED <<device, asked, buffer, ended, child, pc, query, bytes, report, healthy, said>>
  BY LimitAssumption DEF SendAsb, ProbeTypeOK
<1>4. \A n \in DOMAIN pipe' :
        StatusAt(n)' => n \in DOMAIN pipe /\ StatusAt(n) /\ pipe'[n] = pipe[n]
  BY <1>1, <1>2, <1>3, SentClean DEF StatusAt, StatusByte
<1>5. NoStatusByte => NoStatusByte'  BY <1>4 DEF NoStatusByte
<1>6. NoStatusAsked => NoStatusAsked'  BY <1>3 DEF NoStatusAsked
<1>7. \A s \in Statuses : Expects(s) => Expects(s)'
  BY <1>3, <1>4, <1>5, <1>6 DEF Expects
<1>8. AnswersOK'  BY <1>3, <1>5, <1>6, <1>7 DEF AnswersOK
<1>9. ReadyOK'  BY <1>3 DEF ReadyOK, Cleared
<1> QED BY <1>1, <1>2, <1>3, <1>8, <1>9, SentKeeps DEF ProbeTypeOK

(* Bytes arrive, or netcat exits: what is in the pipe stays the same.      *)
LEMMA PipeStays ==
  ASSUME ProbeInv, ProbeTypeOK', pipe' = pipe,
         UNCHANGED <<device, asked, pc, query, bytes, report, healthy, said>>
  PROVE  ProbeInv'
<1> USE ProbeParts
<1>1. OwnBytesOK' /\ IdentityOK'
  BY DEF OwnBytesOK, IdentityOK, FromDevice, Framed, Clean
<1>2. /\ \A n \in DOMAIN pipe : StatusAt(n)' = StatusAt(n)
      /\ NoStatusByte' = NoStatusByte /\ NoStatusAsked' = NoStatusAsked
  BY DEF NoStatusByte, NoStatusAsked, StatusAt, Framed, Clean
<1>3. \A s \in Statuses : Expects(s) => Expects(s)'  BY <1>2 DEF Expects
<1>4. AnswersOK'  BY <1>2, <1>3 DEF AnswersOK
<1>5. ReadyOK'  BY DEF ReadyOK, Cleared
<1> QED BY <1>1, <1>4, <1>5 DEF ProbeInv

LEMMA ArriveKeeps == ASSUME ProbeInv, Arrive PROVE ProbeInv'
<1>1. pipe' = pipe /\ buffer' \in Seq(Bytes) /\ wire' \in Seq(Bytes)
  BY ProbeParts, ArriveMoves
<1>2. UNCHANGED <<device, asked, ended, child, pc, query, bytes, report, healthy, said, frames>>
  BY DEF Arrive
<1>3. ProbeTypeOK'  BY <1>1, <1>2, ProbeParts DEF ProbeTypeOK
<1> QED BY <1>1, <1>2, <1>3, PipeStays

LEMMA ExitKeeps == ASSUME ProbeInv, Exit PROVE ProbeInv'
<1>1. /\ UNCHANGED <<device, asked, wire, buffer, pc, query, bytes, report, healthy, said, frames>>
      /\ child' = "exited" /\ ended' \in {"unreachable", "probe_error"}
  BY DEF Exit
<1>2. ProbeTypeOK'  BY <1>1, ProbeParts DEF ProbeTypeOK
<1>3. pipe' = pipe  BY <1>1 DEF pipe
<1> QED BY <1>1, <1>2, <1>3, PipeStays

LEMMA ProbeInitInv == ProbeInit => ProbeInv
<1> SUFFICES ASSUME ProbeInit PROVE ProbeInv  OBVIOUS
<1>1. /\ asked = <<>> /\ wire = <<>> /\ buffer = <<>> /\ bytes = <<>> /\ pc = "write" /\ query = 1
      /\ report = [outcome |-> "unreachable", identity |-> FALSE, ready |-> "unknown"]
      /\ healthy = FALSE
  BY DEF ProbeInit
<1>2. pipe = <<>>  BY <1>1 DEF pipe
<1>3. report \in [outcome : Outcomes, identity : BOOLEAN,
                  ready : {"unknown", "yes", "no", "unavailable"}]
  BY <1>1 DEF Outcomes
<1>4. healthy \in BOOLEAN /\ ~healthy  BY <1>1
<1>5. ProbeTypeOK
  BY <1>1, <1>3, <1>4, QueriesAre, LimitAssumption DEF ProbeInit, ProbeTypeOK
<1>6. OwnBytesOK /\ IdentityOK  BY <1>1, <1>2 DEF OwnBytesOK, IdentityOK, Framed
<1>7. AnswersOK  BY <1>1, <1>2 DEF AnswersOK, NoStatusAsked, NoStatusByte
<1>8. ReadyOK  BY <1>1, <1>4 DEF ReadyOK, Cleared
<1> QED BY <1>5, <1>6, <1>7, <1>8 DEF ProbeInv

LEMMA ProbeStep == ProbeInv /\ [ProbeNext]_probeVars => ProbeInv'
<1> SUFFICES ASSUME ProbeInv, [ProbeNext]_probeVars PROVE ProbeInv'  OBVIOUS
<1>1. CASE UNCHANGED probeVars
  <2>1. ProbeTypeOK'  BY <1>1, ProbeParts DEF ProbeTypeOK, probeVars, connection
  <2> QED BY <1>1, <2>1, PipeStays DEF probeVars, connection, pipe
<1> QED
  BY <1>1, WriteKeeps, ReadKeeps, TimeoutKeeps, CloseKeeps, ReportKeeps, AnswerKeeps,
     SendAsbKeeps, ArriveKeeps, ExitKeeps
  DEF ProbeNext, Probe

THEOREM ProbeInvariance == ProbeSpec => []ProbeInv
  BY ProbeInitInv, ProbeStep, PTL DEF ProbeSpec

(* A device is reported as verified only if it named itself TM-U220 and    *)
(* gave the model number 0D, however its bytes were cut and whatever frame *)
(* of status, with whatever bytes after its first, came between them.      *)
THEOREM VerifiedIsGenuineAlways == ProbeSpec => []VerifiedIsGenuine
<1>1. ProbeInv => VerifiedIsGenuine
  <2> SUFFICES ASSUME ProbeInv PROVE VerifiedIsGenuine  OBVIOUS
  <2>1. ProbeTypeOK /\ (report.outcome = "verified" => device.name = "TM-U220" /\ device.id = "0D")
    BY ProbeParts, ProbeFields DEF IdentityOK
  <2>2. device = [name |-> device.name, id |-> device.id]
    BY <2>1 DEF ProbeTypeOK
  <2> QED BY <2>1, <2>2 DEF VerifiedIsGenuine
<1> QED BY <1>1, ProbeInvariance, PTL

(* A printer is reported healthy only if its answer to each of the four    *)
(* status queries, and not a byte of something else taken for one, said    *)
(* that nothing keeps it from printing.                                    *)
THEOREM HealthyIsReadyAlways == ProbeSpec => []HealthyIsReady
<1>1. ProbeInv => HealthyIsReady
  <2> SUFFICES ASSUME ProbeInv, healthy, NEW s \in Statuses PROVE said[s] = "clear"
    BY DEF HealthyIsReady
  <2>1. Cleared(6)  BY ProbeParts DEF ReadyOK
  <2> QED BY <2>1, QueriesAre DEF Cleared
<1> QED BY <1>1, ProbeInvariance, PTL

--------------------------------------------------------------------------------
(* Building and opening the package.                                       *)


USE BoundAssumption, NoneAssumption
USE DEF At, Goto, build, review, Rest, AppEnds, Steps, Over, Inspecting, Contents, Files,
        Aspects, FromBom, FromArchive, FromFlatten, Expanded

LEMMA InitInv == Init => IInv
<1> SUFFICES ASSUME Init PROVE IInv
  OBVIOUS
<1>1. TypeOK
  <2>1. {expanded, info, embedded, sealed, checked} \subseteq Contents \cup {None}
    BY DEF Init
  <2>2. staged \subseteq Aspects /\ seen \subseteq Contents /\ changes \in 0..MaxChanges
    BY DEF Init
  <2> QED BY <2>1, <2>2 DEF Init, TypeOK
<1>2. PassedIsRight /\ StampsOK /\ InspectionOK /\ ReviewOK /\ ResultOK /\ OutcomeIsTrue
  BY DEF Init, PassedIsRight, StampsOK, InspectionOK, ReviewOK, ResultOK, OutcomeIsTrue
<1> QED BY <1>1, <1>2 DEF IInv

(* One tool spoils nothing but what it makes.                              *)
LEMMA SpoiledAspects == ASSUME NEW aspects, NEW wrong \in Spoiled(aspects) PROVE wrong \subseteq aspects
BY DEF Spoiled

(* Building touches nothing that is looked at later: the package is made   *)
(* last.                                                                   *)
LEMMA BuildBomInv == IInv /\ BuildBom => IInv'
BY DEF IInv, TypeOK, PassedIsRight, StampsOK, InspectionOK, ReviewOK, ResultOK, OutcomeIsTrue,
       BuildBom, Spoiled

LEMMA BuildArchiveInv == IInv /\ BuildArchive => IInv'
<1> SUFFICES ASSUME IInv, BuildArchive PROVE IInv'
  OBVIOUS
<1>1. PICK wrong \in Spoiled(FromArchive) : staged' = staged \cup wrong
  BY DEF BuildArchive
<1>2. staged' \subseteq Aspects
  BY <1>1, SpoiledAspects DEF IInv, TypeOK
<1> QED
  BY <1>2 DEF IInv, TypeOK, PassedIsRight, StampsOK, InspectionOK, ReviewOK, ResultOK,
              OutcomeIsTrue, BuildArchive

LEMMA FlattenInv == IInv /\ Flatten => IInv'
<1> SUFFICES ASSUME IInv, Flatten PROVE IInv'
  OBVIOUS
<1>1. PICK wrong \in Spoiled(FromFlatten) :
        LET made == [wrong |-> staged \cup wrong, bytes |-> 0]
        IN package' = [content |-> made, stat |-> 0] /\ seen' = {made}
  BY DEF Flatten
<1> DEFINE made == [wrong |-> staged \cup wrong, bytes |-> 0]
<1>2. made \in Contents
  BY <1>1, SpoiledAspects DEF IInv, TypeOK
<1>3. package' \in Files /\ package'.stat = 0 /\ seen' \subseteq Contents
  BY <1>1, <1>2
<1>4. first = None
  BY DEF Flatten, IInv, StampsOK, InspectionOK
<1> HIDE DEF made
<1>5. IInv'
  BY <1>3, <1>4 DEF IInv, TypeOK, PassedIsRight, StampsOK, InspectionOK, ReviewOK, ResultOK,
              OutcomeIsTrue, Flatten
<1> QED BY <1>5

(* What a tool found holds of the package while it is that of the snapshot. *)
LEMMA SnapshotInv == IInv /\ Snapshot => IInv'
BY DEF IInv, TypeOK, PassedIsRight, StampsOK, InspectionOK, ReviewOK, ResultOK, OutcomeIsTrue,
       Snapshot

LEMMA ListPayloadInv == IInv /\ ListPayload => IInv'
BY DEF IInv, TypeOK, PassedIsRight, StampsOK, InspectionOK, ReviewOK, ResultOK, OutcomeIsTrue,
       ListPayload, Requires

LEMMA ExpandInv == IInv /\ Expand => IInv'
BY DEF IInv, TypeOK, PassedIsRight, StampsOK, InspectionOK, ReviewOK, ResultOK, OutcomeIsTrue,
       Expand

LEMMA InspectInv == IInv /\ Inspect => IInv'
BY DEF IInv, TypeOK, PassedIsRight, StampsOK, InspectionOK, ReviewOK, ResultOK, OutcomeIsTrue,
       Inspect, Requires

LEMMA CheckSignatureInv == IInv /\ CheckSignature => IInv'
BY DEF IInv, TypeOK, PassedIsRight, StampsOK, InspectionOK, ReviewOK, ResultOK, OutcomeIsTrue,
       CheckSignature, Requires

LEMMA SnapshotAgainInv == IInv /\ SnapshotAgain => IInv'
BY DEF IInv, TypeOK, PassedIsRight, StampsOK, InspectionOK, ReviewOK, ResultOK, OutcomeIsTrue,
       SnapshotAgain, SameSnapshot

(* The terminal goes on only with what passed, and reads the result only   *)
(* when the app is over.                                                   *)
LEMMA EmbedInv == IInv /\ Embed => IInv'
BY DEF IInv, TypeOK, PassedIsRight, StampsOK, InspectionOK, ReviewOK, ResultOK, OutcomeIsTrue,
       Embed

LEMMA CompareEmbeddedInv == IInv /\ CompareEmbedded => IInv'
BY DEF IInv, TypeOK, PassedIsRight, StampsOK, InspectionOK, ReviewOK, ResultOK, OutcomeIsTrue,
       CompareEmbedded

LEMMA SealInv == IInv /\ Seal => IInv'
BY DEF IInv, TypeOK, PassedIsRight, StampsOK, InspectionOK, ReviewOK, ResultOK, OutcomeIsTrue,
       Seal

LEMMA LaunchInv == IInv /\ Launch => IInv'
BY DEF IInv, TypeOK, PassedIsRight, StampsOK, InspectionOK, ReviewOK, ResultOK, OutcomeIsTrue,
       Launch

LEMMA ReadResultInv == IInv /\ ReadResult => IInv'
BY DEF IInv, TypeOK, PassedIsRight, StampsOK, InspectionOK, ReviewOK, ResultOK, OutcomeIsTrue,
       ReadResult

(* The app opens Installer for nothing but what it compared.               *)
LEMMA CancelInv == IInv /\ Cancel => IInv'
BY DEF IInv, TypeOK, PassedIsRight, StampsOK, InspectionOK, ReviewOK, ResultOK, OutcomeIsTrue,
       Cancel

LEMMA ShowReviewInv == IInv /\ ShowReview => IInv'
<1> SUFFICES ASSUME IInv, ShowReview PROVE IInv'  OBVIOUS
<1>1. TypeOK /\ PassedIsRight /\ StampsOK /\ InspectionOK /\ ReviewOK /\ ResultOK /\ OutcomeIsTrue
  BY DEF IInv
<1>2. /\ UNCHANGED <<build, embedded, sealed, seen, changes, checked, installer>>
      /\ app \in {"asked", "ready"} /\ app' \in {"ready", "over"}
      /\ result' \in {result, "cancelled"} /\ (app' = "ready" => looked' /\ result' = result)
  BY DEF ShowReview
<1>3. looked' \in BOOLEAN  BY <1>1 DEF ShowReview, TypeOK
<1>4. TypeOK'  BY <1>1, <1>2, <1>3 DEF TypeOK
<1>5. PassedIsRight' /\ StampsOK' /\ InspectionOK'
  BY <1>1, <1>2 DEF PassedIsRight, StampsOK, InspectionOK
<1>6. installer = "no"  BY <1>1, <1>2 DEF ReviewOK
<1>7. ReviewOK'  BY <1>1, <1>2, <1>6 DEF ReviewOK
<1>8. ResultOK' /\ OutcomeIsTrue'  BY <1>1, <1>2, <1>6 DEF ReviewOK, ResultOK, OutcomeIsTrue
<1> QED BY <1>4, <1>5, <1>7, <1>8 DEF IInv

LEMMA VerifyInv == IInv /\ Verify => IInv'
BY DEF IInv, TypeOK, PassedIsRight, StampsOK, InspectionOK, ReviewOK, ResultOK, OutcomeIsTrue,
       Verify

LEMMA OpenInstallerInv == IInv /\ OpenInstaller => IInv'
BY DEF IInv, TypeOK, PassedIsRight, StampsOK, InspectionOK, ReviewOK, ResultOK, OutcomeIsTrue,
       OpenInstaller

LEMMA AfterInstallerInv == IInv /\ AfterInstaller => IInv'
BY DEF IInv, TypeOK, PassedIsRight, StampsOK, InspectionOK, ReviewOK, ResultOK, OutcomeIsTrue,
       AfterInstaller

LEMMA OpeningFailsInv == IInv /\ OpeningFails => IInv'
BY DEF IInv, TypeOK, PassedIsRight, StampsOK, InspectionOK, ReviewOK, ResultOK, OutcomeIsTrue,
       OpeningFails

LEMMA AppKilledInv == IInv /\ AppKilled => IInv'
BY DEF IInv, TypeOK, PassedIsRight, StampsOK, InspectionOK, ReviewOK, ResultOK, OutcomeIsTrue,
       AppKilled

(* A change gives the package a stat that was never seen.                  *)
LEMMA ToolFailsInv == IInv /\ ToolFails => IInv'
BY DEF IInv, TypeOK, PassedIsRight, StampsOK, InspectionOK, ReviewOK, ResultOK, OutcomeIsTrue,
       ToolFails

LEMMA InstallerClosesInv == IInv /\ InstallerCloses => IInv'
BY DEF IInv, TypeOK, PassedIsRight, StampsOK, InspectionOK, ReviewOK, ResultOK, OutcomeIsTrue,
       InstallerCloses

LEMMA KilledInv == IInv /\ Killed => IInv'
BY DEF IInv, TypeOK, PassedIsRight, StampsOK, InspectionOK, ReviewOK, ResultOK, OutcomeIsTrue,
       Killed

LEMMA ChangeInv == IInv /\ Change => IInv'
BY DEF IInv, TypeOK, PassedIsRight, StampsOK, InspectionOK, ReviewOK, ResultOK, OutcomeIsTrue,
       Change, Spoiled

LEMMA StepInv == IInv /\ [Next]_vars => IInv'
<1> SUFFICES ASSUME IInv, [Next]_vars PROVE IInv'
  OBVIOUS
<1>1. CASE Build
  BY <1>1, BuildBomInv, BuildArchiveInv, FlattenInv DEF Build
<1>2. CASE Validate
  BY <1>2, SnapshotInv, ListPayloadInv, ExpandInv, InspectInv, CheckSignatureInv, SnapshotAgainInv
     DEF Validate
<1>3. CASE Review
  BY <1>3, EmbedInv, CompareEmbeddedInv, SealInv, LaunchInv, ReadResultInv DEF Review
<1>4. CASE App
  BY <1>4, CancelInv, ShowReviewInv, VerifyInv, OpenInstallerInv, AfterInstallerInv,
     OpeningFailsInv, AppKilledInv DEF App
<1>5. CASE UNCHANGED vars
  BY <1>5 DEF vars, IInv, TypeOK, PassedIsRight, StampsOK, InspectionOK, ReviewOK, ResultOK,
              OutcomeIsTrue
<1> QED
  BY <1>1, <1>2, <1>3, <1>4, <1>5, ToolFailsInv, InstallerClosesInv, KilledInv, ChangeInv DEF Next

(* What every stage knows of the package, of its first snapshot and of the *)
(* app around it stays true.                                               *)
THEOREM PackageInvariance == Spec => []IInv
BY InitInv, StepInv, PTL DEF Spec

(* Every variable stays in its range, for every number of changes.         *)
THEOREM PackageTypes == Spec => []TypeOK
<1>1. IInv => TypeOK
  BY DEF IInv
<1> QED BY <1>1, PackageInvariance, PTL

(* A package that passed differs from the contract in nothing, whenever it *)
(* was replaced between the looks of the tools.                            *)
THEOREM PassedPackageIsRight == Spec => []PassedIsRight
<1>1. IInv => PassedIsRight
  BY DEF IInv
<1> QED BY <1>1, PackageInvariance, PTL

(* Installer is opened only for what passed and was reviewed.              *)
THEOREM OpenedPackageWasReviewed == Spec => []OpenedWasReviewed
<1>1. IInv => OpenedWasReviewed
  BY DEF IInv, PassedIsRight, ReviewOK, OpenedWasReviewed
<1> QED BY <1>1, PackageInvariance, PTL

(* "cancelled" and "closed" are said of what happened.                     *)
THEOREM OutcomesAreTrue == Spec => []OutcomeIsTrue
<1>1. IInv => OutcomeIsTrue
  BY DEF IInv
<1> QED BY <1>1, PackageInvariance, PTL

================================================================================
