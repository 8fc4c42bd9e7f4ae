--------------------------- MODULE LiveSessionProofs ---------------------------
(***************************************************************************)
(* Proofs about LiveSession, for every plan, every source-port list and    *)
(* every number of unsolicited frames and bytes, on a line whose stray     *)
(* bytes do not start an ASB frame (CleanLine).                            *)
(***************************************************************************)
EXTENDS LiveSession, SequenceTheorems, TLAPS

CleanLine == "asb_header" \notin StrayValues

JobOps == {"print", "checkpoint"}

(* No output and no GS r 1 is left for the printer to carry out.           *)
NoJobPending == \A i \in 1..Len(toPrinter) : toPrinter[i].op \notin JobOps

--------------------------------------------------------------------------------
(* The inductive invariant.                                                *)

(* The bytes between printer and host are whole ASB frames and single      *)
(* bytes, except that the host may have read part of the first frame; and  *)
(* only a header byte looks like one.                                      *)
Framed ==
  /\ \A i \in 1..Len(fromPrinter) :
       /\ fromPrinter[i].frame = 1 <=> fromPrinter[i].value = "asb_header"
       /\ i < Len(fromPrinter) =>
            IF fromPrinter[i].frame \in 1..3
            THEN fromPrinter[i + 1].frame = fromPrinter[i].frame + 1
            ELSE fromPrinter[i + 1].frame \in {0, 1}
       /\ i = Len(fromPrinter) => fromPrinter[i].frame \in {0, 4}
  /\ IF fromPrinter = << >> THEN tail = 0
     ELSE IF tail = 0 THEN fromPrinter[1].frame \in {0, 1}
     ELSE fromPrinter[1].frame = 5 - tail

(* A single byte that looks like a paper status answers the GS r 1 of the  *)
(* step in flight, which is then printed; there is one such byte at most.  *)
Answered ==
  /\ \A i \in 1..Len(fromPrinter) :
       /\ fromPrinter[i].frame = 0 /\ fromPrinter[i].value \in PaperValues
            => fromPrinter[i].step > 0
       /\ fromPrinter[i].step > 0 =>
            /\ fromPrinter[i].frame = 0
            /\ fromPrinter[i].step = released
            /\ released = confirmed + 1
            /\ Len(printed) = released
            /\ NoJobPending
            /\ pc \in {"response", "done"}
  /\ \A i, j \in 1..Len(fromPrinter) :
       fromPrinter[i].step > 0 /\ fromPrinter[j].step > 0 => i = j

(* What is queued at the printer: every ESC @ is followed by an ASB        *)
(* disable, the output of the released step stands next to its GS r 1, and *)
(* that GS r 1 is the last command.                                        *)
Queued ==
  \A i \in 1..Len(toPrinter) :
    /\ toPrinter[i].op = "init" =>
         i < Len(toPrinter) /\ toPrinter[i + 1].op = "asb_off"
    /\ toPrinter[i].op = "print" =>
         /\ i + 1 = Len(toPrinter)
         /\ toPrinter[i + 1].op = "checkpoint"
         /\ toPrinter[i].step = released
         /\ Len(printed) + 1 = released
    /\ toPrinter[i].op = "checkpoint" =>
         /\ i = Len(toPrinter)
         /\ toPrinter[i].step = released
         /\ released = confirmed + 1
         /\ pc \in {"response", "done"}
         /\ Len(printed) # released =>
              i > 1 /\ toPrinter[i - 1].op = "print"

(* While ASB is on, the next command turns it off.                         *)
AsbGuarded == asb => toPrinter # << >> /\ toPrinter[1].op = "asb_off"

(* How far the counters are apart at each point of the host.               *)
Counters ==
  /\ confirmed <= Len(printed)
  /\ Len(printed) <= released
  /\ released <= confirmed + 1
  /\ pc \in {"open", "opened", "exchange", "answer"} => released = 0
  /\ pc = "check" => released = confirmed /\ confirmed < N
  /\ pc \in {"response", "after"} => released = confirmed + 1
  /\ pc = "after" => Len(printed) = released /\ NoJobPending
  /\ released = confirmed => NoJobPending
  /\ pc \notin {"open", "done"} => conn # "none"

(* A later step's check for pending bytes finds none, so a cancellation    *)
(* cannot slip in between the loop head and the release.                   *)
LaterCheckIsQuiet ==
  /\ pc = "check" /\ confirmed > 0 => buffered = 0 /\ tail = 0
  /\ pc = "check" /\ cancelled => confirmed = 0

(* The result record, once written.                                        *)
Recorded ==
  /\ pc = "done" <=> result.status # "none"
  /\ pc = "done" => conn = "ended" /\ ParseResultAccepts(result)
  /\ pc = "done" /\ result.status # "error" =>
       result.code = "none" /\ ~result.unknown
  /\ pc = "done" /\ result.code # "LIVE_SESSION_FAILED" =>
       /\ result.confirmed = confirmed
       /\ result.status = "completed" => confirmed = N
       /\ ~result.unknown => released = confirmed
       /\ result.unknown => released = confirmed + 1 /\ result.step = released

IInv == /\ TypeOK /\ PrintedOnceInOrder
        /\ Framed /\ Answered /\ Queued /\ AsbGuarded
        /\ Counters /\ LaterCheckIsQuiet /\ Recorded

--------------------------------------------------------------------------------
(* Facts about sequences and records.                                      *)

LEMMA TailFacts ==
  ASSUME NEW T, NEW s \in Seq(T), s # << >>
  PROVE  /\ Head(s) = s[1] /\ Head(s) \in T
         /\ Tail(s) \in Seq(T)
         /\ Len(s) \in Nat /\ Len(s) >= 1
         /\ Len(Tail(s)) = Len(s) - 1
         /\ \A i \in 1..(Len(s) - 1) : Tail(s)[i] = s[i + 1]
         /\ Tail(s) = << >> <=> Len(s) = 1
<1>1. Len(s) \in Nat /\ Len(s) # 0
  BY EmptySeq, LenProperties
<1>2. /\ Head(s) = s[1] /\ Head(s) \in T
      /\ Tail(s) \in Seq(T)
      /\ Len(Tail(s)) = Len(s) - 1
      /\ \A i \in 1..(Len(s) - 1) : Tail(s)[i] = s[i + 1]
  BY <1>1, HeadTailProperties, ElementOfSeq
<1>3. Tail(s) = << >> <=> Len(Tail(s)) = 0
  BY <1>2, EmptySeq, LenProperties
<1>4. QED
  BY <1>1, <1>2, <1>3

LEMMA ConcatFacts ==
  ASSUME NEW T, NEW s \in Seq(T), NEW t \in Seq(T)
  PROVE  /\ s \o t \in Seq(T)
         /\ Len(s) \in Nat /\ Len(t) \in Nat
         /\ Len(s \o t) = Len(s) + Len(t)
         /\ \A i \in 1..Len(s) : (s \o t)[i] = s[i]
         /\ \A i \in 1..Len(t) : (s \o t)[Len(s) + i] = t[i]
<1>1. Len(s) \in Nat /\ Len(t) \in Nat
  BY LenProperties
<1>2. /\ s \o t \in Seq(T)
      /\ Len(s \o t) = Len(s) + Len(t)
      /\ \A i \in 1..(Len(s) + Len(t)) :
           (s \o t)[i] = IF i <= Len(s) THEN s[i] ELSE t[i - Len(s)]
  BY ConcatProperties
<1>3. QED
  BY <1>1, <1>2

LEMMA AppendFacts ==
  ASSUME NEW T, NEW s \in Seq(T), NEW e \in T
  PROVE  /\ Append(s, e) \in Seq(T)
         /\ Len(s) \in Nat
         /\ Len(Append(s, e)) = Len(s) + 1
         /\ \A i \in 1..Len(s) : Append(s, e)[i] = s[i]
         /\ Append(s, e)[Len(s) + 1] = e
BY AppendProperties, LenProperties

LEMMA SingletonFacts ==
  ASSUME NEW T, NEW e \in T
  PROVE  <<e>> \in Seq(T) /\ Len(<<e>>) = 1 /\ <<e>>[1] = e
OBVIOUS

LEMMA FrontFacts ==
  ASSUME NEW T, NEW s \in Seq(T), s # << >>
  PROVE  LET front == SubSeq(s, 1, Len(s) - 1)
         IN  /\ front \in Seq(T)
             /\ Len(s) \in Nat /\ Len(s) >= 1
             /\ Len(front) = Len(s) - 1
             /\ \A i \in 1..(Len(s) - 1) : front[i] = s[i]
<1>1. Len(s) \in Nat /\ Len(s) # 0
  BY EmptySeq, LenProperties
<1>2. \A i \in 1..(Len(s) - 1) : s[i] \in T
  BY <1>1, ElementOfSeq
<1> DEFINE n == Len(s) - 1
           front == SubSeq(s, 1, n)
<1>3. n \in Int /\ n >= 0 /\ \A i \in 1..n : s[i] \in T
  BY <1>1, <1>2
<1> HIDE DEF n
<1>4. /\ front \in Seq(T)
      /\ Len(front) = IF 1 <= n THEN n - 1 + 1 ELSE 0
      /\ \A i \in 1..(n - 1 + 1) : front[i] = s[1 + i - 1]
  BY <1>3, SubSeqProperties
<1>5. Len(front) = n /\ \A i \in 1..n : front[i] = s[i]
  BY <1>3, <1>4
<1>6. QED
  BY <1>1, <1>4, <1>5 DEF n

(* The request of a step is a sequence of commands ending in its output    *)
(* and GS r 1, in which an ASB disable follows every ESC @.                *)
LEMMA RequestFacts ==
  ASSUME NEW i \in 1..N
  PROVE  LET q == CheckpointRequest(i)
         IN  /\ q \in Seq(Commands)
             /\ Len(q) \in Nat /\ Len(q) >= 2
             /\ q[Len(q)].op = "checkpoint" /\ q[Len(q) - 1].op = "print"
             /\ \A k \in 1..Len(q) : q[k].step = i
             /\ \A k \in 1..(Len(q) - 2) :
                  /\ q[k].op \in {"init", "asb_off"}
                  /\ q[k].op = "init" => q[k + 1].op = "asb_off"
             /\ Len(q) > 2 => q[1].op = "init"
<1> DEFINE r == 2 * Resets[i]
           q == CheckpointRequest(i)
<1> DEFINE op(k) == IF k = r + 2 THEN "checkpoint"
                    ELSE IF k = r + 1 THEN "print"
                    ELSE IF k % 2 = 1 THEN "init" ELSE "asb_off"
<1>1. Resets[i] \in Nat /\ r \in Nat /\ r % 2 = 0
  BY ResetsAssumption
<1> HIDE DEF r
<1>2. q = [k \in 1..(r + 2) |-> [op |-> op(k), step |-> i]]
  BY DEF CheckpointRequest, r
<1> HIDE DEF q
<1>3. \A k \in 1..(r + 2) : q[k] = [op |-> op(k), step |-> i]
  BY <1>2
<1>4. \A k : op(k) \in Ops
  BY DEF Ops
<1>5. i \in 0..N
  BY NAssumption
<1> HIDE DEF op
<1>6. \A k \in 1..(r + 2) : [op |-> op(k), step |-> i] \in Commands
  BY <1>4, <1>5 DEF Commands
<1>7. q \in Seq(Commands)
  BY <1>1, <1>2, <1>6, IsASeq
<1>8. Len(q) = r + 2
  BY <1>1, <1>2, <1>7, LenProperties
<1>9. ASSUME NEW k \in 1..(r + 2)
      PROVE  q[k].op = op(k) /\ q[k].step = i
  <2>1. q[k] = [op |-> op(k), step |-> i]
    BY <1>3
  <2>2. QED
    BY <2>1
<1>10. \A k \in 1..r : k % 2 = 1 => k + 1 <= r /\ (k + 1) % 2 # 1
  BY <1>1
<1>11. /\ op(r + 2) = "checkpoint" /\ op(r + 1) = "print"
       /\ \A k \in 1..r : /\ op(k) \in {"init", "asb_off"}
                          /\ op(k) = "init" => op(k + 1) = "asb_off"
       /\ r > 0 => op(1) = "init"
  BY <1>1, <1>10 DEF op
<1>12. QED
  BY <1>1, <1>7, <1>8, <1>9, <1>11 DEF q

--------------------------------------------------------------------------------
(* Types.                                                                  *)

LEMMA RecordTypes ==
  /\ \A c \in 0..N : Completed(c) \in Results /\ Cancelled(c) \in Results
  /\ \A code \in Codes : Untagged(code) \in Results
  /\ \A code \in Codes, step, c, r \in 0..N, unknown \in BOOLEAN :
       Failed(code, step, c, r, unknown) \in Results
<1>1. 0 \in 0..N
  BY NAssumption
<1>2. \A c \in 0..N : Completed(c) \in Results /\ Cancelled(c) \in Results
  BY <1>1 DEF Completed, Cancelled, NoResult, Results, Codes
<1>3. \A code \in Codes, step, c, r \in 0..N, unknown \in BOOLEAN :
        Failed(code, step, c, r, unknown) \in Results
  BY DEF Failed, Results
<1>4. QED
  BY <1>1, <1>2, <1>3 DEF Untagged

LEMMA ByteTypes ==
  /\ \A v \in StatusValues : StatusAnswer(v) \in Bytes
  /\ \A v \in PaperValues, i \in 0..N : CheckpointAnswer(v, i) \in Bytes
  /\ \A v \in StrayValues : [value |-> v, frame |-> 0, step |-> 0] \in Bytes
  /\ \A t \in [2..4 -> TailValues] : AsbFrame(t) \in Seq(Bytes) /\ Len(AsbFrame(t)) = 4
<1>1. \A v \in StrayValues : [value |-> v, frame |-> 0, step |-> 0] \in Bytes
  BY StrayAssumption, NAssumption DEF Bytes, Values
<1>2. ASSUME NEW t \in [2..4 -> TailValues]
      PROVE  AsbFrame(t) \in Seq(Bytes) /\ Len(AsbFrame(t)) = 4
  <2>1. \A k \in 1..4 :
          [value |-> IF k = 1 THEN "asb_header" ELSE t[k],
           frame |-> k, step |-> 0] \in Bytes
    BY TailAssumption, NAssumption DEF Bytes, Values
  <2>2. AsbFrame(t) \in Seq(Bytes)
    BY <2>1, IsASeq DEF AsbFrame
  <2>3. QED
    BY <2>2, LenProperties DEF AsbFrame
<1>3. 0 \in 0..N /\ 0 \in 0..4
  BY NAssumption
<1>4. \A v \in StatusValues : StatusAnswer(v) \in Bytes
  BY <1>3 DEF StatusAnswer, Bytes, Values
<1>5. \A v \in PaperValues, i \in 0..N : CheckpointAnswer(v, i) \in Bytes
  BY <1>3 DEF CheckpointAnswer, Bytes, Values
<1>6. QED
  BY <1>1, <1>2, <1>4, <1>5

(* The variable tuples that the actions leave unchanged.                   *)
LEMMA ConsumeTypes ==
  ASSUME TypeOK, Consume
  PROVE  /\ fromPrinter' \in Seq(Bytes)
         /\ buffered' \in 0..Len(fromPrinter')
         /\ received' = received
<1>1. fromPrinter \in Seq(Bytes) /\ buffered \in 0..Len(fromPrinter) /\ buffered > 0
  BY DEF TypeOK, Consume
<1>2. fromPrinter # << >>
  BY <1>1, EmptySeq
<1>3. /\ Tail(fromPrinter) \in Seq(Bytes)
      /\ Len(fromPrinter) \in Nat
      /\ Len(Tail(fromPrinter)) = Len(fromPrinter) - 1
  BY <1>1, <1>2, TailFacts
<1>4. QED
  BY <1>1, <1>3 DEF Consume

LEMMA FinishTypes ==
  ASSUME NEW record \in Results, Finish(record)
  PROVE  pc' \in PCs /\ result' \in Results /\ conn' \in {"none", "up", "ended"}
BY DEF Finish, PCs

LEMMA NextStepTypes ==
  ASSUME TypeOK, NEW c \in 0..N, NextStep(c)
  PROVE  pc' \in PCs /\ result' \in Results /\ conn' \in {"none", "up", "ended"}
BY FinishTypes, RecordTypes DEF NextStep, Finish, PCs, TypeOK, verdictVars

LEMMA SendTypes ==
  ASSUME TypeOK, NEW bytes \in Seq(Bytes), Send(bytes), buffered' = buffered
  PROVE  fromPrinter' \in Seq(Bytes) /\ buffered' \in 0..Len(fromPrinter')
<1>1. fromPrinter \in Seq(Bytes) /\ buffered \in 0..Len(fromPrinter)
  BY DEF TypeOK
<1>2. /\ fromPrinter \o bytes \in Seq(Bytes)
      /\ Len(fromPrinter) \in Nat /\ Len(bytes) \in Nat
      /\ Len(fromPrinter \o bytes) = Len(fromPrinter) + Len(bytes)
  BY <1>1, ConcatFacts
<1>3. QED
  BY <1>1, <1>2 DEF Send

LEMMA CommandTypes ==
  /\ [op |-> "asb_off", step |-> 0] \in Commands
  /\ [op |-> "status", step |-> 0] \in Commands
  /\ <<[op |-> "asb_off", step |-> 0]>> \in Seq(Commands)
BY NAssumption DEF Commands, Ops

LEMMA TypeStep ==
  ASSUME IInv, [Next]_vars
  PROVE  TypeOK'
<1> USE DEF preflightUnchanged, hostUnchanged, preflightVars, counterVars,
            verdictVars, inputVars, printerVars
<1>0. TypeOK /\ Counters
  BY DEF IInv
<1>1. CASE ReadAsbHeader
  BY <1>0, <1>1, ConsumeTypes DEF ReadAsbHeader, BeginAsbFrame, TypeOK
<1>2. CASE ReadAsbTail
  BY <1>0, <1>2, ConsumeTypes DEF ReadAsbTail, TypeOK
<1>3. CASE Connect
  <2>1. /\ toPrinter' \in Seq(Commands)
        /\ fromPrinter' \in Seq(Bytes) /\ buffered' \in 0..Len(fromPrinter')
    BY <1>3, CommandTypes, EmptySeq DEF Connect
  <2>2. query' \in 1..4 /\ tail' \in 0..3 /\ pc' \in PCs /\ conn' \in {"none", "up", "ended"}
    BY <1>3 DEF Connect, PCs
  <2>3. fault' \in BOOLEAN /\ received' \in BOOLEAN /\ asb' \in BOOLEAN
    BY <1>3 DEF Connect
  <2>4. QED
    BY <1>0, <1>3, <2>1, <2>2, <2>3 DEF Connect, TypeOK
<1>4. CASE AsbDisableWritten
  BY <1>0, <1>4 DEF AsbDisableWritten, TypeOK, PCs
<1>5. CASE WriteStatusQuery
  <2>1. toPrinter' \in Seq(Commands)
    BY <1>0, <1>5, CommandTypes, AppendFacts DEF WriteStatusQuery, TypeOK
  <2>2. QED
    BY <1>0, <1>5, <2>1 DEF WriteStatusQuery, TypeOK, PCs
<1>6. CASE AcceptStatus
  <2>1. /\ fromPrinter' \in Seq(Bytes) /\ buffered' \in 0..Len(fromPrinter')
        /\ received' \in BOOLEAN
    BY <1>0, <1>6, ConsumeTypes DEF AcceptStatus, TypeOK
  <2>2. query' \in 1..4 /\ fault' \in BOOLEAN
    BY <1>0, <1>6 DEF AcceptStatus, TypeOK
  <2>3. Untagged("LIVE_PRINTER_NOT_READY") \in Results
    BY RecordTypes DEF Codes
  <2>4. 0 \in 0..N
    BY NAssumption
  <2>5. pc' \in PCs /\ result' \in Results /\ conn' \in {"none", "up", "ended"}
    <3>1. CASE pc' = "exchange" /\ UNCHANGED verdictVars
      BY <1>0, <3>1 DEF TypeOK, PCs
    <3>2. CASE Finish(Untagged("LIVE_PRINTER_NOT_READY"))
      BY <2>3, <3>2, FinishTypes
    <3>3. CASE NextStep(0)
      BY <1>0, <2>4, <3>3, NextStepTypes
    <3>4. QED
      BY <1>6, <3>1, <3>2, <3>3 DEF AcceptStatus
  <2>6. QED
    BY <1>0, <1>6, <2>1, <2>2, <2>5 DEF AcceptStatus, TypeOK
<1>7. CASE PreflightFails
  <2>1. \A code \in {"LIVE_SOURCE_PORTS_BUSY", "LIVE_AUTHORIZATION_MISSING",
                     "LIVE_CONNECTION_FAILED"} : Untagged(code) \in Results
    BY RecordTypes DEF Codes
  <2>2. ConnectFails
    BY <1>7 DEF PreflightFails
  <2>3. /\ pc' \in PCs /\ result' \in Results
        /\ conn' \in {"none", "up", "ended"} /\ port' \in 1..NPorts
    <3>1. CASE RotateSourcePort
      BY <1>0, <2>1, <3>1, NPortsAssumption
         DEF RotateSourcePort, TryNextPort, Finish, TypeOK, PCs
    <3>2. CASE ~RotateSourcePort
      BY <1>0, <2>1, <2>2, <3>2 DEF ConnectFails, Finish, TypeOK, PCs
    <3>3. QED
      BY <3>1, <3>2
  <2>4. QED
    BY <1>0, <1>7, <2>3 DEF PreflightFails, TypeOK
<1>8. CASE RejectStatus
  BY <1>0, <1>8, ConsumeTypes, FinishTypes, RecordTypes DEF RejectStatus, TypeOK, Codes
<1>9. CASE UnexpectedInPreflight
  BY <1>0, <1>9, ConsumeTypes, FinishTypes, RecordTypes
     DEF UnexpectedInPreflight, TypeOK, Codes
<1>10. ASSUME NEW code \in Codes, NEW unknown \in BOOLEAN,
              pc \in {"check", "response", "after"}, FailStep(code, unknown)
       PROVE  /\ pc' \in PCs /\ result' \in Results
              /\ conn' \in {"none", "up", "ended"}
              /\ UNCHANGED <<preflightVars, tail, answer, cancelled, counterVars,
                             printerVars>>
  <2>1. Current \in 0..N
    BY <1>0, <1>10, NAssumption DEF Counters, TypeOK, Current
  <2>2. Failed(code, Current, confirmed, released, unknown) \in Results
    BY <1>0, <2>1, RecordTypes DEF TypeOK
  <2>3. QED
    BY <1>10, <2>2, FinishTypes DEF FailStep
<1>11. CASE UnexpectedBeforeStep
  BY <1>0, <1>10, <1>11, ConsumeTypes DEF UnexpectedBeforeStep, TypeOK, Codes
<1>12. CASE ReleaseStep
  <2>1. released' \in 0..N /\ Current \in 1..N
    BY <1>0, <1>12, NAssumption DEF ReleaseStep, Counters, TypeOK, Current
  <2>2. toPrinter' \in Seq(Commands)
    <3>1. CheckpointRequest(Current) \in Seq(Commands)
      BY <2>1, RequestFacts
    <3>2. toPrinter \o CheckpointRequest(Current) \in Seq(Commands)
      BY <1>0, <3>1, ConcatFacts DEF TypeOK
    <3>3. QED
      BY <1>0, <1>12, <3>2 DEF ReleaseStep, TypeOK
  <2>3. Failed("LIVE_CHECKPOINT_FAILED", Current, confirmed, released + 1, TRUE)
          \in Results
    <3>1. released + 1 \in 0..N /\ Current \in 0..N /\ confirmed \in 0..N
      BY <1>0, <1>12, <2>1 DEF ReleaseStep, TypeOK
    <3>2. "LIVE_CHECKPOINT_FAILED" \in Codes /\ TRUE \in BOOLEAN
      BY DEF Codes
    <3>3. QED
      BY <3>1, <3>2, RecordTypes
  <2>4. pc' \in PCs /\ result' \in Results /\ conn' \in {"none", "up", "ended"}
    BY <1>0, <1>12, <2>3, FinishTypes DEF ReleaseStep, TypeOK, PCs
  <2>5. QED
    BY <1>0, <1>12, <2>1, <2>2, <2>4 DEF ReleaseStep, TypeOK
<1>13. CASE AcceptCheckpoint
  BY <1>0, <1>13, ConsumeTypes DEF AcceptCheckpoint, TypeOK, PCs
<1>14. CASE InvalidCheckpoint
  BY <1>0, <1>10, <1>14, ConsumeTypes DEF InvalidCheckpoint, TypeOK, Codes
<1>15. CASE CheckpointFails
  BY <1>0, <1>10, <1>15 DEF CheckpointFails, CheckpointLost, TypeOK, Codes
<1>16. CASE UnexpectedAfterStep
  BY <1>0, <1>10, <1>16, ConsumeTypes
     DEF UnexpectedAfterStep, StatusAfterAnswer, TypeOK, Codes
<1>17. CASE DrainFails
  BY <1>0, <1>17, FinishTypes, RecordTypes DEF DrainFails, TypeOK, Codes
<1>18. CASE ConfirmStep
  <2>1. confirmed' \in 0..N /\ confirmed + 1 \in 0..N /\ Current \in 0..N /\ N \in 0..N
    BY <1>0, <1>18, NAssumption DEF ConfirmStep, Counters, TypeOK, Current
  <2>2. /\ Failed("LIVE_PAPER_OUT", Current, confirmed + 1, released, FALSE) \in Results
        /\ Completed(N) \in Results
    BY <1>0, <2>1, RecordTypes DEF TypeOK, Codes
  <2>3. pc' \in PCs /\ result' \in Results /\ conn' \in {"none", "up", "ended"}
    BY <1>0, <1>18, <2>1, <2>2, FinishTypes, NextStepTypes
       DEF ConfirmStep, AfterConfirmation
  <2>4. QED
    BY <1>0, <1>18, <2>1, <2>3 DEF ConfirmStep, TypeOK
<1>19. CASE RequestCancel
  BY <1>0, <1>19 DEF RequestCancel, TypeOK
<1>20. CASE Deliver
  BY <1>0, <1>20 DEF Deliver, TypeOK
<1>21. CASE LoseConnection
  BY <1>0, <1>21 DEF LoseConnection, TypeOK
<1>22. CASE AnswerStatus
  <2>1. \A v \in StatusValues : <<StatusAnswer(v)>> \in Seq(Bytes)
    BY ByteTypes
  <2>2. fromPrinter' \in Seq(Bytes) /\ buffered' \in 0..Len(fromPrinter')
    BY <1>0, <1>22, <2>1, SendTypes DEF AnswerStatus
  <2>3. toPrinter' \in Seq(Commands)
    BY <1>0, <1>22, FrontFacts DEF AnswerStatus, TypeOK
  <2>4. QED
    BY <1>0, <1>22, <2>2, <2>3 DEF AnswerStatus, TypeOK
<1>23. CASE ExecuteCommand
  <2>1. /\ toPrinter' \in Seq(Commands) /\ Head(toPrinter) \in Commands
    BY <1>0, <1>23, TailFacts DEF ExecuteCommand, TypeOK
  <2>2. Head(toPrinter).step \in 0..N
    BY <2>1 DEF Commands
  <2>3. Head(toPrinter).op = "print" => Head(toPrinter).step \in 1..N
    <3>1. Queued /\ Head(toPrinter) = toPrinter[1] /\ 1 \in 1..Len(toPrinter)
      BY <1>0, <1>23, TailFacts DEF IInv, ExecuteCommand, TypeOK
    <3>2. Head(toPrinter).op = "print" =>
            Head(toPrinter).step = released /\ Len(printed) + 1 = released
      BY <3>1 DEF Queued
    <3>3. Len(printed) \in Nat
      BY <1>0, LenProperties DEF TypeOK
    <3>4. QED
      BY <1>0, <3>2, <3>3, NAssumption DEF TypeOK
  <2>4. asb' \in BOOLEAN /\ printed' \in Seq(1..N)
    <3>1. asb' \in BOOLEAN
      BY <1>0, <1>23 DEF ExecuteCommand, TypeOK
    <3>2. CASE UNCHANGED printed
      BY <1>0, <3>1, <3>2 DEF TypeOK
    <3>3. CASE /\ Head(toPrinter).op = "print"
               /\ printed' = Append(printed, Head(toPrinter).step)
      BY <1>0, <2>3, <3>1, <3>3, AppendFacts DEF TypeOK
    <3>4. QED
      BY <1>23, <3>1, <3>2, <3>3 DEF ExecuteCommand
  <2>5. fromPrinter' \in Seq(Bytes) /\ buffered' \in 0..Len(fromPrinter')
    <3>1. \A v \in PaperValues, i \in 0..N : <<CheckpointAnswer(v, i)>> \in Seq(Bytes)
      BY ByteTypes
    <3>2. buffered' = buffered
      BY <1>23 DEF ExecuteCommand
    <3>3. CASE UNCHANGED fromPrinter
      BY <1>0, <3>2, <3>3 DEF TypeOK
    <3>4. CASE \E v \in PaperValues : Send(<<CheckpointAnswer(v, Head(toPrinter).step)>>)
      BY <1>0, <2>2, <3>1, <3>2, <3>4, SendTypes
    <3>5. QED
      BY <1>23, <3>3, <3>4 DEF ExecuteCommand
  <2>6. QED
    BY <1>0, <1>23, <2>1, <2>4, <2>5 DEF ExecuteCommand, TypeOK
<1>24. CASE SendAsbFrame
  <2>1. fromPrinter' \in Seq(Bytes) /\ buffered' \in 0..Len(fromPrinter')
    BY <1>0, <1>24, ByteTypes, SendTypes DEF SendAsbFrame
  <2>2. QED
    BY <1>0, <1>24, <2>1, BoundAssumption DEF SendAsbFrame, TypeOK
<1>25. CASE SendStrayByte
  <2>1. \A v \in StrayValues : <<[value |-> v, frame |-> 0, step |-> 0]>> \in Seq(Bytes)
    <3>1. \A v \in StrayValues : [value |-> v, frame |-> 0, step |-> 0] \in Bytes
      BY ByteTypes
    <3>2. QED
      BY <3>1, SingletonFacts
  <2>2. fromPrinter' \in Seq(Bytes) /\ buffered' \in 0..Len(fromPrinter')
    BY <1>0, <1>25, <2>1, SendTypes DEF SendStrayByte
  <2>3. QED
    BY <1>0, <1>25, <2>2, BoundAssumption DEF SendStrayByte, TypeOK
<1>26. CASE UNCHANGED vars
  BY <1>0, <1>26 DEF vars, TypeOK
<1>27. QED
  BY <1>1, <1>2, <1>3, <1>4, <1>5, <1>6, <1>7, <1>8, <1>9, <1>11, <1>12, <1>13,
     <1>14, <1>15, <1>16, <1>17, <1>18, <1>19, <1>20, <1>21, <1>22, <1>23,
     <1>24, <1>25, <1>26 DEF Next, Host, Environment

--------------------------------------------------------------------------------
(* The stream from the printer.                                            *)

(* What the printer sends at once: whole frames and single bytes.          *)
WellFramed(b) ==
  /\ b \in Seq(Bytes) /\ Len(b) >= 1
  /\ b[1].frame \in {0, 1}
  /\ \A i \in 1..Len(b) :
       /\ b[i].frame = 1 <=> b[i].value = "asb_header"
       /\ i < Len(b) => IF b[i].frame \in 1..3
                        THEN b[i + 1].frame = b[i].frame + 1
                        ELSE b[i + 1].frame \in {0, 1}
       /\ i = Len(b) => b[i].frame \in {0, 4}

(* How a step can change the stream and the host's place in it.            *)
ReadsStatusByte == StatusByte /\ Consume /\ tail' = tail
SendsBytes ==
  /\ \E b \in Seq(Bytes) : WellFramed(b) /\ Send(b)
  /\ tail' = tail

LEMMA SingleByteIsFramed ==
  ASSUME NEW b \in Bytes, b.frame = 0, b.value # "asb_header"
  PROVE  <<b>> \in Seq(Bytes) /\ WellFramed(<<b>>)
BY SingletonFacts DEF WellFramed

LEMMA AsbFrameIsFramed ==
  ASSUME NEW t \in [2..4 -> TailValues]
  PROVE  AsbFrame(t) \in Seq(Bytes) /\ WellFramed(AsbFrame(t))
<1> DEFINE b == AsbFrame(t)
<1>1. b \in Seq(Bytes) /\ Len(b) = 4
  BY ByteTypes
<1>2. /\ b[1].frame = 1 /\ b[1].value = "asb_header"
      /\ b[2].frame = 2 /\ b[2].value = t[2]
      /\ b[3].frame = 3 /\ b[3].value = t[3]
      /\ b[4].frame = 4 /\ b[4].value = t[4]
  BY DEF AsbFrame
<1>3. t[2] # "asb_header" /\ t[3] # "asb_header" /\ t[4] # "asb_header"
  BY TailAssumption DEF PaperValues
<1> HIDE DEF b
<1>4. QED
  BY <1>1, <1>2, <1>3 DEF WellFramed, b

LEMMA StreamCases ==
  ASSUME CleanLine, TypeOK, [Next]_vars
  PROVE  \/ UNCHANGED <<fromPrinter, tail>>
         \/ ReadsStatusByte
         \/ ReadAsbHeader
         \/ ReadAsbTail
         \/ Connect
         \/ SendsBytes
<1> USE DEF inputVars, hostUnchanged
<1>1. CASE AsbDisableWritten \/ WriteStatusQuery \/ PreflightFails \/ ReleaseStep
           \/ CheckpointFails \/ DrainFails \/ ConfirmStep
  BY <1>1 DEF AsbDisableWritten, WriteStatusQuery, PreflightFails, ReleaseStep,
              CheckpointFails, CheckpointLost, FailStep, DrainFails, ConfirmStep
<1>2. CASE RequestCancel \/ Deliver \/ LoseConnection \/ UNCHANGED vars
  BY <1>2 DEF RequestCancel, Deliver, LoseConnection, vars
<1>3. CASE AcceptStatus \/ RejectStatus \/ UnexpectedInPreflight
           \/ UnexpectedBeforeStep \/ AcceptCheckpoint \/ InvalidCheckpoint
           \/ UnexpectedAfterStep
  BY <1>3 DEF AcceptStatus, RejectStatus, UnexpectedInPreflight,
              UnexpectedBeforeStep, AcceptCheckpoint, InvalidCheckpoint,
              UnexpectedAfterStep, StatusAfterAnswer, FailStep, ReadsStatusByte
<1>4. CASE AnswerStatus
  <2>1. PICK v \in StatusValues : Send(<<StatusAnswer(v)>>)
    BY <1>4 DEF AnswerStatus
  <2>2. StatusAnswer(v) \in Bytes
    BY ByteTypes
  <2>3. StatusAnswer(v).frame = 0 /\ StatusAnswer(v).value # "asb_header"
    BY DEF StatusAnswer, StatusValues
  <2>4. tail' = tail
    BY <1>4 DEF AnswerStatus
  <2>5. QED
    BY <2>1, <2>2, <2>3, <2>4, SingleByteIsFramed DEF SendsBytes
<1>5. CASE ExecuteCommand
  <2>1. tail' = tail
    BY <1>5 DEF ExecuteCommand
  <2>2. CASE UNCHANGED fromPrinter
    BY <2>1, <2>2
  <2>3. CASE \E v \in PaperValues : Send(<<CheckpointAnswer(v, Head(toPrinter).step)>>)
    <3>1. PICK v \in PaperValues : Send(<<CheckpointAnswer(v, Head(toPrinter).step)>>)
      BY <2>3
    <3>2. Head(toPrinter).step \in 0..N
      <4>1. Head(toPrinter) \in Commands
        BY <1>5, TailFacts DEF ExecuteCommand, TypeOK
      <4>2. QED
        BY <4>1 DEF Commands
    <3>3. CheckpointAnswer(v, Head(toPrinter).step) \in Bytes
      BY <3>2, ByteTypes
    <3>4. /\ CheckpointAnswer(v, Head(toPrinter).step).frame = 0
          /\ CheckpointAnswer(v, Head(toPrinter).step).value # "asb_header"
      BY DEF CheckpointAnswer, PaperValues
    <3>5. QED
      BY <2>1, <3>1, <3>3, <3>4, SingleByteIsFramed DEF SendsBytes
  <2>4. QED
    BY <1>5, <2>2, <2>3 DEF ExecuteCommand
<1>6. CASE SendAsbFrame
  BY <1>6, AsbFrameIsFramed DEF SendAsbFrame, SendsBytes
<1>7. CASE SendStrayByte
  <2>1. PICK v \in StrayValues : Send(<<[value |-> v, frame |-> 0, step |-> 0]>>)
    BY <1>7 DEF SendStrayByte
  <2>2. [value |-> v, frame |-> 0, step |-> 0] \in Bytes
    BY ByteTypes
  <2>3. v # "asb_header"
    BY DEF CleanLine
  <2>4. tail' = tail
    BY <1>7 DEF SendStrayByte
  <2>5. QED
    BY <2>1, <2>2, <2>3, <2>4, SingleByteIsFramed DEF SendsBytes
<1>8. QED
  BY <1>1, <1>2, <1>3, <1>4, <1>5, <1>6, <1>7 DEF Next, Host, Environment

LEMMA FramedStep ==
  ASSUME CleanLine, IInv, [Next]_vars
  PROVE  Framed'
<1>0. TypeOK /\ Framed
  BY DEF IInv
<1>1. CASE UNCHANGED <<fromPrinter, tail>>
  BY <1>0, <1>1 DEF Framed
<1>2. ASSUME Consume
      PROVE  /\ fromPrinter # << >> /\ fromPrinter' = Tail(fromPrinter)
             /\ Len(fromPrinter) \in Nat /\ Len(fromPrinter) >= 1
             /\ Head(fromPrinter) = fromPrinter[1]
             /\ Len(fromPrinter') = Len(fromPrinter) - 1
             /\ \A i \in 1..(Len(fromPrinter) - 1) :
                  fromPrinter'[i] = fromPrinter[i + 1]
             /\ fromPrinter' = << >> <=> Len(fromPrinter) = 1
             /\ fromPrinter[1].frame \in 0..4
  <2>1. fromPrinter # << >>
    BY <1>0, <1>2, EmptySeq DEF Consume, TypeOK
  <2>2. fromPrinter' = Tail(fromPrinter)
    BY <1>2 DEF Consume
  <2>3. fromPrinter \in Seq(Bytes)
    BY <1>0 DEF TypeOK
  <2>4. fromPrinter[1].frame \in 0..4
    <3>1. fromPrinter[1] \in Bytes
      BY <2>1, <2>3, TailFacts
    <3>2. QED
      BY <3>1 DEF Bytes
  <2>5. QED
    BY <2>1, <2>2, <2>3, <2>4, TailFacts
<1>3. ASSUME Consume
      PROVE  \A i \in 1..Len(fromPrinter') :
               /\ fromPrinter'[i].frame = 1 <=> fromPrinter'[i].value = "asb_header"
               /\ i < Len(fromPrinter') =>
                    IF fromPrinter'[i].frame \in 1..3
                    THEN fromPrinter'[i + 1].frame = fromPrinter'[i].frame + 1
                    ELSE fromPrinter'[i + 1].frame \in {0, 1}
               /\ i = Len(fromPrinter') => fromPrinter'[i].frame \in {0, 4}
  <2> TAKE i \in 1..Len(fromPrinter')
  <2>1. /\ i + 1 \in 1..Len(fromPrinter)
        /\ fromPrinter'[i] = fromPrinter[i + 1]
        /\ i < Len(fromPrinter') =>
             i + 1 < Len(fromPrinter) /\ fromPrinter'[i + 1] = fromPrinter[i + 1 + 1]
        /\ i = Len(fromPrinter') => i + 1 = Len(fromPrinter)
    BY <1>2, <1>3
  <2>2. QED
    BY <1>0, <2>1 DEF Framed
<1>4. CASE ReadsStatusByte \/ ReadAsbHeader \/ ReadAsbTail
  <2>1. Consume
    BY <1>4 DEF ReadsStatusByte, ReadAsbHeader, BeginAsbFrame, ReadAsbTail
  <2>2. \/ tail = 0 /\ tail' = 0 /\ fromPrinter[1].value # "asb_header"
        \/ tail = 0 /\ tail' = 3 /\ fromPrinter[1].value = "asb_header"
        \/ tail > 0 /\ tail' = tail - 1
    BY <1>2, <1>4, <2>1 DEF ReadsStatusByte, StatusByte, IsBasicAsbHeader,
       ReadAsbHeader, BeginAsbFrame, ReadAsbTail
  <2>3. 1 \in 1..Len(fromPrinter) /\ tail \in 0..3
    BY <1>0, <1>2, <2>1 DEF TypeOK
  <2>4. /\ fromPrinter[1].frame = 1 <=> fromPrinter[1].value = "asb_header"
        /\ 1 < Len(fromPrinter) =>
             IF fromPrinter[1].frame \in 1..3
             THEN fromPrinter[2].frame = fromPrinter[1].frame + 1
             ELSE fromPrinter[2].frame \in {0, 1}
        /\ 1 = Len(fromPrinter) => fromPrinter[1].frame \in {0, 4}
    BY <1>0, <2>3 DEF Framed
  <2>5. IF tail = 0 THEN fromPrinter[1].frame \in {0, 1}
        ELSE fromPrinter[1].frame = 5 - tail
    BY <1>0, <1>2, <2>1 DEF Framed
  <2>6. 1 < Len(fromPrinter) => fromPrinter'[1] = fromPrinter[2]
    BY <1>2, <2>1
  <2>7. IF fromPrinter' = << >> THEN tail' = 0
        ELSE IF tail' = 0 THEN fromPrinter'[1].frame \in {0, 1}
        ELSE fromPrinter'[1].frame = 5 - tail'
    BY <1>2, <2>1, <2>2, <2>3, <2>4, <2>5, <2>6
  <2>8. QED
    BY <1>3, <2>1, <2>7 DEF Framed
<1>5. CASE Connect
  BY <1>5, EmptySeq DEF Connect, Framed
<1>6. CASE SendsBytes
  <2>1. PICK b \in Seq(Bytes) : WellFramed(b) /\ Send(b)
    BY <1>6 DEF SendsBytes
  <2>2. tail' = tail
    BY <1>6 DEF SendsBytes
  <2>3. CASE fromPrinter' = fromPrinter
    BY <1>0, <2>2, <2>3 DEF Framed
  <2>4. CASE fromPrinter' = fromPrinter \o b
    <3> DEFINE n == Len(fromPrinter)
               m == Len(b)
    <3>1. /\ n \in Nat /\ m \in Nat /\ m >= 1
          /\ Len(fromPrinter') = n + m
          /\ \A i \in 1..n : fromPrinter'[i] = fromPrinter[i]
          /\ \A i \in 1..m : fromPrinter'[n + i] = b[i]
      BY <1>0, <2>1, <2>4, ConcatFacts DEF TypeOK, WellFramed
    <3>2. fromPrinter = << >> <=> n = 0
      BY <1>0, EmptySeq, LenProperties DEF TypeOK
    <3> HIDE DEF n, m
    <3>3. ASSUME NEW i \in 1..Len(fromPrinter')
          PROVE  /\ fromPrinter'[i].frame = 1 <=> fromPrinter'[i].value = "asb_header"
                 /\ i < Len(fromPrinter') =>
                      IF fromPrinter'[i].frame \in 1..3
                      THEN fromPrinter'[i + 1].frame = fromPrinter'[i].frame + 1
                      ELSE fromPrinter'[i + 1].frame \in {0, 1}
                 /\ i = Len(fromPrinter') => fromPrinter'[i].frame \in {0, 4}
      <4>1. CASE i < n
        <5>1. i \in 1..n /\ i + 1 \in 1..n /\ i < Len(fromPrinter')
          BY <3>1, <3>3, <4>1
        <5>2. fromPrinter'[i] = fromPrinter[i] /\ fromPrinter'[i + 1] = fromPrinter[i + 1]
          BY <3>1, <5>1
        <5>3. QED
          BY <1>0, <3>1, <4>1, <5>1, <5>2 DEF Framed, n
      <4>2. CASE i = n
        <5>1. i \in 1..n /\ i < Len(fromPrinter') /\ fromPrinter'[i] = fromPrinter[i]
          BY <3>1, <3>3, <4>2
        <5>2. fromPrinter'[i + 1] = b[1]
          BY <3>1, <4>2
        <5>3. fromPrinter[i].frame \in {0, 4}
          BY <1>0, <4>2, <5>1 DEF Framed, n
        <5>4. QED
          BY <1>0, <2>1, <5>1, <5>2, <5>3 DEF Framed, WellFramed, n
      <4>3. CASE i > n
        <5> DEFINE k == i - n
        <5>1. /\ k \in 1..m /\ i = n + k
              /\ i < Len(fromPrinter') <=> k < m
              /\ i = Len(fromPrinter') <=> k = m
          BY <3>1, <3>3, <4>3
        <5>2. fromPrinter'[i] = b[k] /\ (k < m => fromPrinter'[i + 1] = b[k + 1])
          <6>1. k < m => k + 1 \in 1..m /\ i + 1 = n + (k + 1)
            BY <3>1, <5>1
          <6>2. QED
            BY <3>1, <5>1, <6>1
        <5> HIDE DEF k
        <5>3. QED
          BY <2>1, <5>1, <5>2 DEF WellFramed, m
      <4>4. QED
        BY <3>1, <3>3, <4>1, <4>2, <4>3
    <3>4. IF fromPrinter' = << >> THEN tail' = 0
          ELSE IF tail' = 0 THEN fromPrinter'[1].frame \in {0, 1}
          ELSE fromPrinter'[1].frame = 5 - tail'
      <4>1. CASE n = 0
        BY <1>0, <2>1, <2>2, <3>1, <3>2, <4>1 DEF Framed, WellFramed
      <4>2. CASE n > 0
        <5>1. fromPrinter'[1] = fromPrinter[1] /\ fromPrinter # << >>
          BY <3>1, <3>2, <4>2
        <5>2. fromPrinter' # << >>
          BY <3>1, <4>2
        <5>3. QED
          BY <1>0, <2>2, <5>1, <5>2 DEF Framed
      <4>3. QED
        BY <3>1, <4>1, <4>2
    <3>5. QED
      BY <3>3, <3>4 DEF Framed
  <2>5. QED
    BY <2>1, <2>3, <2>4 DEF Send
<1>7. QED
  BY <1>0, <1>1, <1>4, <1>5, <1>6, StreamCases
--------------------------------------------------------------------------------
(* The job at the printer.                                                 *)

LEMMA Naturals ==
  ASSUME TypeOK
  PROVE  /\ N \in Nat /\ N >= 1
         /\ confirmed \in Nat /\ released \in Nat /\ buffered \in Nat
         /\ confirmed <= N /\ released <= N
         /\ Len(printed) \in Nat /\ Len(toPrinter) \in Nat
         /\ Len(fromPrinter) \in Nat
         /\ toPrinter = << >> <=> Len(toPrinter) = 0
         /\ fromPrinter = << >> <=> Len(fromPrinter) = 0
<1>1. /\ Len(printed) \in Nat /\ Len(toPrinter) \in Nat
      /\ Len(fromPrinter) \in Nat
      /\ toPrinter = << >> <=> Len(toPrinter) = 0
      /\ fromPrinter = << >> <=> Len(fromPrinter) = 0
  BY EmptySeq, LenProperties DEF TypeOK
<1>2. QED
  BY <1>1, NAssumption DEF TypeOK

(* The byte taken for an answer is the printer's, and nothing else of the  *)
(* job is then under way.                                                  *)
LEMMA AnswerIsOwn ==
  ASSUME IInv, AcceptCheckpoint
  PROVE  /\ Head(fromPrinter) = fromPrinter[1] /\ 1 \in 1..Len(fromPrinter)
         /\ fromPrinter[1].frame = 0 /\ fromPrinter[1].step > 0
         /\ fromPrinter[1].step = Current
         /\ released = confirmed + 1 /\ Len(printed) = released /\ NoJobPending
         /\ \A i \in 1..Len(fromPrinter) : fromPrinter[i].step > 0 => i = 1
<1>1. TypeOK /\ Framed /\ Answered
  BY DEF IInv
<1>2. /\ tail = 0 /\ buffered > 0 /\ Head(fromPrinter).value \in PaperValues
  BY DEF AcceptCheckpoint, StatusByte
<1>3. fromPrinter # << >> /\ Len(fromPrinter) \in Nat /\ 1 \in 1..Len(fromPrinter)
  BY <1>1, <1>2, Naturals DEF TypeOK
<1>4. Head(fromPrinter) = fromPrinter[1]
  BY <1>1, <1>3, TailFacts DEF TypeOK
<1>5. fromPrinter[1].frame = 0
  BY <1>1, <1>2, <1>3, <1>4 DEF Framed, PaperValues
<1>6. fromPrinter[1].step > 0
  BY <1>1, <1>2, <1>3, <1>4, <1>5 DEF Answered
<1>7. QED
  BY <1>1, <1>3, <1>4, <1>5, <1>6 DEF Answered, Current

(* While a step is with the printer the host waits, fails or accepts.      *)
LEMMA InFlightStep ==
  ASSUME [Next]_vars, pc \in {"response", "done"}
  PROVE  /\ UNCHANGED <<confirmed, released>>
         /\ pc' \in {"response", "done"} \/ AcceptCheckpoint
<1> USE DEF hostUnchanged, counterVars
<1>1. CASE Environment \/ UNCHANGED vars
  BY <1>1 DEF Environment, RequestCancel, Deliver, LoseConnection, AnswerStatus,
     ExecuteCommand, SendAsbFrame, SendStrayByte, vars
<1>2. CASE Host
  <2>1. \/ ReadAsbHeader \/ ReadAsbTail \/ AcceptCheckpoint
        \/ InvalidCheckpoint \/ CheckpointFails
    BY <1>2 DEF Host, Connect, AsbDisableWritten, WriteStatusQuery, AcceptStatus,
       PreflightFails, RejectStatus, UnexpectedInPreflight, UnexpectedBeforeStep,
       ReleaseStep, UnexpectedAfterStep, StatusAfterAnswer, DrainFails, ConfirmStep
  <2>2. QED
    BY <2>1 DEF ReadAsbHeader, BeginAsbFrame, ReadAsbTail, AcceptCheckpoint,
       InvalidCheckpoint, CheckpointFails, CheckpointLost, FailStep, Finish
<1>3. QED
  BY <1>1, <1>2 DEF Next

(* The queue at the printer changes in five ways only.                     *)
LEMMA QueueCases ==
  ASSUME [Next]_vars
  PROVE  \/ UNCHANGED <<toPrinter, asb, printed>>
         \/ Connect \/ WriteStatusQuery \/ ReleaseStep
         \/ AnswerStatus \/ ExecuteCommand
<1> USE DEF hostUnchanged, printerVars
<1>1. CASE ReadAsbHeader \/ ReadAsbTail \/ AsbDisableWritten \/ AcceptStatus
           \/ PreflightFails \/ RejectStatus \/ UnexpectedInPreflight
  BY <1>1 DEF ReadAsbHeader, BeginAsbFrame, ReadAsbTail, AsbDisableWritten,
     AcceptStatus, PreflightFails, RejectStatus, UnexpectedInPreflight
<1>2. CASE UnexpectedBeforeStep \/ AcceptCheckpoint \/ InvalidCheckpoint
           \/ CheckpointFails \/ UnexpectedAfterStep \/ DrainFails \/ ConfirmStep
  BY <1>2 DEF UnexpectedBeforeStep, AcceptCheckpoint, InvalidCheckpoint,
     CheckpointFails, CheckpointLost, UnexpectedAfterStep, StatusAfterAnswer,
     FailStep, DrainFails, ConfirmStep
<1>3. CASE RequestCancel \/ Deliver \/ LoseConnection \/ SendAsbFrame
           \/ SendStrayByte \/ UNCHANGED vars
  BY <1>3 DEF RequestCancel, Deliver, LoseConnection, SendAsbFrame,
     SendStrayByte, vars
<1>4. QED
  BY <1>1, <1>2, <1>3 DEF Next, Host, Environment

(* A pending job command is that of the step in flight.                    *)
LEMMA PendingJob ==
  ASSUME IInv, ~NoJobPending
  PROVE  /\ pc \in {"response", "done"}
         /\ released = confirmed + 1
<1>1. TypeOK /\ Queued
  BY DEF IInv
<1>2. PICK i \in 1..Len(toPrinter) : toPrinter[i].op \in JobOps
  BY DEF NoJobPending
<1>3. CASE toPrinter[i].op = "checkpoint"
  BY <1>1, <1>3 DEF Queued
<1>4. CASE toPrinter[i].op = "print"
  <2>1. i + 1 = Len(toPrinter) /\ toPrinter[i + 1].op = "checkpoint"
    BY <1>1, <1>4 DEF Queued
  <2>2. i + 1 \in 1..Len(toPrinter)
    BY <1>1, <2>1, Naturals
  <2>3. QED
    BY <1>1, <2>1, <2>2 DEF Queued
<1>5. QED
  BY <1>2, <1>3, <1>4 DEF JobOps

(* Facts of a step that hands commands over or carries them out.           *)
LEMMA CarriedOut ==
  ASSUME IInv, ExecuteCommand
  PROVE  /\ Len(toPrinter) \in Nat /\ Len(toPrinter) >= 1
         /\ Head(toPrinter) = toPrinter[1]
         /\ Len(toPrinter') = Len(toPrinter) - 1
         /\ \A i \in 1..(Len(toPrinter) - 1) : toPrinter'[i] = toPrinter[i + 1]
         /\ toPrinter[1].op # "print" => printed' = printed
         /\ toPrinter[1].op = "print" =>
              /\ toPrinter[1].step = released
              /\ Len(printed) + 1 = released
              /\ printed' = Append(printed, released)
              /\ Len(printed') = released
              /\ \A i \in 1..Len(printed) : printed'[i] = printed[i]
              /\ printed'[released] = released
         /\ UNCHANGED <<pc, confirmed, released, cancelled, tail, buffered, conn>>
<1>1. TypeOK /\ Queued
  BY DEF IInv
<1>2. toPrinter \in Seq(Commands) /\ toPrinter # << >> /\ toPrinter' = Tail(toPrinter)
  BY <1>1 DEF TypeOK, ExecuteCommand
<1>3. /\ Len(toPrinter) \in Nat /\ Len(toPrinter) >= 1
      /\ Head(toPrinter) = toPrinter[1]
      /\ Len(toPrinter') = Len(toPrinter) - 1
      /\ \A i \in 1..(Len(toPrinter) - 1) : toPrinter'[i] = toPrinter[i + 1]
  BY <1>2, TailFacts
<1>4. toPrinter[1].op # "print" => printed' = printed
  BY <1>3 DEF ExecuteCommand
<1>5. ASSUME toPrinter[1].op = "print"
      PROVE  /\ toPrinter[1].step = released
             /\ Len(printed) + 1 = released
             /\ printed' = Append(printed, released)
             /\ Len(printed') = released
             /\ \A i \in 1..Len(printed) : printed'[i] = printed[i]
             /\ printed'[released] = released
  <2>1. toPrinter[1].step = released /\ Len(printed) + 1 = released
    BY <1>1, <1>3, <1>5 DEF Queued
  <2>2. printed' = Append(printed, released)
    BY <1>3, <1>5, <2>1 DEF ExecuteCommand
  <2>3. printed \in Seq(1..N) /\ released \in 1..N
    BY <1>1, <2>1, Naturals DEF TypeOK
  <2>4. QED
    BY <2>1, <2>2, <2>3, AppendFacts
<1>6. UNCHANGED <<pc, confirmed, released, cancelled, tail, buffered, conn>>
  BY DEF ExecuteCommand, hostUnchanged, counterVars, verdictVars
<1>7. QED
  BY <1>3, <1>4, <1>5, <1>6

LEMMA PrintedStep ==
  ASSUME IInv, [Next]_vars
  PROVE  PrintedOnceInOrder'
<1>1. PrintedOnceInOrder /\ TypeOK
  BY DEF IInv
<1>2. CASE UNCHANGED printed
  BY <1>1, <1>2 DEF PrintedOnceInOrder
<1>3. CASE ExecuteCommand
  <2>1. CASE toPrinter[1].op # "print"
    BY <1>2, <1>3, <2>1, CarriedOut
  <2>2. CASE toPrinter[1].op = "print"
    <3>1. /\ Len(printed) \in Nat /\ Len(printed) + 1 = released
          /\ Len(printed') = released /\ printed'[released] = released
          /\ \A i \in 1..Len(printed) : printed'[i] = printed[i]
      BY <1>1, <1>3, <2>2, CarriedOut, Naturals
    <3>2. \A i \in 1..released : i = released \/ i \in 1..Len(printed)
      BY <3>1
    <3>3. QED
      BY <1>1, <3>1, <3>2 DEF PrintedOnceInOrder
  <2>3. QED
    BY <2>1, <2>2
<1>4. QED
  BY <1>2, <1>3, QueueCases DEF Connect, WriteStatusQuery, ReleaseStep, AnswerStatus

(* Only a released step puts a job command into the queue.                 *)
LEMMA IdleStep ==
  ASSUME IInv, [Next]_vars, NoJobPending, ~ReleaseStep
  PROVE  NoJobPending' /\ printed' = printed
<1>1. TypeOK
  BY DEF IInv
<1>2. CASE UNCHANGED <<toPrinter, asb, printed>>
  BY <1>2 DEF NoJobPending
<1>3. CASE Connect
  BY <1>3 DEF Connect, NoJobPending, JobOps
<1>4. CASE WriteStatusQuery
  <2>1. /\ Len(toPrinter) \in Nat /\ Len(toPrinter') = Len(toPrinter) + 1
        /\ \A i \in 1..Len(toPrinter) : toPrinter'[i] = toPrinter[i]
        /\ toPrinter'[Len(toPrinter) + 1] = [op |-> "status", step |-> 0]
    BY <1>1, <1>4, CommandTypes, AppendFacts DEF WriteStatusQuery, TypeOK
  <2>2. QED
    BY <1>4, <2>1 DEF WriteStatusQuery, NoJobPending, JobOps
<1>5. CASE AnswerStatus
  <2>1. /\ Len(toPrinter) \in Nat /\ Len(toPrinter') = Len(toPrinter) - 1
        /\ \A i \in 1..(Len(toPrinter) - 1) : toPrinter'[i] = toPrinter[i]
    BY <1>1, <1>5, FrontFacts DEF AnswerStatus, TypeOK
  <2>2. QED
    BY <1>5, <2>1 DEF AnswerStatus, NoJobPending
<1>6. CASE ExecuteCommand
  <2>1. toPrinter[1].op # "print"
    BY <1>6, CarriedOut DEF NoJobPending, JobOps
  <2>2. ASSUME NEW i \in 1..Len(toPrinter')
        PROVE  i + 1 \in 1..Len(toPrinter) /\ toPrinter'[i] = toPrinter[i + 1]
    BY <1>6, CarriedOut
  <2>3. QED
    BY <1>6, <2>1, <2>2, CarriedOut DEF NoJobPending
<1>7. QED
  BY <1>2, <1>3, <1>4, <1>5, <1>6, QueueCases
(* What a release adds behind the commands already queued.                 *)
LEMMA ReleasedQueue ==
  ASSUME IInv, ReleaseStep, conn = "up"
  PROVE  LET n == Len(toPrinter)
             q == CheckpointRequest(released')
         IN  /\ n \in Nat /\ Len(q) \in Nat /\ Len(q) >= 2
             /\ Len(toPrinter') = n + Len(q)
             /\ \A i \in 1..n : toPrinter'[i] = toPrinter[i]
             /\ \A k \in 1..Len(q) : toPrinter'[n + k] = q[k]
             /\ NoJobPending
             /\ released' = confirmed + 1 /\ released' \in 1..N
             /\ Len(printed) + 1 = released' /\ UNCHANGED <<confirmed, printed>>
             /\ pc' = "response"
<1> DEFINE q == CheckpointRequest(released')
<1>1. TypeOK /\ Counters
  BY DEF IInv
<1>2. /\ pc = "check" /\ released' = released + 1 /\ pc' = "response"
      /\ toPrinter' = toPrinter \o CheckpointRequest(Current)
      /\ UNCHANGED <<confirmed, printed>>
  BY DEF ReleaseStep
<1>3. /\ released = confirmed /\ confirmed < N /\ NoJobPending
      /\ Len(printed) = released
  BY <1>1, <1>2, Naturals DEF Counters
<1>4. released' = confirmed + 1 /\ released' \in 1..N /\ Len(printed) + 1 = released'
  BY <1>1, <1>2, <1>3, Naturals
<1>5. Current = released'
  BY <1>4 DEF Current
<1>6. q \in Seq(Commands) /\ Len(q) \in Nat /\ Len(q) >= 2
  BY <1>4, RequestFacts
<1>7. toPrinter' = toPrinter \o q
  BY <1>2, <1>5
<1> HIDE DEF q
<1>8. toPrinter \in Seq(Commands)
  BY <1>1 DEF TypeOK
<1>9. /\ Len(toPrinter') = Len(toPrinter) + Len(q)
      /\ Len(toPrinter) \in Nat
      /\ \A i \in 1..Len(toPrinter) : toPrinter'[i] = toPrinter[i]
      /\ \A k \in 1..Len(q) : toPrinter'[Len(toPrinter) + k] = q[k]
  BY <1>6, <1>7, <1>8, ConcatFacts
<1>10. QED
  BY <1>2, <1>3, <1>4, <1>6, <1>9 DEF q

(* The job stays queued in order, each ESC @ ahead of its ASB disable.     *)
LEMMA QueuedStep ==
  ASSUME IInv, [Next]_vars
  PROVE  Queued'
<1>1. TypeOK /\ Queued /\ Counters
  BY DEF IInv
<1>2. CASE ReleaseStep /\ conn = "up"
  <2> DEFINE n == Len(toPrinter)
             q == CheckpointRequest(released')
             m == Len(q)
  <2>1. /\ n \in Nat /\ m \in Nat /\ m >= 2
        /\ Len(toPrinter') = n + m
        /\ \A i \in 1..n : toPrinter'[i] = toPrinter[i]
        /\ \A k \in 1..m : toPrinter'[n + k] = q[k]
        /\ NoJobPending
        /\ released' = confirmed + 1 /\ released' \in 1..N
        /\ Len(printed) + 1 = released' /\ UNCHANGED <<confirmed, printed>>
        /\ pc' = "response"
    BY <1>2, ReleasedQueue
  <2>2. /\ q[m].op = "checkpoint" /\ q[m - 1].op = "print"
        /\ \A k \in 1..m : q[k].step = released'
        /\ \A k \in 1..(m - 2) :
             /\ q[k].op \in {"init", "asb_off"}
             /\ q[k].op = "init" => q[k + 1].op = "asb_off"
    BY <2>1, RequestFacts
  <2> HIDE DEF n, m, q
  <2>3. ASSUME NEW i \in 1..Len(toPrinter')
        PROVE  /\ toPrinter'[i].op = "init" =>
                    i < Len(toPrinter') /\ toPrinter'[i + 1].op = "asb_off"
               /\ toPrinter'[i].op = "print" =>
                    /\ i + 1 = Len(toPrinter')
                    /\ toPrinter'[i + 1].op = "checkpoint"
                    /\ toPrinter'[i].step = released'
               /\ toPrinter'[i].op = "checkpoint" =>
                    /\ i = Len(toPrinter')
                    /\ toPrinter'[i].step = released'
                    /\ i > 1 /\ toPrinter'[i - 1].op = "print"
    <3>1. CASE i <= n
      <4>1. i \in 1..n /\ i \in 1..Len(toPrinter)
        BY <2>1, <3>1 DEF n
      <4>2. /\ toPrinter[i].op \notin JobOps
            /\ toPrinter[i].op = "init" =>
                 i < Len(toPrinter) /\ toPrinter[i + 1].op = "asb_off"
        BY <1>1, <2>1, <4>1 DEF Queued, NoJobPending
      <4>3. toPrinter'[i] = toPrinter[i]
        BY <2>1, <4>1
      <4>4. i < Len(toPrinter) => toPrinter'[i + 1] = toPrinter[i + 1]
        <5>1. i < Len(toPrinter) => i + 1 \in 1..n
          BY <2>1, <4>1 DEF n
        <5>2. QED
          BY <2>1, <5>1
      <4>5. i < Len(toPrinter')
        BY <2>1, <4>1
      <4>6. QED
        BY <4>2, <4>3, <4>4, <4>5 DEF JobOps
    <3>2. CASE i > n
      <4> DEFINE k == i - n
      <4>1. /\ k \in 1..m /\ i = n + k
            /\ i < Len(toPrinter') <=> k < m
            /\ i = Len(toPrinter') <=> k = m
            /\ k = m - 1 <=> i + 1 = Len(toPrinter')
        BY <2>1, <2>3, <3>2
      <4>2. toPrinter'[i] = q[k]
        BY <2>1, <4>1
      <4>3. k < m => toPrinter'[i + 1] = q[k + 1]
        <5>1. k < m => k + 1 \in 1..m /\ i + 1 = n + (k + 1)
          BY <2>1, <4>1
        <5>2. QED
          BY <2>1, <5>1
      <4>4. k = m => i > 1 /\ toPrinter'[i - 1] = q[m - 1]
        <5>1. k = m => m - 1 \in 1..m /\ i - 1 = n + (m - 1) /\ i > 1
          BY <2>1, <4>1
        <5>2. QED
          BY <2>1, <5>1
      <4> HIDE DEF k
      <4>5. k = m \/ k = m - 1 \/ k \in 1..(m - 2)
        BY <2>1, <4>1
      <4>6. CASE k = m
        BY <2>1, <2>2, <4>1, <4>2, <4>4, <4>6
      <4>7. CASE k = m - 1
        BY <2>1, <2>2, <4>1, <4>2, <4>3, <4>7
      <4>8. CASE k \in 1..(m - 2)
        BY <2>1, <2>2, <4>1, <4>2, <4>3, <4>8
      <4>9. QED
        BY <4>5, <4>6, <4>7, <4>8
    <3>3. QED
      BY <2>1, <2>3, <3>1, <3>2
  <2>4. /\ Len(printed') + 1 = released' /\ released' = confirmed' + 1
        /\ pc' \in {"response", "done"}
    BY <2>1
  <2>5. QED
    BY <2>3, <2>4 DEF Queued
<1>3. CASE NoJobPending /\ ~(ReleaseStep /\ conn = "up")
  <2>1. NoJobPending'
    <3>1. CASE ReleaseStep
      BY <1>3, <3>1 DEF ReleaseStep, NoJobPending
    <3>2. QED
      BY <1>3, <3>1, IdleStep
  <2>2. ASSUME NEW i \in 1..Len(toPrinter'), toPrinter'[i].op = "init"
        PROVE  i < Len(toPrinter') /\ toPrinter'[i + 1].op = "asb_off"
    <3>1. CASE UNCHANGED toPrinter
      BY <1>1, <2>2, <3>1 DEF Queued
    <3>2. CASE Connect
      BY <2>2, <3>2 DEF Connect
    <3>3. CASE WriteStatusQuery
      <4>1. /\ Len(toPrinter) \in Nat /\ Len(toPrinter') = Len(toPrinter) + 1
            /\ \A k \in 1..Len(toPrinter) : toPrinter'[k] = toPrinter[k]
            /\ toPrinter'[Len(toPrinter) + 1] = [op |-> "status", step |-> 0]
        BY <1>1, <3>3, CommandTypes, AppendFacts DEF WriteStatusQuery, TypeOK
      <4>2. i \in 1..Len(toPrinter)
        BY <2>2, <4>1
      <4>3. i < Len(toPrinter) /\ toPrinter[i + 1].op = "asb_off"
        BY <1>1, <2>2, <4>1, <4>2 DEF Queued
      <4>4. i + 1 \in 1..Len(toPrinter)
        BY <4>1, <4>2, <4>3
      <4>5. QED
        BY <4>1, <4>3, <4>4
    <3>4. CASE AnswerStatus
      <4>1. /\ Len(toPrinter) \in Nat /\ Len(toPrinter') = Len(toPrinter) - 1
            /\ \A k \in 1..(Len(toPrinter) - 1) : toPrinter'[k] = toPrinter[k]
            /\ toPrinter[Len(toPrinter)].op = "status"
        BY <1>1, <3>4, FrontFacts DEF AnswerStatus, TypeOK
      <4>2. i \in 1..Len(toPrinter) /\ i \in 1..(Len(toPrinter) - 1)
        BY <2>2, <4>1
      <4>3. i < Len(toPrinter) /\ toPrinter[i + 1].op = "asb_off"
        BY <1>1, <2>2, <4>1, <4>2 DEF Queued
      <4>4. i + 1 \in 1..(Len(toPrinter) - 1)
        BY <4>1, <4>2, <4>3
      <4>5. QED
        BY <4>1, <4>3, <4>4
    <3>5. CASE ExecuteCommand
      <4>1. /\ i + 1 \in 1..Len(toPrinter) /\ toPrinter'[i] = toPrinter[i + 1]
            /\ Len(toPrinter') = Len(toPrinter) - 1 /\ Len(toPrinter) \in Nat
        BY <2>2, <3>5, CarriedOut
      <4>2. i + 1 < Len(toPrinter) /\ toPrinter[i + 1 + 1].op = "asb_off"
        BY <1>1, <2>2, <4>1 DEF Queued
      <4>3. i + 1 \in 1..(Len(toPrinter) - 1)
        BY <4>1, <4>2
      <4>4. toPrinter'[i + 1] = toPrinter[i + 1 + 1]
        BY <3>5, <4>3, CarriedOut
      <4>5. QED
        BY <4>1, <4>2, <4>4
    <3>6. CASE ReleaseStep
      BY <1>3, <3>1, <3>6 DEF ReleaseStep
    <3>7. QED
      BY <3>1, <3>2, <3>3, <3>4, <3>5, <3>6, QueueCases
  <2>3. QED
    BY <2>1, <2>2 DEF Queued, NoJobPending, JobOps
<1>4. CASE ~NoJobPending
  <2>1. /\ pc \in {"response", "done"} /\ released = confirmed + 1
        /\ UNCHANGED <<confirmed, released>> /\ pc' \in {"response", "done"}
    BY <1>4, PendingJob, InFlightStep, AnswerIsOwn
  <2>2. CASE UNCHANGED <<toPrinter, asb, printed>>
    BY <1>1, <2>1, <2>2 DEF Queued
  <2>3. CASE AnswerStatus
    <3>1. PICK i \in 1..Len(toPrinter) : toPrinter[i].op \in JobOps
      BY <1>4 DEF NoJobPending
    <3>2. toPrinter[Len(toPrinter)].op = "checkpoint"
      BY <1>1, <3>1 DEF Queued, JobOps
    <3>3. QED
      BY <2>3, <3>2 DEF AnswerStatus
  <2>4. CASE ExecuteCommand
    <3>1. /\ Len(toPrinter) \in Nat /\ Len(toPrinter') = Len(toPrinter) - 1
          /\ Len(printed) \in Nat /\ 1 \in 1..Len(toPrinter)
      BY <1>1, <2>4, CarriedOut, Naturals
    <3>2. ASSUME NEW i \in 1..Len(toPrinter')
          PROVE  /\ i + 1 \in 1..Len(toPrinter) /\ toPrinter'[i] = toPrinter[i + 1]
                 /\ i < Len(toPrinter') => toPrinter'[i + 1] = toPrinter[i + 1 + 1]
                 /\ i > 1 => toPrinter'[i - 1] = toPrinter[i]
                 /\ i < Len(toPrinter') <=> i + 1 < Len(toPrinter)
                 /\ i = Len(toPrinter') <=> i + 1 = Len(toPrinter)
                 /\ i + 1 = Len(toPrinter') <=> i + 1 + 1 = Len(toPrinter)
      <4>1. /\ i + 1 \in 1..Len(toPrinter) /\ i \in 1..(Len(toPrinter) - 1)
            /\ i < Len(toPrinter') => i + 1 \in 1..(Len(toPrinter) - 1)
            /\ i > 1 => i - 1 \in 1..(Len(toPrinter) - 1) /\ (i - 1) + 1 = i
            /\ i < Len(toPrinter') <=> i + 1 < Len(toPrinter)
            /\ i = Len(toPrinter') <=> i + 1 = Len(toPrinter)
            /\ i + 1 = Len(toPrinter') <=> i + 1 + 1 = Len(toPrinter)
        BY <3>1, <3>2
      <4>2. \A k \in 1..(Len(toPrinter) - 1) : toPrinter'[k] = toPrinter[k + 1]
        BY <2>4, CarriedOut
      <4>3. i > 1 => toPrinter'[i - 1] = toPrinter[(i - 1) + 1]
        BY <4>1, <4>2
      <4>4. QED
        BY <4>1, <4>2, <4>3
    <3>3. ASSUME NEW i \in 1..Len(toPrinter')
          PROVE  toPrinter'[i].op = "init" =>
                   i < Len(toPrinter') /\ toPrinter'[i + 1].op = "asb_off"
      BY <1>1, <3>2 DEF Queued
    <3>4. ASSUME NEW i \in 1..Len(toPrinter'), toPrinter'[i].op = "print"
          PROVE  /\ i + 1 = Len(toPrinter')
                 /\ toPrinter'[i + 1].op = "checkpoint"
                 /\ toPrinter'[i].step = released'
                 /\ Len(printed') + 1 = released'
      <4>1. /\ i + 1 + 1 = Len(toPrinter)
            /\ toPrinter[i + 1 + 1].op = "checkpoint"
            /\ toPrinter[i + 1].step = released
            /\ Len(printed) + 1 = released
        BY <1>1, <3>2, <3>4 DEF Queued
      <4>2. toPrinter[1].op # "print"
        BY <1>1, <3>1, <3>4, <4>1 DEF Queued
      <4>3. printed' = printed
        BY <2>4, <4>2, CarriedOut
      <4>4. i < Len(toPrinter') /\ i + 1 = Len(toPrinter')
        BY <3>1, <3>2, <4>1
      <4>5. QED
        BY <2>1, <3>2, <4>1, <4>3, <4>4
    <3>5. ASSUME NEW i \in 1..Len(toPrinter'), toPrinter'[i].op = "checkpoint"
          PROVE  /\ i = Len(toPrinter')
                 /\ toPrinter'[i].step = released'
                 /\ Len(printed') # released' =>
                      i > 1 /\ toPrinter'[i - 1].op = "print"
      <4>1. /\ i + 1 = Len(toPrinter)
            /\ toPrinter[i + 1].step = released
            /\ Len(printed) # released => toPrinter[(i + 1) - 1].op = "print"
        BY <1>1, <3>2, <3>5 DEF Queued
      <4>2. (i + 1) - 1 = i
        BY <3>1, <3>5
      <4>3. CASE Len(printed) # released
        <5>1. toPrinter[i].op = "print"
          BY <4>1, <4>2, <4>3
        <5>2. CASE i = 1
          BY <2>1, <2>4, <3>2, <4>1, <5>1, <5>2, CarriedOut
        <5>3. CASE i > 1
          BY <2>1, <3>2, <4>1, <5>1, <5>3
        <5>4. QED
          BY <3>1, <3>5, <5>2, <5>3
      <4>4. CASE Len(printed) = released
        <5>1. toPrinter[1].op # "print"
          BY <1>1, <3>1, <4>4, Naturals DEF Queued
        <5>2. printed' = printed
          BY <2>4, <5>1, CarriedOut
        <5>3. QED
          BY <2>1, <3>2, <4>1, <4>4, <5>2
      <4>5. QED
        BY <4>3, <4>4
    <3>6. QED
      BY <2>1, <3>3, <3>4, <3>5 DEF Queued
  <2>5. QED
    BY <2>1, <2>2, <2>3, <2>4, QueueCases DEF Connect, WriteStatusQuery, ReleaseStep
<1>5. QED
  BY <1>2, <1>3, <1>4, PendingJob DEF ReleaseStep
LEMMA AsbGuardedStep ==
  ASSUME IInv, [Next]_vars
  PROVE  AsbGuarded'
<1>1. TypeOK /\ AsbGuarded /\ Queued
  BY DEF IInv
<1>2. CASE UNCHANGED <<toPrinter, asb, printed>>
  BY <1>1, <1>2 DEF AsbGuarded
<1>3. CASE Connect
  BY <1>3 DEF Connect, AsbGuarded
<1>4. CASE WriteStatusQuery
  <2>1. /\ Len(toPrinter) \in Nat /\ Len(toPrinter') = Len(toPrinter) + 1
        /\ \A k \in 1..Len(toPrinter) : toPrinter'[k] = toPrinter[k]
        /\ toPrinter' \in Seq(Commands)
    BY <1>1, <1>4, CommandTypes, AppendFacts DEF WriteStatusQuery, TypeOK
  <2>2. asb => 1 \in 1..Len(toPrinter) /\ toPrinter[1].op = "asb_off"
    BY <1>1, <2>1, Naturals DEF AsbGuarded
  <2>3. asb' = asb /\ toPrinter' # << >>
    BY <1>4, <2>1, EmptySeq DEF WriteStatusQuery
  <2>4. QED
    BY <2>1, <2>2, <2>3 DEF AsbGuarded
<1>5. CASE ReleaseStep
  <2>1. CASE conn = "up"
    <3> DEFINE q == CheckpointRequest(released')
    <3>1. /\ Len(toPrinter) \in Nat /\ Len(q) \in Nat
          /\ Len(toPrinter') = Len(toPrinter) + Len(q)
          /\ \A i \in 1..Len(toPrinter) : toPrinter'[i] = toPrinter[i]
      BY <1>5, <2>1, ReleasedQueue
    <3> HIDE DEF q
    <3>2. asb => 1 \in 1..Len(toPrinter) /\ toPrinter[1].op = "asb_off"
      BY <1>1, <3>1, Naturals DEF AsbGuarded
    <3>3. asb' = asb
      BY <1>5 DEF ReleaseStep
    <3>4. asb => toPrinter' # << >>
      BY <3>1, <3>2, EmptySeq
    <3>5. QED
      BY <3>1, <3>2, <3>3, <3>4 DEF AsbGuarded
  <2>2. CASE conn # "up"
    BY <1>1, <1>5, <2>2 DEF ReleaseStep, AsbGuarded
  <2>3. QED
    BY <2>1, <2>2
<1>6. CASE AnswerStatus
  <2>1. /\ Len(toPrinter) \in Nat /\ Len(toPrinter) >= 1
        /\ Len(toPrinter') = Len(toPrinter) - 1
        /\ \A k \in 1..(Len(toPrinter) - 1) : toPrinter'[k] = toPrinter[k]
        /\ toPrinter[Len(toPrinter)].op = "status"
    BY <1>1, <1>6, FrontFacts DEF AnswerStatus, TypeOK
  <2>2. asb => 1 \in 1..(Len(toPrinter) - 1) /\ toPrinter[1].op = "asb_off"
    BY <1>1, <2>1 DEF AsbGuarded
  <2>3. asb' = asb
    BY <1>6 DEF AnswerStatus
  <2>4. asb => toPrinter' # << >>
    BY <2>1, <2>2, EmptySeq
  <2>5. QED
    BY <2>1, <2>2, <2>3, <2>4 DEF AsbGuarded
<1>7. CASE ExecuteCommand
  <2>1. /\ Len(toPrinter) \in Nat /\ 1 \in 1..Len(toPrinter)
        /\ Head(toPrinter) = toPrinter[1]
        /\ Len(toPrinter') = Len(toPrinter) - 1
        /\ \A i \in 1..(Len(toPrinter) - 1) : toPrinter'[i] = toPrinter[i + 1]
    BY <1>7, CarriedOut
  <2>2. \/ toPrinter[1].op = "init"
        \/ asb' = FALSE
        \/ toPrinter[1].op \in {"print", "checkpoint"} /\ asb' = asb
    BY <1>7, <2>1 DEF ExecuteCommand
  <2>3. CASE toPrinter[1].op = "init"
    <3>1. 1 < Len(toPrinter) /\ toPrinter[1 + 1].op = "asb_off"
      BY <1>1, <2>1, <2>3 DEF Queued
    <3>2. toPrinter'[1] = toPrinter[1 + 1] /\ toPrinter' # << >>
      BY <2>1, <3>1, EmptySeq
    <3>3. QED
      BY <3>1, <3>2 DEF AsbGuarded
  <2>4. QED
    BY <1>1, <2>2, <2>3 DEF AsbGuarded
<1>8. QED
  BY <1>2, <1>3, <1>4, <1>5, <1>6, <1>7, QueueCases

--------------------------------------------------------------------------------
(* The host.                                                               *)

(* The counters change in two actions; pc moves as the host actions say.   *)
LEMMA HostCases ==
  ASSUME [Next]_vars
  PROVE  \/ ReleaseStep \/ ConfirmStep \/ AcceptCheckpoint
         \/ /\ UNCHANGED <<confirmed, released>>
            /\ \/ pc' = pc /\ (conn' = conn \/ conn' = "ended")
               \/ pc' = "done"
               \/ /\ pc \in {"open", "opened", "exchange", "answer"}
                  /\ pc' \in {"open", "opened", "exchange", "answer"}
                  /\ pc' # "open" => conn' = conn \/ conn' = "up"
                  /\ pc = "open" => conn' = "up"
               \/ AcceptStatus /\ NextStep(0)
<1> USE DEF hostUnchanged, preflightUnchanged, counterVars, verdictVars
<1>1. CASE Environment \/ UNCHANGED vars
  BY <1>1 DEF Environment, RequestCancel, Deliver, LoseConnection, AnswerStatus,
     ExecuteCommand, SendAsbFrame, SendStrayByte, vars
<1>2. CASE ReadAsbHeader \/ ReadAsbTail \/ Connect \/ AsbDisableWritten
           \/ WriteStatusQuery
  BY <1>2 DEF ReadAsbHeader, BeginAsbFrame, ReadAsbTail, Connect,
     AsbDisableWritten, WriteStatusQuery
<1>3. CASE AcceptStatus
  BY <1>3 DEF AcceptStatus, Finish
<1>4. CASE PreflightFails
  BY <1>4 DEF PreflightFails, ConnectFails, RotateSourcePort, TryNextPort, Finish
<1>5. CASE RejectStatus \/ UnexpectedInPreflight \/ UnexpectedBeforeStep
           \/ InvalidCheckpoint \/ CheckpointFails \/ UnexpectedAfterStep
           \/ DrainFails
  BY <1>5 DEF RejectStatus, UnexpectedInPreflight, UnexpectedBeforeStep,
     InvalidCheckpoint, CheckpointFails, CheckpointLost, UnexpectedAfterStep,
     StatusAfterAnswer, DrainFails, FailStep, Finish
<1>6. QED
  BY <1>1, <1>2, <1>3, <1>4, <1>5 DEF Next, Host

(* The end of a step.                                                      *)
LEMMA ConfirmFacts ==
  ASSUME IInv, ConfirmStep
  PROVE  /\ pc = "after" /\ confirmed' = confirmed + 1 /\ released' = released
         /\ released = confirmed' /\ Len(printed) = released /\ NoJobPending
         /\ NoJobPending' /\ printed' = printed
         /\ tail = 0 /\ buffered = 0 /\ tail' = 0 /\ buffered' = 0
         /\ cancelled' = cancelled
         /\ confirmed' \in 1..N
         /\ \/ /\ pc' = "done" /\ conn' = "ended"
               /\ \/ result' = Failed("LIVE_PAPER_OUT", confirmed', confirmed', released, FALSE)
                  \/ confirmed' = N /\ result' = Completed(N)
                  \/ confirmed' < N /\ result' = Cancelled(confirmed')
            \/ /\ pc' = "check" /\ ~cancelled /\ confirmed' < N
               /\ UNCHANGED verdictVars
<1>1. TypeOK /\ Counters
  BY DEF IInv
<1>2. pc = "after" /\ Drained /\ confirmed' = confirmed + 1
  BY DEF ConfirmStep
<1>3. /\ released = confirmed + 1 /\ Len(printed) = released /\ NoJobPending
  BY <1>1, <1>2 DEF Counters
<1>4. /\ released' = released /\ tail' = tail /\ buffered' = buffered
      /\ cancelled' = cancelled /\ printed' = printed /\ toPrinter' = toPrinter
  BY DEF ConfirmStep, inputVars, printerVars
<1>5. NoJobPending'
  BY <1>3, <1>4 DEF NoJobPending
<1>6. confirmed' \in 1..N
  BY <1>1, <1>2, <1>3, Naturals
<1>7. AfterConfirmation(confirmed')
  BY <1>2 DEF ConfirmStep
<1>8. Current = confirmed'
  BY <1>2 DEF Current
<1>9. \/ /\ pc' = "done" /\ conn' = "ended"
         /\ \/ result' = Failed("LIVE_PAPER_OUT", confirmed', confirmed', released, FALSE)
            \/ confirmed' = N /\ result' = Completed(N)
            \/ confirmed' < N /\ result' = Cancelled(confirmed')
      \/ /\ pc' = "check" /\ ~cancelled /\ confirmed' < N
         /\ UNCHANGED verdictVars
  BY <1>7, <1>8 DEF AfterConfirmation, NextStep, Finish
<1>10. QED
  BY <1>2, <1>3, <1>4, <1>5, <1>6, <1>9 DEF Drained

LEMMA CountersStep ==
  ASSUME IInv, [Next]_vars
  PROVE  Counters'
<1>1. TypeOK /\ Counters
  BY DEF IInv
<1>2. CASE ReleaseStep
  <2>1. /\ pc = "check" /\ released' = released + 1 /\ UNCHANGED <<confirmed, printed>>
        /\ pc' \in {"response", "done"}
        /\ pc' = "response" => conn' = conn
    BY <1>2 DEF ReleaseStep, verdictVars, Finish
  <2>2. QED
    BY <1>1, <2>1, Naturals DEF Counters
<1>3. CASE ConfirmStep
  <2>1. /\ pc = "after" /\ confirmed' = confirmed + 1 /\ released' = released
        /\ released = confirmed' /\ Len(printed) = released
        /\ NoJobPending' /\ printed' = printed
        /\ \/ pc' = "done"
           \/ pc' = "check" /\ confirmed' < N /\ conn' = conn
    BY <1>3, ConfirmFacts DEF verdictVars
  <2>2. QED
    BY <1>1, <2>1, Naturals DEF Counters
<1>4. CASE AcceptCheckpoint
  <2>1. /\ pc = "response" /\ pc' = "after" /\ conn' = conn
        /\ UNCHANGED <<confirmed, released, printed, toPrinter>>
    BY <1>4 DEF AcceptCheckpoint, counterVars, verdictVars, printerVars
  <2>2. released = confirmed + 1 /\ Len(printed) = released /\ NoJobPending
    BY <1>4, AnswerIsOwn
  <2>3. NoJobPending'
    BY <2>1, <2>2 DEF NoJobPending
  <2>4. QED
    BY <1>1, <2>1, <2>2, <2>3, Naturals DEF Counters
<1>5. CASE ~ReleaseStep /\ ~ConfirmStep /\ ~AcceptCheckpoint
  <2>1. UNCHANGED <<confirmed, released>>
    BY <1>5, HostCases
  <2>2. NoJobPending => NoJobPending' /\ printed' = printed
    BY <1>5, IdleStep
  <2>3. /\ Len(printed) <= Len(printed') /\ Len(printed') <= released
        /\ Len(printed') \in Nat
    <3>1. CASE UNCHANGED printed
      BY <1>1, <3>1, Naturals DEF Counters
    <3>2. CASE ExecuteCommand
      BY <1>1, <3>2, CarriedOut, Naturals DEF Counters
    <3>3. QED
      BY <3>1, <3>2, QueueCases DEF Connect, WriteStatusQuery, ReleaseStep, AnswerStatus
  <2>4. CASE AcceptStatus /\ NextStep(0)
    <3>1. pc = "answer" /\ (pc' = "done" \/ (pc' = "check" /\ conn' = conn))
      BY <2>4 DEF AcceptStatus, NextStep, Finish, verdictVars
    <3>2. released = 0 /\ confirmed = 0 /\ N >= 1
      BY <1>1, <3>1, Naturals DEF Counters
    <3>3. QED
      BY <1>1, <2>1, <2>2, <2>3, <3>1, <3>2, Naturals DEF Counters
  <2>5. CASE \/ pc' = pc /\ (conn' = conn \/ conn' = "ended")
             \/ pc' = "done"
             \/ /\ pc \in {"open", "opened", "exchange", "answer"}
                /\ pc' \in {"open", "opened", "exchange", "answer"}
                /\ pc' # "open" => conn' = conn \/ conn' = "up"
                /\ pc = "open" => conn' = "up"
    BY <1>1, <2>1, <2>2, <2>3, <2>5, Naturals DEF Counters
  <2>6. QED
    BY <1>5, <2>4, <2>5, HostCases
<1>6. QED
  BY <1>2, <1>3, <1>4, <1>5

LEMMA LaterCheckStep ==
  ASSUME IInv, [Next]_vars
  PROVE  LaterCheckIsQuiet'
<1>1. TypeOK /\ Counters /\ LaterCheckIsQuiet
  BY DEF IInv
<1>2. CASE pc' # "check"
  BY <1>2 DEF LaterCheckIsQuiet
<1>3. CASE ConfirmStep
  <2>1. /\ tail' = 0 /\ buffered' = 0 /\ cancelled' = cancelled
        /\ pc' = "check" => ~cancelled
    BY <1>3, ConfirmFacts
  <2>2. QED
    BY <2>1 DEF LaterCheckIsQuiet
<1>4. CASE AcceptStatus /\ NextStep(0)
  <2>1. confirmed' = 0
    BY <1>1, <1>4, Naturals DEF AcceptStatus, preflightUnchanged, counterVars, Counters
  <2>2. QED
    BY <2>1 DEF LaterCheckIsQuiet
<1>5. CASE pc = "check" /\ pc' = "check" /\ UNCHANGED confirmed
  <2>1. CASE confirmed = 0
    BY <1>5, <2>1 DEF LaterCheckIsQuiet
  <2>2. CASE confirmed > 0
    <3>1. buffered = 0 /\ tail = 0 /\ ~Reading /\ ~HostWaiting
      BY <1>1, <1>5, <2>2, Naturals DEF LaterCheckIsQuiet, Reading, HostWaiting, Awaiting
    <3>2. UNCHANGED <<buffered, tail, cancelled>>
      <4> USE DEF hostUnchanged, inputVars
      <4>1. CASE Environment \/ UNCHANGED vars
        BY <1>5, <3>1, <4>1 DEF Environment, RequestCancel, Deliver,
           LoseConnection, AnswerStatus, ExecuteCommand, SendAsbFrame,
           SendStrayByte, vars
      <4>2. CASE Host
        <5>1. ReleaseStep \/ DrainFails \/ PreflightFails
          BY <1>1, <1>5, <3>1, <4>2, Naturals DEF Host, ReadAsbHeader, BeginAsbFrame,
             ReadAsbTail, Connect, AsbDisableWritten, WriteStatusQuery,
             AcceptStatus, RejectStatus, UnexpectedInPreflight,
             UnexpectedBeforeStep, AcceptCheckpoint, InvalidCheckpoint,
             CheckpointFails, CheckpointLost, UnexpectedAfterStep,
             StatusAfterAnswer, ConfirmStep, StatusByte
        <5>2. QED
          BY <5>1 DEF ReleaseStep, DrainFails, PreflightFails, preflightUnchanged
      <4>3. QED
        BY <4>1, <4>2 DEF Next
    <3>3. QED
      BY <1>1, <1>5, <3>2 DEF LaterCheckIsQuiet
  <2>3. QED
    BY <1>1, <2>1, <2>2, Naturals
<1>6. QED
  BY <1>2, <1>3, <1>4, <1>5, HostCases DEF ReleaseStep, AcceptCheckpoint, Finish
(* A byte that answers a GS r 1 stays alone and true until it is read.     *)
LEMMA AnsweredStep ==
  ASSUME CleanLine, IInv, [Next]_vars
  PROVE  Answered'
<1>1. TypeOK /\ Framed /\ Answered /\ Queued /\ Counters
  BY DEF IInv
<1> DEFINE Own(i) == fromPrinter[i].step > 0
<1>2. ASSUME NEW i \in 1..Len(fromPrinter), Own(i), ~AcceptCheckpoint
      PROVE  /\ released' = released /\ released = confirmed + 1
             /\ released' = confirmed' + 1
             /\ Len(printed') = released'
             /\ fromPrinter[i].frame = 0 /\ fromPrinter[i].step = released'
             /\ NoJobPending /\ NoJobPending' /\ pc' \in {"response", "done"}
  <2>1. /\ fromPrinter[i].frame = 0 /\ fromPrinter[i].step = released
        /\ released = confirmed + 1 /\ Len(printed) = released
        /\ NoJobPending /\ pc \in {"response", "done"}
    BY <1>1, <1>2 DEF Answered
  <2>2. UNCHANGED <<confirmed, released>> /\ pc' \in {"response", "done"}
    BY <1>2, <2>1, InFlightStep
  <2>3. NoJobPending' /\ printed' = printed
    BY <2>1, IdleStep DEF ReleaseStep
  <2>4. QED
    BY <2>1, <2>2, <2>3
<1>3. CASE UNCHANGED fromPrinter
  <2>1. ~AcceptCheckpoint
    <3>1. SUFFICES ASSUME AcceptCheckpoint PROVE FALSE
      OBVIOUS
    <3>2. /\ fromPrinter # << >> /\ fromPrinter' = Tail(fromPrinter)
          /\ fromPrinter \in Seq(Bytes)
      BY <1>1, <3>1, Naturals DEF AcceptCheckpoint, StatusByte, Consume, TypeOK
    <3>3. Len(Tail(fromPrinter)) = Len(fromPrinter) - 1 /\ Len(fromPrinter) \in Nat
      BY <3>2, TailFacts
    <3>4. QED
      BY <1>3, <3>2, <3>3
  <2>2. QED
    BY <1>1, <1>2, <1>3, <2>1 DEF Answered
<1>4. CASE Consume
  <2>1. /\ Len(fromPrinter) \in Nat
        /\ Len(fromPrinter') = Len(fromPrinter) - 1
        /\ \A i \in 1..(Len(fromPrinter) - 1) : fromPrinter'[i] = fromPrinter[i + 1]
    BY <1>1, <1>4, Naturals, TailFacts DEF Consume, TypeOK
  <2>2. \A i \in 1..Len(fromPrinter') :
          i + 1 \in 1..Len(fromPrinter) /\ fromPrinter'[i] = fromPrinter[i + 1]
    BY <2>1
  <2>3. CASE AcceptCheckpoint
    <3>1. ASSUME NEW i \in 1..Len(fromPrinter')
          PROVE  ~(fromPrinter'[i].step > 0)
      <4>1. fromPrinter[i + 1].step > 0 => i + 1 = 1
        BY <2>2, <2>3, <3>1, AnswerIsOwn
      <4>2. i + 1 # 1
        BY <2>1, <3>1
      <4>3. QED
        BY <2>2, <3>1, <4>1, <4>2
    <3>2. ASSUME NEW i \in 1..Len(fromPrinter'),
                 fromPrinter'[i].frame = 0, fromPrinter'[i].value \in PaperValues
          PROVE  FALSE
      <4>1. fromPrinter[i + 1].step > 0
        BY <1>1, <2>2, <3>2 DEF Answered
      <4>2. QED
        BY <2>2, <3>1, <4>1
    <3>3. QED
      BY <3>1, <3>2 DEF Answered
  <2>4. CASE ~AcceptCheckpoint
    <3>1. ASSUME NEW i \in 1..Len(fromPrinter')
          PROVE  /\ fromPrinter'[i].frame = 0 /\ fromPrinter'[i].value \in PaperValues
                      => fromPrinter'[i].step > 0
                 /\ fromPrinter'[i].step > 0 =>
                      /\ fromPrinter'[i].frame = 0
                      /\ fromPrinter'[i].step = released'
                      /\ released' = confirmed' + 1
                      /\ Len(printed') = released'
                      /\ NoJobPending'
                      /\ pc' \in {"response", "done"}
      <4>1. i + 1 \in 1..Len(fromPrinter) /\ fromPrinter'[i] = fromPrinter[i + 1]
        BY <2>2
      <4>2. QED
        BY <1>1, <1>2, <2>4, <4>1 DEF Answered
    <3>2. ASSUME NEW i \in 1..Len(fromPrinter'), NEW j \in 1..Len(fromPrinter'),
                 fromPrinter'[i].step > 0, fromPrinter'[j].step > 0
          PROVE  i = j
      <4>1. i + 1 = j + 1
        BY <1>1, <2>2, <3>2 DEF Answered
      <4>2. QED
        BY <2>1, <4>1
    <3>3. QED
      BY <3>1, <3>2 DEF Answered
  <2>5. QED
    BY <2>3, <2>4
<1>5. CASE Connect
  BY <1>5, EmptySeq DEF Connect, Answered
<1>6. ASSUME NEW b \in Seq(Bytes), fromPrinter' = fromPrinter \o b,
             ~AcceptCheckpoint,
             \A i \in 1..Len(b) :
               b[i].step = 0 /\ (b[i].frame # 0 \/ b[i].value \notin PaperValues)
      PROVE  Answered'
  <2> DEFINE n == Len(fromPrinter)
             m == Len(b)
  <2>1. /\ n \in Nat /\ m \in Nat
        /\ Len(fromPrinter') = n + m
        /\ \A i \in 1..n : fromPrinter'[i] = fromPrinter[i]
        /\ \A i \in 1..m : fromPrinter'[n + i] = b[i]
    BY <1>1, <1>6, ConcatFacts DEF TypeOK
  <2>2. ASSUME NEW i \in 1..Len(fromPrinter')
        PROVE  \/ i \in 1..n /\ fromPrinter'[i] = fromPrinter[i]
               \/ /\ fromPrinter'[i].step = 0
                  /\ fromPrinter'[i].frame # 0 \/ fromPrinter'[i].value \notin PaperValues
    <3>1. CASE i <= n
      BY <2>1, <3>1
    <3>2. CASE i > n
      <4>1. i - n \in 1..m /\ i = n + (i - n)
        BY <2>1, <3>2
      <4>2. fromPrinter'[i] = b[i - n]
        BY <2>1, <4>1
      <4>3. QED
        BY <1>6, <4>1, <4>2
    <3>3. QED
      BY <2>1, <3>1, <3>2
  <2>3. ASSUME NEW i \in 1..Len(fromPrinter')
        PROVE  /\ fromPrinter'[i].frame = 0 /\ fromPrinter'[i].value \in PaperValues
                    => fromPrinter'[i].step > 0
               /\ fromPrinter'[i].step > 0 =>
                    /\ fromPrinter'[i].frame = 0
                    /\ fromPrinter'[i].step = released'
                    /\ released' = confirmed' + 1
                    /\ Len(printed') = released'
                    /\ NoJobPending'
                    /\ pc' \in {"response", "done"}
    <3>1. CASE i \in 1..n /\ fromPrinter'[i] = fromPrinter[i]
      BY <1>1, <1>2, <1>6, <3>1 DEF Answered
    <3>2. CASE ~(i \in 1..n /\ fromPrinter'[i] = fromPrinter[i])
      BY <2>2, <3>2
    <3>3. QED
      BY <3>1, <3>2
  <2>4. ASSUME NEW i \in 1..Len(fromPrinter'), NEW j \in 1..Len(fromPrinter'),
               fromPrinter'[i].step > 0, fromPrinter'[j].step > 0
        PROVE  i = j
    <3>1. /\ i \in 1..n /\ fromPrinter'[i] = fromPrinter[i]
          /\ j \in 1..n /\ fromPrinter'[j] = fromPrinter[j]
      BY <2>2, <2>4
    <3>2. QED
      BY <1>1, <2>4, <3>1 DEF Answered
  <2>5. QED
    BY <2>3, <2>4 DEF Answered
<1>7. ASSUME NEW b \in Bytes, fromPrinter' = fromPrinter \o <<b>>,
             ~AcceptCheckpoint, b.step = 0, b.value \notin PaperValues
      PROVE  Answered'
  <2>1. /\ <<b>> \in Seq(Bytes) /\ Len(<<b>>) = 1 /\ <<b>>[1] = b
    BY <1>7, SingletonFacts
  <2>2. \A i \in 1..Len(<<b>>) : <<b>>[i].step = 0 /\ <<b>>[i].value \notin PaperValues
    BY <1>7, <2>1
  <2>3. QED
    BY <1>6, <1>7, <2>1, <2>2
<1>8. CASE AnswerStatus
  <2>1. PICK v \in StatusValues : Send(<<StatusAnswer(v)>>)
    BY <1>8 DEF AnswerStatus
  <2>2. StatusAnswer(v) \in Bytes
    BY ByteTypes
  <2>3. StatusAnswer(v).step = 0 /\ StatusAnswer(v).value \notin PaperValues
    BY DEF StatusAnswer, StatusValues, PaperValues
  <2>4. ~AcceptCheckpoint
    BY <1>8, <1>1 DEF AnswerStatus, AcceptCheckpoint, hostUnchanged
  <2>5. QED
    BY <1>3, <1>7, <2>1, <2>2, <2>3, <2>4 DEF Send
<1>9. CASE SendStrayByte
  <2>1. PICK v \in StrayValues : Send(<<[value |-> v, frame |-> 0, step |-> 0]>>)
    BY <1>9 DEF SendStrayByte
  <2> DEFINE b == [value |-> v, frame |-> 0, step |-> 0]
  <2>2. b \in Bytes
    BY ByteTypes
  <2>3. b.step = 0 /\ b.value \notin PaperValues
    BY StrayAssumption DEF PaperValues
  <2>4. ~AcceptCheckpoint
    BY <1>9 DEF SendStrayByte, AcceptCheckpoint, hostUnchanged
  <2> HIDE DEF b
  <2>5. fromPrinter' = fromPrinter \o <<b>> \/ fromPrinter' = fromPrinter
    BY <2>1 DEF Send, b
  <2>6. QED
    BY <1>3, <1>7, <2>2, <2>3, <2>4, <2>5
<1>10. CASE SendAsbFrame
  <2>1. PICK t \in [2..4 -> TailValues] : Send(AsbFrame(t))
    BY <1>10 DEF SendAsbFrame
  <2> DEFINE b == AsbFrame(t)
  <2>2. b \in Seq(Bytes) /\ Len(b) = 4
    BY ByteTypes
  <2>3. ASSUME NEW i \in 1..4 PROVE b[i].step = 0 /\ b[i].frame # 0
    BY DEF AsbFrame
  <2>4. ~AcceptCheckpoint
    BY <1>10 DEF SendAsbFrame, AcceptCheckpoint, hostUnchanged
  <2> HIDE DEF b
  <2>5. fromPrinter' = fromPrinter \o b \/ fromPrinter' = fromPrinter
    BY <2>1 DEF Send, b
  <2>6. QED
    BY <1>3, <1>6, <2>2, <2>3, <2>4, <2>5
<1>11. CASE ExecuteCommand
  <2>1. CASE UNCHANGED fromPrinter
    BY <1>3, <2>1
  <2>2. CASE /\ Head(toPrinter).op = "checkpoint"
             /\ \E v \in PaperValues : Send(<<CheckpointAnswer(v, Head(toPrinter).step)>>)
    <3>1. /\ Len(toPrinter) \in Nat /\ 1 \in 1..Len(toPrinter)
          /\ Head(toPrinter) = toPrinter[1]
          /\ Len(toPrinter') = Len(toPrinter) - 1
          /\ UNCHANGED <<pc, confirmed, released>>
      BY <1>11, CarriedOut
    <3>2. /\ toPrinter[1].step = released /\ released = confirmed + 1
          /\ pc \in {"response", "done"} /\ 1 = Len(toPrinter)
          /\ Len(printed) = released
      BY <1>1, <2>2, <3>1 DEF Queued
    <3>3. NoJobPending' /\ printed' = printed /\ ~NoJobPending
      BY <1>11, <2>2, <3>1, <3>2, CarriedOut DEF NoJobPending, JobOps
    <3>4. \A i \in 1..Len(fromPrinter) :
            /\ ~(fromPrinter[i].step > 0)
            /\ fromPrinter[i].frame # 0 \/ fromPrinter[i].value \notin PaperValues
      BY <1>1, <3>3 DEF Answered
    <3>5. PICK v \in PaperValues : Send(<<CheckpointAnswer(v, released)>>)
      BY <2>2, <3>1, <3>2
    <3> DEFINE b == CheckpointAnswer(v, released)
    <3>6. b \in Bytes
      BY <1>1, ByteTypes DEF TypeOK
    <3>7. b.frame = 0 /\ b.step = released
      BY DEF CheckpointAnswer
    <3> HIDE DEF b
    <3>8. <<b>> \in Seq(Bytes) /\ Len(<<b>>) = 1 /\ <<b>>[1] = b
      BY <3>6, SingletonFacts
    <3>9. CASE fromPrinter' = fromPrinter
      BY <1>3, <3>9
    <3>10. CASE fromPrinter' = fromPrinter \o <<b>>
      <4> DEFINE n == Len(fromPrinter)
      <4>1. /\ n \in Nat /\ Len(fromPrinter') = n + 1
            /\ \A i \in 1..n : fromPrinter'[i] = fromPrinter[i]
            /\ fromPrinter'[n + 1] = b
        BY <1>1, <3>8, <3>10, ConcatFacts DEF TypeOK
      <4>2. \A i \in 1..Len(fromPrinter') : i \in 1..n \/ i = n + 1
        BY <4>1
      <4>3. \A i \in 1..Len(fromPrinter') :
              /\ fromPrinter'[i].step > 0 => i = n + 1
              /\ fromPrinter'[i].frame = 0 /\ fromPrinter'[i].value \in PaperValues
                   => i = n + 1
        BY <3>4, <4>1, <4>2
      <4>4. released > 0
        BY <1>1, <3>2, Naturals
      <4>5. QED
        BY <3>1, <3>2, <3>3, <3>7, <4>1, <4>3, <4>4 DEF Answered
    <3>11. QED
      BY <3>5, <3>9, <3>10 DEF Send, b
  <2>3. QED
    BY <1>11, <2>1, <2>2 DEF ExecuteCommand
<1>13. \/ UNCHANGED fromPrinter \/ Consume \/ Connect
       \/ AnswerStatus \/ SendStrayByte \/ SendAsbFrame \/ ExecuteCommand
  <2> USE DEF inputVars, hostUnchanged
  <2>1. CASE AsbDisableWritten \/ WriteStatusQuery \/ PreflightFails \/ ReleaseStep
             \/ CheckpointFails \/ DrainFails \/ ConfirmStep
    BY <2>1 DEF AsbDisableWritten, WriteStatusQuery, PreflightFails, ReleaseStep,
                CheckpointFails, CheckpointLost, FailStep, DrainFails, ConfirmStep
  <2>2. CASE RequestCancel \/ Deliver \/ LoseConnection \/ UNCHANGED vars
    BY <2>2 DEF RequestCancel, Deliver, LoseConnection, vars
  <2>3. CASE AcceptStatus \/ RejectStatus \/ UnexpectedInPreflight
             \/ UnexpectedBeforeStep \/ AcceptCheckpoint \/ InvalidCheckpoint
             \/ UnexpectedAfterStep \/ ReadAsbHeader \/ ReadAsbTail
    BY <2>3 DEF AcceptStatus, RejectStatus, UnexpectedInPreflight,
                UnexpectedBeforeStep, AcceptCheckpoint, InvalidCheckpoint,
                UnexpectedAfterStep, StatusAfterAnswer, ReadAsbHeader,
                BeginAsbFrame, ReadAsbTail
  <2>4. QED
    BY <2>1, <2>2, <2>3 DEF Next, Host, Environment
<1>14. QED
  BY <1>3, <1>4, <1>5, <1>8, <1>9, <1>10, <1>11, <1>13
(* The records the session can end with.                                   *)
LEMMA RecordFacts ==
  /\ \A c : /\ Completed(c).status = "completed" /\ Completed(c).code = "none"
            /\ Completed(c).confirmed = c /\ Completed(c).unknown = FALSE
  /\ \A c : /\ Cancelled(c).status = "cancelled" /\ Cancelled(c).code = "none"
            /\ Cancelled(c).confirmed = c /\ Cancelled(c).unknown = FALSE
  /\ \A code, step, c, r, unknown :
       /\ Failed(code, step, c, r, unknown).status = "error"
       /\ Failed(code, step, c, r, unknown).code = code
       /\ Failed(code, step, c, r, unknown).step = step
       /\ Failed(code, step, c, r, unknown).confirmed = c
       /\ Failed(code, step, c, r, unknown).released = r
       /\ Failed(code, step, c, r, unknown).unknown = unknown
  /\ NoResult.status = "none"
BY DEF Completed, Cancelled, Failed, NoResult

(* What the record has to say once the session is over.                    *)
Honest(r, c, n) ==
  /\ r.status # "error" => r.code = "none" /\ ~r.unknown
  /\ r.code # "LIVE_SESSION_FAILED" =>
       /\ r.confirmed = c
       /\ r.status = "completed" => c = N
       /\ ~r.unknown => n = c
       /\ r.unknown => n = c + 1 /\ r.step = n

LEMMA RecordedByFinish ==
  ASSUME NEW r, Finish(r), ParseResultAccepts(r), Honest(r, confirmed', released')
  PROVE  Recorded'
<1>1. pc' = "done" /\ result' = r /\ conn' = "ended"
  BY DEF Finish
<1>2. r.status # "none" /\ ParseResultAccepts(result')
  BY <1>1 DEF ParseResultAccepts
<1>3. ParseResultAccepts(result)'
  BY <1>2 DEF ParseResultAccepts
<1>4. QED
  BY <1>1, <1>2, <1>3 DEF Recorded, Honest

LEMMA RecordedKept ==
  ASSUME IInv, UNCHANGED result, pc # "done", pc' # "done"
  PROVE  Recorded'
BY DEF IInv, Recorded

(* Every early error leaves nothing released and nothing confirmed.        *)
LEMMA UntaggedEarly ==
  ASSUME TypeOK, NEW code \in Codes, Finish(Untagged(code)),
         UNCHANGED <<confirmed, released>>,
         (confirmed = 0 /\ released = 0) \/ code = "LIVE_SESSION_FAILED"
  PROVE  Recorded'
<1> DEFINE r == Untagged(code)
<1>1. /\ r.status = "error" /\ r.code = code /\ r.step = 0 /\ r.confirmed = 0
      /\ r.released = 0 /\ r.unknown = FALSE
  BY DEF Untagged, Failed
<1>2. Finish(r)
  OBVIOUS
<1> HIDE DEF r
<1>3. ParseResultAccepts(r)
  BY <1>1, NAssumption DEF ParseResultAccepts
<1>4. Honest(r, confirmed', released')
  BY <1>1 DEF Honest
<1>5. QED
  BY <1>2, <1>3, <1>4, RecordedByFinish

(* An error of runSteps carries the counters.                              *)
LEMMA FailedHonest ==
  ASSUME TypeOK, NEW code \in Codes, NEW unknown \in BOOLEAN, NEW step, NEW n \in 0..N,
         Finish(Failed(code, step, confirmed, n, unknown)),
         confirmed' = confirmed, released' = n,
         step <= N, step \in Nat, confirmed <= n,
         ~unknown => n = confirmed,
         unknown => n = confirmed + 1 /\ step = n
  PROVE  Recorded'
<1> DEFINE r == Failed(code, step, confirmed, n, unknown)
<1>1. /\ r.status = "error" /\ r.code = code /\ r.step = step
      /\ r.confirmed = confirmed /\ r.released = n /\ r.unknown = unknown
  BY RecordFacts
<1>2. Finish(r)
  OBVIOUS
<1> HIDE DEF r
<1>3. ParseResultAccepts(r)
  BY <1>1, Naturals, NAssumption DEF ParseResultAccepts
<1>4. Honest(r, confirmed', released')
  BY <1>1 DEF Honest
<1>5. QED
  BY <1>2, <1>3, <1>4, RecordedByFinish

LEMMA CancelledHonest ==
  ASSUME TypeOK, NEW c \in 0..N, c < N, Finish(Cancelled(c)),
         confirmed' = c, released' = c
  PROVE  Recorded'
<1> DEFINE r == Cancelled(c)
<1>1. r.status = "cancelled" /\ r.code = "none" /\ r.confirmed = c /\ r.unknown = FALSE
  BY RecordFacts
<1>2. Finish(r)
  OBVIOUS
<1> HIDE DEF r
<1>3. ParseResultAccepts(r)
  BY <1>1 DEF ParseResultAccepts
<1>4. Honest(r, confirmed', released')
  BY <1>1 DEF Honest
<1>5. QED
  BY <1>2, <1>3, <1>4, RecordedByFinish

LEMMA CompletedHonest ==
  ASSUME TypeOK, Finish(Completed(N)), confirmed' = N, released' = N
  PROVE  Recorded'
<1> DEFINE r == Completed(N)
<1>1. r.status = "completed" /\ r.code = "none" /\ r.confirmed = N /\ r.unknown = FALSE
  BY RecordFacts
<1>2. Finish(r)
  OBVIOUS
<1> HIDE DEF r
<1>3. ParseResultAccepts(r)
  BY <1>1 DEF ParseResultAccepts
<1>4. Honest(r, confirmed', released')
  BY <1>1 DEF Honest
<1>5. QED
  BY <1>2, <1>3, <1>4, RecordedByFinish

LEMMA RecordedStep ==
  ASSUME IInv, [Next]_vars
  PROVE  Recorded'
<1>1. TypeOK /\ Counters /\ Recorded
  BY DEF IInv
<1> USE DEF preflightUnchanged, hostUnchanged, counterVars, verdictVars
<1>2. CASE Environment \/ UNCHANGED vars
  <2>1. /\ UNCHANGED <<pc, result, confirmed, released>>
        /\ conn' = conn \/ conn = "up"
    BY <1>2 DEF Environment, RequestCancel, Deliver, LoseConnection,
       AnswerStatus, ExecuteCommand, SendAsbFrame, SendStrayByte, vars
  <2>2. QED
    BY <1>1, <2>1 DEF Recorded, ParseResultAccepts
<1>3. CASE ReadAsbHeader \/ ReadAsbTail \/ Connect \/ AsbDisableWritten
           \/ WriteStatusQuery \/ AcceptCheckpoint
  <2>1. UNCHANGED result
    BY <1>3 DEF ReadAsbHeader, BeginAsbFrame, ReadAsbTail, Connect,
       AsbDisableWritten, WriteStatusQuery, AcceptCheckpoint
  <2>2. pc # "done" /\ pc' # "done"
    BY <1>3 DEF ReadAsbHeader, BeginAsbFrame, ReadAsbTail, Connect,
       AsbDisableWritten, WriteStatusQuery, AcceptCheckpoint, Reading, Awaiting, Draining
  <2>3. QED
    BY <2>1, <2>2, RecordedKept
<1>4. CASE pc \in {"open", "opened", "exchange", "answer"}
           /\ (AcceptStatus \/ PreflightFails \/ RejectStatus \/ UnexpectedInPreflight)
  <2>1. confirmed = 0 /\ released = 0 /\ UNCHANGED <<confirmed, released>>
    BY <1>1, <1>4, Naturals DEF Counters, AcceptStatus, PreflightFails,
       RejectStatus, UnexpectedInPreflight
  <2>2. \A code \in Codes : Finish(Untagged(code)) => Recorded'
    BY <1>1, <2>1, UntaggedEarly
  <2>3. pc # "done"
    BY <1>4
  <2>4. Finish(Cancelled(0)) => Recorded'
    BY <1>1, <2>1, Naturals, CancelledHonest
  <2>5. \/ UNCHANGED result /\ pc' # "done"
        \/ \E code \in Codes : Finish(Untagged(code))
        \/ Finish(Cancelled(0))
    BY <1>4 DEF AcceptStatus, NextStep, PreflightFails, ConnectFails,
       RotateSourcePort, TryNextPort, RejectStatus, UnexpectedInPreflight, Codes
  <2>6. QED
    BY <2>2, <2>3, <2>4, <2>5, RecordedKept
<1>5. CASE DrainFails
  BY <1>1, <1>5, UntaggedEarly DEF DrainFails, Codes
<1>6. ASSUME NEW code \in Codes, NEW unknown \in BOOLEAN,
             FailStep(code, unknown), confirmed < N,
             IF unknown THEN released = confirmed + 1 ELSE released = confirmed
      PROVE  Recorded'
  <2>1. /\ Finish(Failed(code, Current, confirmed, released, unknown))
        /\ UNCHANGED <<confirmed, released>>
    BY <1>6 DEF FailStep
  <2>2. Current \in Nat /\ Current <= N /\ Current = confirmed + 1
    BY <1>1, <1>6, Naturals DEF Current
  <2>3. released \in 0..N /\ confirmed <= released
    BY <1>1, <1>6, Naturals DEF TypeOK
  <2>4. QED
    BY <1>1, <1>6, <2>1, <2>2, <2>3, FailedHonest
<1>7. CASE UnexpectedBeforeStep \/ InvalidCheckpoint \/ CheckpointFails
           \/ UnexpectedAfterStep
  <2>1. CASE UnexpectedBeforeStep
    <3>1. FailStep("LIVE_UNEXPECTED_STATUS", FALSE) /\ pc = "check"
      BY <2>1 DEF UnexpectedBeforeStep
    <3>2. QED
      BY <1>1, <1>6, <3>1 DEF Counters, Codes
  <2>2. CASE InvalidCheckpoint \/ CheckpointFails \/ UnexpectedAfterStep
    <3>1. PICK code \in Codes : FailStep(code, TRUE)
      BY <2>2 DEF InvalidCheckpoint, CheckpointFails, CheckpointLost,
         UnexpectedAfterStep, StatusAfterAnswer, Codes
    <3>2. pc \in {"response", "after"}
      BY <2>2 DEF InvalidCheckpoint, CheckpointFails, CheckpointLost,
         UnexpectedAfterStep, StatusAfterAnswer
    <3>3. released = confirmed + 1 /\ confirmed < N
      BY <1>1, <3>2, Naturals DEF Counters
    <3>4. QED
      BY <1>6, <3>1, <3>3
  <2>3. QED
    BY <1>7, <2>1, <2>2
<1>8. CASE ReleaseStep
  <2>1. CASE conn = "up"
    BY <1>8, <2>1, RecordedKept DEF ReleaseStep
  <2>2. CASE conn # "up"
    <3>1. /\ pc = "check" /\ released' = released + 1 /\ confirmed' = confirmed
          /\ Finish(Failed("LIVE_CHECKPOINT_FAILED", Current, confirmed,
                           released + 1, TRUE))
      BY <1>8, <2>2 DEF ReleaseStep
    <3>2. released = confirmed /\ confirmed < N /\ Current = released + 1
      BY <1>1, <3>1 DEF Counters, Current
    <3>3. /\ released + 1 \in 0..N /\ Current <= N /\ Current \in Nat
          /\ confirmed <= released + 1
      BY <1>1, <3>2, Naturals
    <3>4. QED
      BY <1>1, <3>1, <3>2, <3>3, FailedHonest DEF Codes
  <2>3. QED
    BY <2>1, <2>2
<1>9. CASE ConfirmStep
  <2>1. /\ pc = "after" /\ released' = released /\ released = confirmed'
        /\ confirmed' \in 1..N /\ confirmed' \in 0..N /\ confirmed' <= N
    BY <1>1, <1>9, ConfirmFacts, Naturals
  <2>2. CASE pc' = "check"
    BY <1>9, <2>1, <2>2, RecordedKept, ConfirmFacts
  <2>3. CASE pc' = "done"
    <3>1. /\ conn' = "ended"
          /\ \/ result' = Failed("LIVE_PAPER_OUT", confirmed', confirmed', released, FALSE)
             \/ confirmed' = N /\ result' = Completed(N)
             \/ confirmed' < N /\ result' = Cancelled(confirmed')
      BY <1>9, <2>3, ConfirmFacts
    <3>2. CASE result' = Failed("LIVE_PAPER_OUT", confirmed', confirmed', released, FALSE)
      <4> DEFINE r == Failed("LIVE_PAPER_OUT", confirmed', confirmed', released, FALSE)
      <4>1. /\ r.status = "error" /\ r.code = "LIVE_PAPER_OUT" /\ r.step = confirmed'
            /\ r.confirmed = confirmed' /\ r.released = released /\ r.unknown = FALSE
        BY DEF Failed
      <4>2. Finish(r)
        BY <2>3, <3>1, <3>2 DEF Finish
      <4> HIDE DEF r
      <4>3. ParseResultAccepts(r)
        BY <2>1, <4>1, <1>1, Naturals DEF ParseResultAccepts
      <4>4. Honest(r, confirmed', released')
        BY <2>1, <4>1 DEF Honest
      <4>5. QED
        BY <4>2, <4>3, <4>4, RecordedByFinish
    <3>3. CASE confirmed' = N /\ result' = Completed(N)
      <4>1. Finish(Completed(N))
        BY <2>3, <3>1, <3>3 DEF Finish
      <4>2. QED
        BY <1>1, <2>1, <3>3, <4>1, CompletedHonest
    <3>4. CASE confirmed' < N /\ result' = Cancelled(confirmed')
      <4>1. Finish(Cancelled(confirmed'))
        BY <2>3, <3>1, <3>4 DEF Finish
      <4>2. QED
        BY <1>1, <2>1, <3>4, <4>1, CancelledHonest
    <3>5. QED
      BY <3>1, <3>2, <3>3, <3>4
  <2>4. QED
    BY <1>9, <2>2, <2>3, ConfirmFacts
<1>10. QED
  BY <1>2, <1>3, <1>4, <1>5, <1>7, <1>8, <1>9 DEF Next, Host, AcceptStatus,
     PreflightFails, RejectStatus, UnexpectedInPreflight

--------------------------------------------------------------------------------
(* The invariant holds of every behaviour.                                 *)

LEMMA InitIInv ==
  ASSUME Init
  PROVE  IInv
<1>1. TypeOK
  <2>1. /\ pc \in PCs /\ port \in 1..NPorts /\ 0 \in 0..N
        /\ asbLeft \in 0..MaxAsb /\ strayLeft \in 0..MaxStray
    BY NPortsAssumption, NAssumption, BoundAssumption DEF Init, PCs
  <2>2. NoResult \in Results
    BY <2>1 DEF NoResult, Results, Codes
  <2>3. /\ fromPrinter \in Seq(Bytes) /\ toPrinter \in Seq(Commands)
        /\ printed \in Seq(1..N) /\ buffered \in 0..Len(fromPrinter)
    BY EmptySeq DEF Init
  <2>4. /\ query \in 1..4 /\ tail \in 0..3
        /\ answer \in PaperValues \cup {"none"}
    BY DEF Init
  <2>5. /\ confirmed \in 0..N /\ released \in 0..N /\ result \in Results
        /\ conn \in {"none", "up", "ended"}
    BY <2>1, <2>2 DEF Init
  <2>6. /\ fault \in BOOLEAN /\ cancelled \in BOOLEAN
        /\ received \in BOOLEAN /\ asb \in BOOLEAN
    BY DEF Init
  <2>7. QED
    BY <2>1, <2>3, <2>4, <2>5, <2>6 DEF TypeOK
<1>2. Len(fromPrinter) = 0 /\ Len(toPrinter) = 0 /\ Len(printed) = 0
  BY EmptySeq DEF Init
<1>3. PrintedOnceInOrder /\ Framed /\ Answered /\ Queued /\ AsbGuarded
  BY <1>2 DEF Init, PrintedOnceInOrder, Framed, Answered, Queued, AsbGuarded
<1>4. Counters /\ LaterCheckIsQuiet
  BY <1>2 DEF Init, Counters, LaterCheckIsQuiet, NoJobPending
<1>5. Recorded
  BY RecordFacts DEF Init, Recorded
<1>6. QED
  BY <1>1, <1>3, <1>4, <1>5 DEF IInv

(* On a line whose stray bytes cannot be taken for an ASB header, every    *)
(* reachable state satisfies the inductive invariant, whatever the plan,   *)
(* the port list and the bounds on unsolicited traffic.                    *)
THEOREM Invariance == CleanLine => (Spec => []IInv)
<1> SUFFICES ASSUME CleanLine PROVE Spec => []IInv
  OBVIOUS
<1>1. Init => IInv
  BY InitIInv
<1>2. IInv /\ [Next]_vars => IInv'
  BY TypeStep, PrintedStep, FramedStep, AnsweredStep, QueuedStep, AsbGuardedStep,
     CountersStep, LaterCheckStep, RecordedStep DEF IInv
<1>3. QED
  BY <1>1, <1>2, PTL DEF Spec
(* Every variable stays in its range, for every plan.                      *)
THEOREM Types == CleanLine => (Spec => []TypeOK)
BY Invariance, PTL DEF IInv

(* No failure, late answer or rotation makes the printer carry out a step  *)
(* of runSteps twice or out of order.                                      *)
THEOREM PrintsOnceInOrder == CleanLine => (Spec => []PrintedOnceInOrder)
BY Invariance, PTL DEF IInv

(* A confirmed step was printed, and at most one released step is not yet  *)
(* confirmed.                                                              *)
THEOREM ConfirmsWhatPrinted == CleanLine => (Spec => []ConfirmedWasPrinted)
<1>1. IInv => ConfirmedWasPrinted
  BY DEF IInv, Counters, ConfirmedWasPrinted
<1>2. QED
  BY <1>1, Invariance, PTL

(* Whenever the printer comes to a GS r 1, automatic status is off.        *)
THEOREM AsbIsOffAtCheckpoint == CleanLine => (Spec => []AsbOffAtCheckpoint)
<1>1. ASSUME IInv, toPrinter # << >>, Head(toPrinter).op = "checkpoint"
      PROVE  ~asb
  <2>1. Head(toPrinter) = toPrinter[1]
    BY <1>1, TailFacts DEF IInv, TypeOK
  <2>2. QED
    BY <1>1, <2>1 DEF IInv, AsbGuarded
<1>2. IInv => AsbOffAtCheckpoint
  BY <1>1 DEF AsbOffAtCheckpoint
<1>3. QED
  BY <1>2, Invariance, PTL

(* The record written by main says what happened to the paper, now and for *)
(* all commands the printer has still to carry out.                        *)
THEOREM ResultsTellTruth == CleanLine => (Spec => []ResultTellsTruth)
<1>1. ASSUME IInv, pc = "done", result.code # "LIVE_SESSION_FAILED"
      PROVE  /\ result.confirmed = confirmed
             /\ result.status = "completed" => Len(printed) = N
             /\ ~result.unknown => Len(printed) = confirmed /\ NoPrintPending
             /\ result.unknown => released = confirmed + 1 /\ result.step = released
  <2>1. /\ confirmed <= Len(printed) /\ Len(printed) <= released /\ released <= N
        /\ released = confirmed => NoJobPending
        /\ TypeOK /\ Len(printed) \in Nat /\ confirmed \in Nat /\ released \in Nat
        /\ N \in Nat
    BY <1>1, Naturals DEF IInv, Counters
  <2>2. /\ result.confirmed = confirmed
        /\ result.status = "completed" => confirmed = N
        /\ ~result.unknown => released = confirmed
        /\ result.unknown => released = confirmed + 1 /\ result.step = released
    BY <1>1 DEF IInv, Recorded
  <2>3. NoJobPending => NoPrintPending
    <3>1. DOMAIN toPrinter = 1..Len(toPrinter)
      BY <2>1, LenProperties DEF TypeOK
    <3>2. QED
      BY <3>1 DEF NoJobPending, NoPrintPending, JobOps
  <2>4. QED
    BY <2>1, <2>2, <2>3
<1>2. IInv => ResultTellsTruth
  BY <1>1 DEF ResultTellsTruth
<1>3. QED
  BY <1>2, Invariance, PTL

(* parse_result accepts every record the controller writes.                *)
THEOREM ResultsAreAccepted == CleanLine => (Spec => []ResultIsAccepted)
<1>1. IInv => ResultIsAccepted
  BY DEF IInv, Recorded, ResultIsAccepted
<1>2. QED
  BY <1>1, Invariance, PTL

(* The byte runSteps takes for the answer of a checkpoint answers that     *)
(* very checkpoint.                                                        *)
THEOREM AnswersAreOwn == CleanLine => (Spec => CheckpointAnswerIsOwn)
<1>1. ASSUME IInv, AcceptCheckpoint
      PROVE  Head(fromPrinter).frame = 0 /\ Head(fromPrinter).step = Current
  BY <1>1, AnswerIsOwn
<1>2. IInv => (AcceptCheckpoint => /\ Head(fromPrinter).frame = 0
                                   /\ Head(fromPrinter).step = Current)
  BY <1>1
<1>3. QED
  BY <1>2, Invariance, PTL DEF CheckpointAnswerIsOwn

(* After a cancellation only the first step can still be released.         *)
THEOREM CancelStops == CleanLine => (Spec => CancelStopsRelease)
<1>1. ASSUME IInv, [Next]_vars, cancelled, released' # released
      PROVE  confirmed = 0 /\ released' = 1
  <2>1. TypeOK /\ Counters /\ LaterCheckIsQuiet
    BY <1>1 DEF IInv
  <2>2. ReleaseStep
    BY <1>1, HostCases DEF ConfirmStep, AcceptCheckpoint, counterVars
  <2>3. pc = "check" /\ released' = released + 1
    BY <2>2 DEF ReleaseStep
  <2>4. QED
    BY <1>1, <2>1, <2>3, Naturals DEF LaterCheckIsQuiet, Counters
<1>2. IInv /\ [Next]_vars =>
        [cancelled /\ released' # released => confirmed = 0 /\ released' = 1]_vars
  BY <1>1
<1>3. QED
  BY <1>2, Invariance, PTL DEF Spec, CancelStopsRelease

(* The controller rotates to another source port only before the printer   *)
(* has answered on this one and before any step was released.              *)
THEOREM RotatesEarly == CleanLine => (Spec => RotatesOnlyBeforeAnswer)
<1>1. ASSUME IInv, [Next]_vars, port' # port
      PROVE  ~received /\ released = 0 /\ NoPrintPending
  <2>1. TypeOK /\ Counters
    BY <1>1 DEF IInv
  <2>2. PreflightFails /\ RotateSourcePort
    <3> USE DEF preflightVars, hostUnchanged
    <3>1. CASE Environment \/ UNCHANGED vars
      BY <1>1, <3>1 DEF Environment, RequestCancel, Deliver, LoseConnection,
         AnswerStatus, ExecuteCommand, SendAsbFrame, SendStrayByte, vars
    <3>2. CASE Host
      BY <1>1, <3>2 DEF Host, ReadAsbHeader, BeginAsbFrame, ReadAsbTail, Connect,
         AsbDisableWritten, WriteStatusQuery, AcceptStatus, PreflightFails,
         ConnectFails, RejectStatus, UnexpectedInPreflight, UnexpectedBeforeStep,
         FailStep, ReleaseStep, AcceptCheckpoint, InvalidCheckpoint,
         CheckpointFails, CheckpointLost, UnexpectedAfterStep,
         StatusAfterAnswer, DrainFails, ConfirmStep
    <3>3. QED
      BY <1>1, <3>1, <3>2 DEF Next
  <2>3. pc \in {"opened", "exchange", "answer"} /\ ~received
    BY <2>2 DEF PreflightFails, RotateSourcePort
  <2>4. released = 0 /\ NoJobPending
    BY <2>1, <2>3, Naturals DEF Counters
  <2>5. DOMAIN toPrinter = 1..Len(toPrinter)
    BY <2>1, LenProperties DEF TypeOK
  <2>6. QED
    BY <2>3, <2>4, <2>5 DEF NoJobPending, NoPrintPending, JobOps
<1>2. IInv /\ [Next]_vars =>
        [port' # port => ~received /\ released = 0 /\ NoPrintPending]_vars
  BY <1>1
<1>3. QED
  BY <1>2, Invariance, PTL DEF Spec, RotatesOnlyBeforeAnswer
--------------------------------------------------------------------------------
(* The session implements CheckpointDelivery.                              *)

LEMMA OpenOutcome ==
  /\ IInv /\ pc # "done" => Outcome = "open"
  /\ IInv /\ pc = "done" => Outcome \in Delivery!Verdicts(confirmed, released)
<1>1. IInv /\ pc # "done" => Outcome = "open"
  BY DEF IInv, Recorded, Outcome
<1>2. ASSUME IInv, pc = "done"
      PROVE  Outcome \in Delivery!Verdicts(confirmed, released)
  <2>1. /\ ParseResultAccepts(result)
        /\ result.status # "error" => result.code = "none" /\ ~result.unknown
        /\ result.code # "LIVE_SESSION_FAILED" =>
             /\ result.confirmed = confirmed
             /\ result.status = "completed" => confirmed = N
             /\ ~result.unknown => released = confirmed
             /\ result.unknown => released = confirmed + 1
        /\ confirmed \in Nat
    BY <1>2, Naturals DEF IInv, Recorded
  <2>2. CASE result.status = "completed"
    BY <2>1, <2>2 DEF Outcome, Delivery!Verdicts
  <2>3. CASE result.status = "cancelled"
    BY <2>1, <2>3 DEF Outcome, Delivery!Verdicts, ParseResultAccepts
  <2>4. CASE result.status = "error" /\ result.code = "LIVE_SESSION_FAILED"
    BY <2>4 DEF Outcome, Delivery!Verdicts
  <2>5. CASE result.status = "error" /\ result.code # "LIVE_SESSION_FAILED"
    BY <2>1, <2>5 DEF Outcome, Delivery!Verdicts
  <2>6. QED
    BY <2>1, <2>2, <2>3, <2>4, <2>5 DEF ParseResultAccepts
<1>3. QED
  BY <1>1, <1>2

LEMMA InitDelivery ==
  ASSUME Init
  PROVE  Delivery!Init
BY DEF Init, Delivery!Init, Outcome, NoResult

LEMMA StepDelivery ==
  ASSUME IInv, IInv', [Next]_vars
  PROVE  [Delivery!Next]_Delivery!vars
<1>1. TypeOK /\ Counters
  BY DEF IInv
<1>2. /\ pc # "done" => Outcome = "open"
      /\ pc' # "done" => Outcome' = "open"
      /\ pc' = "done" => Outcome' \in Delivery!Verdicts(confirmed', released')
  <2>1. /\ (IInv /\ pc # "done" => Outcome = "open")'
        /\ (IInv /\ pc = "done" => Outcome \in Delivery!Verdicts(confirmed, released))'
    BY OpenOutcome, PTL
  <2>2. Delivery!Verdicts(confirmed, released)' = Delivery!Verdicts(confirmed', released')
    BY DEF Delivery!Verdicts
  <2>3. QED
    BY <2>1, <2>2, OpenOutcome
<1>3. CASE ReleaseStep
  <2>1. /\ pc = "check" /\ released' = released + 1 /\ UNCHANGED <<printed, confirmed>>
    BY <1>3 DEF ReleaseStep
  <2>2. released = confirmed /\ released < N
    BY <1>1, <2>1 DEF Counters
  <2>3. Delivery!Release
    BY <1>2, <2>1, <2>2 DEF Delivery!Release
  <2>4. QED
    BY <2>3 DEF Delivery!Next
<1>4. CASE ConfirmStep
  <2>1. /\ pc = "after" /\ confirmed' = confirmed + 1 /\ released' = released
        /\ released = confirmed' /\ Len(printed) = released /\ printed' = printed
    BY <1>4, ConfirmFacts
  <2>2. confirmed < released
    BY <1>1, <2>1, Naturals
  <2>3. Delivery!Confirm
    BY <1>2, <2>1, <2>2 DEF Delivery!Confirm
  <2>4. QED
    BY <2>3 DEF Delivery!Next
<1>5. CASE ~ReleaseStep /\ ~ConfirmStep
  <2>1. UNCHANGED <<confirmed, released>>
    BY <1>5, HostCases DEF AcceptCheckpoint, counterVars
  <2>2. CASE printed' # printed
    <3>1. ExecuteCommand
      BY <1>5, <2>2, QueueCases DEF Connect, WriteStatusQuery, AnswerStatus
    <3>2. /\ printed' = Append(printed, released) /\ Len(printed) + 1 = released
          /\ UNCHANGED result
      BY <2>2, <3>1, CarriedOut DEF ExecuteCommand, hostUnchanged, verdictVars
    <3>3. Outcome' = Outcome
      BY <3>2 DEF Outcome
    <3>4. Len(printed) < released
      BY <1>1, <3>2, Naturals
    <3>5. QED
      BY <2>1, <3>2, <3>3, <3>4 DEF Delivery!PrintStep, Delivery!Next
  <2>3. CASE printed' = printed
    <3>1. CASE pc = "done"
      <4>1. UNCHANGED result
        <5> USE DEF hostUnchanged, verdictVars
        <5>1. CASE Environment \/ UNCHANGED vars
          BY <5>1 DEF Environment, RequestCancel, Deliver, LoseConnection,
             AnswerStatus, ExecuteCommand, SendAsbFrame, SendStrayByte, vars
        <5>2. CASE Host
          <6>1. ~Reading
            BY <3>1 DEF Reading, Awaiting, Draining
          <6>2. QED
            BY <3>1, <5>2, <6>1 DEF Host, ReadAsbHeader, BeginAsbFrame, ReadAsbTail,
               Connect, AsbDisableWritten, WriteStatusQuery, AcceptStatus,
               PreflightFails, RejectStatus, UnexpectedInPreflight,
               UnexpectedBeforeStep, ReleaseStep, AcceptCheckpoint,
               InvalidCheckpoint, CheckpointFails, CheckpointLost,
               UnexpectedAfterStep, StatusAfterAnswer, DrainFails, ConfirmStep
        <5>3. QED
          BY <5>1, <5>2 DEF Next
      <4>2. Outcome' = Outcome
        BY <4>1 DEF Outcome
      <4>3. QED
        BY <2>1, <2>3, <4>2 DEF Delivery!vars
    <3>2. CASE pc # "done" /\ pc' # "done"
      BY <1>2, <2>1, <2>3, <3>2 DEF Delivery!vars
    <3>3. CASE pc # "done" /\ pc' = "done"
      <4>1. Delivery!Stop
        BY <1>2, <2>1, <2>3, <3>3 DEF Delivery!Stop
      <4>2. QED
        BY <4>1 DEF Delivery!Next
    <3>4. QED
      BY <3>1, <3>2, <3>3
  <2>4. QED
    BY <2>2, <2>3
<1>6. QED
  BY <1>3, <1>4, <1>5

(* The controller, its connection and the printer together keep the        *)
(* promise of CheckpointDelivery.                                          *)
THEOREM Implementation == CleanLine => (Spec => ImplementsDelivery)
<1> SUFFICES ASSUME CleanLine PROVE Spec => ImplementsDelivery
  OBVIOUS
<1>1. Init => Delivery!Init
  BY InitDelivery
<1>2. IInv /\ IInv' /\ [Next]_vars => [Delivery!Next]_Delivery!vars
  BY StepDelivery
<1>3. Spec => []IInv
  BY Invariance
<1>4. QED
  BY <1>1, <1>2, <1>3, PTL DEF Spec, ImplementsDelivery, Delivery!Spec
================================================================================
