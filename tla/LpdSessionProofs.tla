---------------------------- MODULE LpdSessionProofs ----------------------------
(***************************************************************************)
(* Proofs about LpdSession, for every set of helpers, every number of      *)
(* source ports and every order in which the helpers take them.            *)
(***************************************************************************)
EXTENDS LpdSession, FiniteSetTheorems, TLAPS

USE NPortsAssumption, OffsetAssumption
USE DEF Stages, Tries, Current

--------------------------------------------------------------------------------
(* Connections.                                                            *)

LEMMA Fields ==
  ASSUME TypeOK, NEW j \in Jobs, NEW t \in Tries
  PROVE  /\ conn[j][t] \in Connections
         /\ conn[j][t].line \in {"unused", "up", "closed", "down"}
         /\ conn[j][t].sent \in 0..5 /\ conn[j][t].got \in 0..5 /\ conn[j][t].read \in 0..5
         /\ conn[j][t].answer \in {"none", "zero", "nack"}
  BY DEF TypeOK, Connections

(* A step that replaces one connection leaves all others alone.            *)
LEMMA Replaced ==
  ASSUME NEW f \in [Jobs -> [Tries -> Connections]],
         NEW j \in Jobs, NEW t \in Tries, NEW c \in Connections
  PROVE  LET g == [f EXCEPT ![j][t] = c] IN
         /\ g \in [Jobs -> [Tries -> Connections]]
         /\ g[j][t] = c
         /\ \A k \in Jobs, u \in Tries : k # j \/ u # t => g[k][u] = f[k][u]
  OBVIOUS

(* What the helper and the printer do to a connection, field by field.     *)
LEMMA ClosedFields ==
  ASSUME NEW c \in Connections
  PROVE  /\ Closed(c) \in Connections
         /\ Closed(c).sent = c.sent /\ Closed(c).got = c.got /\ Closed(c).read = c.read
         /\ Closed(c).answer = "none" /\ Closed(c).line # "up"
  BY DEF Closed, Connections

LEMMA TakenFields ==
  ASSUME NEW c \in Connections, c.read < 5
  PROVE  /\ Taken(c) \in Connections
         /\ Taken(c).sent = c.sent /\ Taken(c).got = c.got /\ Taken(c).read = c.read + 1
         /\ Taken(c).answer = "none" /\ Taken(c).line = c.line
<1>1. c.read + 1 \in 0..5
  BY DEF Connections
<1> QED BY <1>1 DEF Taken, Connections

LEMMA WrittenFields ==
  ASSUME NEW c \in Connections, NEW s \in 1..5
  PROVE  /\ Written(c, s) \in Connections
         /\ Written(c, s).sent = (IF c.line = "up" THEN s ELSE c.sent)
         /\ Written(c, s).got = c.got /\ Written(c, s).read = c.read
         /\ Written(c, s).answer = c.answer /\ Written(c, s).line = c.line
  BY DEF Written, Connections

LEMMA AnsweredFields ==
  ASSUME NEW c \in Connections, NEW answer \in {"zero", "nack"}, c.got < 5
  PROVE  /\ Answered(c, answer) \in Connections
         /\ Answered(c, answer).got = (IF answer = "zero" THEN c.got + 1 ELSE 5)
         /\ Answered(c, answer).sent = c.sent /\ Answered(c, answer).read = c.read
         /\ Answered(c, answer).answer = (IF c.line = "up" THEN answer ELSE c.answer)
         /\ Answered(c, answer).line = c.line
<1>1. c.got + 1 \in 0..5
  BY DEF Connections
<1>2. c.line \in {"unused", "up", "closed", "down"} /\ c.answer \in {"none", "zero", "nack"}
  BY DEF Connections
<1>3. /\ (IF answer = "zero" THEN c.got + 1 ELSE 5) \in 0..5
      /\ (IF c.line = "up" THEN answer ELSE c.answer) \in {"none", "zero", "nack"}
  BY <1>1, <1>2
<1>4. Answered(c, answer) \in Connections
  BY <1>3 DEF Answered, Connections
<1> QED BY <1>4 DEF Answered, Connections

--------------------------------------------------------------------------------
(* The inductive invariant, action by action.                              *)

LEMMA InitHolds == ASSUME Init PROVE IInv
<1>1. NoConnection \in Connections
  BY DEF NoConnection, Connections
<1>2. TypeOK
  BY <1>1 DEF Init, TypeOK, NoRecord
<1>3. HelperShape /\ SentShape /\ VerdictShape
  BY DEF Init, HelperShape, SentShape, VerdictShape, NoRecord
<1>4. AnswerShape /\ QueuedShape
  BY DEF Init, AnswerShape, QueuedShape, NoConnection
<1> QED BY <1>2, <1>3, <1>4 DEF IInv

LEMMA OpenConnectionStep ==
  ASSUME IInv, NEW j \in Jobs, OpenConnection(j) PROVE IInv'
<1> DEFINE t == try[j] + 1
<1>1. TypeOK /\ pc[j] = "open" /\ t \in Tries /\ conn[j][t] = NoConnection
  BY DEF IInv, TypeOK, HelperShape, SentShape, OpenConnection
<1>2. PICK c \in Connections :
        /\ conn' = [conn EXCEPT ![j][t] = c]
        /\ c.line # "unused" /\ c.answer = "none" /\ c.sent = 0 /\ c.got = 0 /\ c.read = 0
  <2>1. PICK line \in {"up", "down"} :
          conn' = [conn EXCEPT ![j][t] = [@ EXCEPT !.line = line]]
    BY DEF OpenConnection
  <2>2. [NoConnection EXCEPT !.line = line] \in Connections
    BY DEF NoConnection, Connections
  <2> QED BY <1>1, <2>1, <2>2 DEF NoConnection, TypeOK
<1> HIDE DEF t
<1>3. /\ conn' \in [Jobs -> [Tries -> Connections]]
      /\ conn'[j][t] = c
      /\ \A k \in Jobs, u \in Tries : k # j \/ u # t => conn'[k][u] = conn[k][u]
  <2>1. conn \in [Jobs -> [Tries -> Connections]]
    BY <1>1 DEF TypeOK
  <2> QED BY <1>1, <1>2, <2>1, Replaced
<1>4. /\ try' = [try EXCEPT ![j] = t] /\ pc' = [pc EXCEPT ![j] = "write"]
      /\ UNCHANGED <<stage, ackCount, record, queued>>
  BY DEF OpenConnection, t
<1>5. TypeOK'
  BY <1>1, <1>3, <1>4 DEF TypeOK
<1>6. HelperShape'
  BY <1>1, <1>2, <1>3, <1>4 DEF IInv, TypeOK, HelperShape
<1>7. SentShape'
  BY <1>1, <1>2, <1>3, <1>4 DEF IInv, TypeOK, HelperShape, SentShape, t
<1>8. AnswerShape'
  BY <1>1, <1>2, <1>3, <1>4 DEF IInv, TypeOK, HelperShape, AnswerShape
<1>9. QueuedShape' /\ VerdictShape'
  BY <1>1, <1>2, <1>3, <1>4 DEF IInv, TypeOK, HelperShape, SentShape, QueuedShape, VerdictShape, NoRecord
<1> QED BY <1>5, <1>6, <1>7, <1>8, <1>9 DEF IInv

(* At work, the helper has a present connection.                           *)
LEMMA Present ==
  ASSUME IInv, NEW j \in Jobs, pc[j] # "open"
  PROVE  TypeOK /\ try[j] \in Tries /\ conn[j][try[j]] \in Connections
<1>1. TypeOK /\ try[j] \in Tries
  BY DEF IInv, TypeOK, HelperShape
<1> QED BY <1>1, Fields

LEMMA WriteStageStep ==
  ASSUME IInv, NEW j \in Jobs, WriteStage(j) PROVE IInv'
<1> DEFINE t == try[j]
           c == Written(conn[j][t], stage[j])
<1>1. TypeOK /\ t \in Tries /\ conn[j][t] \in Connections /\ stage[j] \in 1..5 /\ pc[j] = "write"
  BY Present DEF WriteStage, TypeOK
<1>2. /\ c \in Connections
      /\ c.sent \in {stage[j], conn[j][t].sent} /\ c.got = conn[j][t].got
      /\ c.read = conn[j][t].read /\ c.answer = conn[j][t].answer /\ c.line = conn[j][t].line
  BY <1>1, WrittenFields
<1>3. /\ conn' = [conn EXCEPT ![j][t] = c] /\ pc' = [pc EXCEPT ![j] = "ack"]
      /\ UNCHANGED <<try, stage, ackCount, record, queued>>
  BY DEF WriteStage
<1> HIDE DEF t, c
<1>4. /\ conn' \in [Jobs -> [Tries -> Connections]]
      /\ conn'[j][t] = c
      /\ \A k \in Jobs, u \in Tries : k # j \/ u # t => conn'[k][u] = conn[k][u]
  <2>1. conn \in [Jobs -> [Tries -> Connections]]
    BY <1>1 DEF TypeOK
  <2> QED BY <1>1, <1>2, <1>3, <2>1, Replaced
<1>5. TypeOK'
  BY <1>1, <1>3, <1>4 DEF TypeOK
<1>6. HelperShape'
  BY <1>1, <1>2, <1>3, <1>4 DEF IInv, TypeOK, HelperShape, t
<1>7. SentShape'
  BY <1>1, <1>2, <1>3, <1>4 DEF IInv, TypeOK, HelperShape, SentShape, t
<1>8. AnswerShape'
  BY <1>1, <1>2, <1>3, <1>4 DEF IInv, TypeOK, HelperShape, AnswerShape, t
<1>9. QueuedShape' /\ VerdictShape'
  <2>1. c.sent = 5 \/ conn[j][t].sent # 5
    BY <1>1, <1>2, Fields DEF IInv, SentShape, t
  <2> QED BY <1>1, <1>2, <1>3, <1>4, <2>1 DEF IInv, TypeOK, HelperShape, QueuedShape, VerdictShape, NoRecord, t
<1> QED BY <1>5, <1>6, <1>7, <1>8, <1>9 DEF IInv

(* The helper leaves a stage without an answer; it is at another port, or  *)
(* it has ended.                                                           *)
LEMMA AmbiguousStep ==
  ASSUME IInv, NEW j \in Jobs, pc[j] \in {"write", "ack"}, CloseConnection(j),
         \/ Ambiguous(j)
         \/ pc' = [pc EXCEPT ![j] = "done"] /\ UNCHANGED record,
         UNCHANGED <<try, stage, ackCount, queued>>
  PROVE  IInv'
<1> DEFINE t == try[j]
           c == Closed(conn[j][t])
<1>1. TypeOK /\ t \in Tries /\ conn[j][t] \in Connections /\ stage[j] \in 1..5
  BY Present DEF TypeOK
<1>2. /\ c \in Connections
      /\ c.sent = conn[j][t].sent /\ c.got = conn[j][t].got
      /\ c.read = conn[j][t].read /\ c.answer = "none" /\ c.line # "up"
  BY <1>1, ClosedFields
<1>3. /\ conn' = [conn EXCEPT ![j][t] = c]
      /\ UNCHANGED <<try, stage, ackCount, queued>>
  BY DEF CloseConnection
<1>4. \/ /\ stage[j] = 1 /\ try[j] < NPorts
         /\ pc' = [pc EXCEPT ![j] = "open"] /\ UNCHANGED record
      \/ /\ pc' = [pc EXCEPT ![j] = "done"]
         /\ \/ UNCHANGED record
            \/ record' = [record EXCEPT ![j] = [code |-> "lpd_unknown", stage |-> stage[j],
                                                acks |-> stage[j] - 1]]
  BY DEF Ambiguous, Rotate, Stop, IInv, HelperShape
<1> HIDE DEF t, c
<1>5. /\ conn' \in [Jobs -> [Tries -> Connections]]
      /\ conn'[j][t] = c
      /\ \A k \in Jobs, u \in Tries : k # j \/ u # t => conn'[k][u] = conn[k][u]
  <2>1. conn \in [Jobs -> [Tries -> Connections]]
    BY <1>1 DEF TypeOK
  <2> QED BY <1>1, <1>2, <1>3, <2>1, Replaced
<1>6. TypeOK'
  <2>1. [code |-> "lpd_unknown", stage |-> stage[j], acks |-> stage[j] - 1]
          \in [code : {"none", "ok", "lpd_unknown", "lpd_rejected"}, stage : Stages, acks : 0..5]
    BY <1>1
  <2>2. record' \in [Jobs -> [code : {"none", "ok", "lpd_unknown", "lpd_rejected"},
                              stage : Stages, acks : 0..5]]
    BY <1>1, <1>4, <2>1 DEF TypeOK
  <2>3. pc' \in [Jobs -> {"open", "write", "ack", "done"}]
    BY <1>1, <1>4 DEF TypeOK
  <2> QED BY <1>1, <1>3, <1>5, <2>2, <2>3 DEF TypeOK
<1>7. HelperShape'
  BY <1>1, <1>2, <1>3, <1>4, <1>5 DEF IInv, TypeOK, HelperShape, NoRecord, t
<1>8. SentShape'
  BY <1>1, <1>2, <1>3, <1>4, <1>5 DEF IInv, TypeOK, SentShape, t
<1>9. AnswerShape'
  BY <1>1, <1>2, <1>3, <1>4, <1>5 DEF IInv, TypeOK, AnswerShape, t
<1>10. QueuedShape' /\ VerdictShape'
  BY <1>1, <1>2, <1>3, <1>4, <1>5 DEF IInv, TypeOK, HelperShape, QueuedShape, VerdictShape, NoRecord, t
<1> QED BY <1>6, <1>7, <1>8, <1>9, <1>10 DEF IInv

LEMMA ReceiveNackStep ==
  ASSUME IInv, NEW j \in Jobs, ReceiveNack(j) PROVE IInv'
<1> DEFINE t == try[j]
           c == Closed(Taken(conn[j][t]))
<1>1. /\ TypeOK /\ t \in Tries /\ conn[j][t] \in Connections /\ stage[j] \in 1..5
      /\ pc[j] = "ack" /\ conn[j][t].answer = "nack"
  BY Present DEF ReceiveNack, NegativeAck, TypeOK
<1>2. conn[j][t].read = stage[j] - 1 /\ ackCount[j] = stage[j] - 1
  BY <1>1 DEF IInv, HelperShape
<1>3. /\ c \in Connections
      /\ c.sent = conn[j][t].sent /\ c.got = conn[j][t].got
      /\ c.read = stage[j] /\ c.answer = "none" /\ c.line # "up"
  BY <1>1, <1>2, TakenFields, ClosedFields
<1>4. /\ conn' = [conn EXCEPT ![j][t] = c] /\ pc' = [pc EXCEPT ![j] = "done"]
      /\ record' = [record EXCEPT ![j] = [code |-> "lpd_rejected", stage |-> stage[j],
                                          acks |-> stage[j]]]
      /\ UNCHANGED <<try, stage, ackCount, queued>>
  <2>1. ackCount[j] + 1 = stage[j]
    BY <1>1, <1>2
  <2> QED BY <2>1 DEF ReceiveNack, NegativeAck, Stop
<1> HIDE DEF t, c
<1>5. /\ conn' \in [Jobs -> [Tries -> Connections]]
      /\ conn'[j][t] = c
      /\ \A k \in Jobs, u \in Tries : k # j \/ u # t => conn'[k][u] = conn[k][u]
  <2>1. conn \in [Jobs -> [Tries -> Connections]]
    BY <1>1 DEF TypeOK
  <2> QED BY <1>1, <1>3, <1>4, <2>1, Replaced
<1>6. TypeOK'
  BY <1>1, <1>4, <1>5 DEF TypeOK
<1>7. HelperShape'
  BY <1>1, <1>3, <1>4, <1>5 DEF IInv, TypeOK, HelperShape, NoRecord, t
<1>8. SentShape'
  BY <1>1, <1>3, <1>4, <1>5 DEF IInv, TypeOK, SentShape, t
<1>9. AnswerShape'
  BY <1>1, <1>3, <1>4, <1>5 DEF IInv, TypeOK, AnswerShape, t
<1>10. QueuedShape' /\ VerdictShape'
  BY <1>1, <1>3, <1>4, <1>5 DEF IInv, TypeOK, HelperShape, AnswerShape, QueuedShape, VerdictShape, t
<1> QED BY <1>6, <1>7, <1>8, <1>9, <1>10 DEF IInv

(* An acknowledgement lets the helper write the next stage.                *)
LEMMA NextStageStep ==
  ASSUME IInv, NEW j \in Jobs, ReceiveAck(j), stage[j] < 5 PROVE IInv'
<1> DEFINE t == try[j]
           c == Taken(conn[j][t])
<1>1. /\ TypeOK /\ t \in Tries /\ conn[j][t] \in Connections /\ stage[j] \in 1..5
      /\ pc[j] = "ack" /\ conn[j][t].answer = "zero"
  BY Present DEF ReceiveAck, TypeOK
<1>2. conn[j][t].read = stage[j] - 1 /\ ackCount[j] + 1 = stage[j]
  BY <1>1 DEF IInv, TypeOK, HelperShape
<1>3. conn[j][t].got = stage[j] /\ conn[j][t].sent <= stage[j]
  BY <1>1, <1>2 DEF IInv, AnswerShape, SentShape
<1>4. /\ c \in Connections
      /\ c.sent = conn[j][t].sent /\ c.got = stage[j] /\ c.read = stage[j] /\ c.answer = "none"
  BY <1>1, <1>2, <1>3, TakenFields
<1>5. /\ conn' = [conn EXCEPT ![j][t] = c]
      /\ stage' = [stage EXCEPT ![j] = stage[j] + 1]
      /\ ackCount' = [ackCount EXCEPT ![j] = stage[j]]
      /\ pc' = [pc EXCEPT ![j] = "write"]
      /\ UNCHANGED <<try, record, queued>>
  <2>1. ackCount' = [ackCount EXCEPT ![j] = ackCount[j] + 1]
    BY DEF ReceiveAck
  <2>2. /\ conn' = [conn EXCEPT ![j][t] = c]
        /\ stage' = [stage EXCEPT ![j] = stage[j] + 1]
        /\ pc' = [pc EXCEPT ![j] = "write"]
        /\ UNCHANGED <<try, record, queued>>
    BY <1>1 DEF ReceiveAck, TypeOK
  <2> QED BY <1>2, <2>1, <2>2
<1> HIDE DEF t, c
<1>6. /\ conn' \in [Jobs -> [Tries -> Connections]]
      /\ conn'[j][t] = c
      /\ \A k \in Jobs, u \in Tries : k # j \/ u # t => conn'[k][u] = conn[k][u]
  <2>1. conn \in [Jobs -> [Tries -> Connections]]
    BY <1>1 DEF TypeOK
  <2> QED BY <1>1, <1>4, <1>5, <2>1, Replaced
<1>7. TypeOK'
  BY <1>1, <1>5, <1>6 DEF TypeOK
<1>8. HelperShape'
  BY <1>1, <1>4, <1>5, <1>6 DEF IInv, TypeOK, HelperShape, NoRecord, t
<1>9. SentShape'
  <2> SUFFICES ASSUME NEW k \in Jobs, NEW u \in Tries
               PROVE /\ u > try[k] => conn'[k][u] = NoConnection
                     /\ u < try[k] => conn'[k][u].sent <= 1
                     /\ u = try[k] => conn'[k][u].sent <= stage'[k]
    BY <1>5 DEF SentShape
  <2>1. CASE k = j /\ u = t
    <3>1. c.sent <= stage[j] + 1 /\ stage'[j] = stage[j] + 1
      <4>1. conn[j][t].sent \in 0..5
        BY <1>1, Fields
      <4>2. stage'[j] = stage[j] + 1
        BY <1>1, <1>5 DEF TypeOK
      <4> QED BY <1>1, <1>3, <1>4, <4>1, <4>2
    <3> QED BY <1>1, <1>6, <2>1, <3>1 DEF t
  <2>2. CASE k # j
    BY <1>1, <1>5, <1>6, <2>2 DEF IInv, TypeOK, SentShape
  <2>3. CASE k = j /\ u # t
    BY <1>1, <1>6, <2>3 DEF IInv, SentShape, t
  <2> QED BY <2>1, <2>2, <2>3
<1>10. AnswerShape'
  <2>1. c.sent <= c.read /\ c.sent <= c.read + 1 /\ c.got = c.read
    BY <1>1, <1>3, <1>4, Fields
  <2>2. \A u \in Tries : u # t => conn[j][u].answer = "none"
    BY <1>1, Fields DEF IInv, AnswerShape, t
  <2>3. pc'[j] = "write" /\ \A k \in Jobs : k # j => pc'[k] = pc[k]
    BY <1>1, <1>5 DEF TypeOK
  <2> QED BY <1>1, <1>4, <1>5, <1>6, <2>1, <2>2, <2>3 DEF IInv, AnswerShape, t
<1>11. QueuedShape' /\ VerdictShape'
  <2>1. queued[j] = 0 /\ record[j] = NoRecord
    BY <1>1, <1>3 DEF IInv, TypeOK, HelperShape, QueuedShape, t
  <2> QED BY <1>1, <1>5, <1>6, <2>1 DEF IInv, TypeOK, HelperShape, QueuedShape, VerdictShape, NoRecord, t
<1> QED BY <1>7, <1>8, <1>9, <1>10, <1>11 DEF IInv

(* The acknowledgement of the data file ends the session; the printer has  *)
(* queued the job by then.                                                 *)
LEMMA AcceptedStep ==
  ASSUME IInv, NEW j \in Jobs, ReceiveAck(j), stage[j] = 5 PROVE IInv'
<1> DEFINE t == try[j]
           c == Closed(Taken(conn[j][t]))
<1>1. /\ TypeOK /\ t \in Tries /\ conn[j][t] \in Connections
      /\ pc[j] = "ack" /\ conn[j][t].answer = "zero"
  BY Present DEF ReceiveAck, TypeOK
<1>2. conn[j][t].read = 4 /\ ackCount[j] + 1 = 5
  BY <1>1 DEF IInv, TypeOK, HelperShape
<1>3. conn[j][t].got = 5 /\ queued[j] = 1
  BY <1>1, <1>2 DEF IInv, AnswerShape
<1>4. /\ c \in Connections
      /\ c.sent = conn[j][t].sent /\ c.got = 5 /\ c.read = 5
      /\ c.answer = "none" /\ c.line # "up"
  <2>1. Taken(conn[j][t]) \in Connections
    BY <1>1, <1>2, TakenFields
  <2> QED BY <1>1, <1>2, <1>3, <2>1, TakenFields, ClosedFields
<1>5. /\ conn' = [conn EXCEPT ![j][t] = c]
      /\ ackCount' = [ackCount EXCEPT ![j] = 5]
      /\ pc' = [pc EXCEPT ![j] = "done"]
      /\ record' = [record EXCEPT ![j] = [code |-> "ok", stage |-> 5, acks |-> 5]]
      /\ UNCHANGED <<try, stage, queued>>
  <2>1. ackCount' = [ackCount EXCEPT ![j] = ackCount[j] + 1]
    BY DEF ReceiveAck
  <2>2. /\ conn' = [conn EXCEPT ![j][t] = c]
        /\ pc' = [pc EXCEPT ![j] = "done"]
        /\ record' = [record EXCEPT ![j] = [code |-> "ok", stage |-> 5, acks |-> ackCount[j] + 1]]
        /\ UNCHANGED <<try, stage, queued>>
    BY <1>1 DEF ReceiveAck, Stop
  <2> QED BY <1>2, <2>1, <2>2
<1> HIDE DEF t, c
<1>6. /\ conn' \in [Jobs -> [Tries -> Connections]]
      /\ conn'[j][t] = c
      /\ \A k \in Jobs, u \in Tries : k # j \/ u # t => conn'[k][u] = conn[k][u]
  <2>1. conn \in [Jobs -> [Tries -> Connections]]
    BY <1>1 DEF TypeOK
  <2> QED BY <1>1, <1>4, <1>5, <2>1, Replaced
<1>7. TypeOK'
  BY <1>1, <1>5, <1>6 DEF TypeOK
<1>8. HelperShape'
  BY <1>1, <1>4, <1>5, <1>6 DEF IInv, TypeOK, HelperShape, NoRecord, t
<1>9. SentShape'
  BY <1>1, <1>4, <1>5, <1>6 DEF IInv, TypeOK, SentShape, t
<1>10. AnswerShape'
  BY <1>1, <1>4, <1>5, <1>6 DEF IInv, TypeOK, AnswerShape, t
<1>11. QueuedShape' /\ VerdictShape'
  BY <1>1, <1>3, <1>4, <1>5, <1>6 DEF IInv, TypeOK, HelperShape, QueuedShape, VerdictShape, t
<1> QED BY <1>7, <1>8, <1>9, <1>10, <1>11 DEF IInv

LEMMA OpenFailsStep ==
  ASSUME IInv, NEW j \in Jobs, OpenFails(j) PROVE IInv'
<1> DEFINE t == try[j] + 1
           c == [NoConnection EXCEPT !.line = "down"]
<1>1. /\ TypeOK /\ pc[j] = "open" /\ t \in Tries /\ conn[j][t] = NoConnection
      /\ stage[j] = 1 /\ queued[j] = 0
  <2>1. /\ TypeOK /\ pc[j] = "open" /\ t \in Tries /\ conn[j][t] = NoConnection
        /\ stage[j] = 1
    <3>1. TypeOK /\ pc[j] = "open" /\ try[j] \in 0..NPorts
      BY DEF IInv, TypeOK, OpenFails
    <3>2. try[j] < NPorts /\ stage[j] = 1
      BY <3>1 DEF IInv, HelperShape
    <3> QED BY <3>1, <3>2 DEF IInv, SentShape
  <2>2. try[j] > 0 => conn[j][try[j]].sent <= 1
    BY <2>1 DEF IInv, SentShape, TypeOK
  <2> QED BY <2>1, <2>2 DEF IInv, QueuedShape
<1>2. /\ c \in Connections
      /\ c.answer = "none" /\ c.sent = 0 /\ c.got = 0 /\ c.read = 0 /\ c.line = "down"
  BY DEF NoConnection, Connections
<1>3. /\ conn' = [conn EXCEPT ![j][t] = c] /\ try' = [try EXCEPT ![j] = t]
      /\ UNCHANGED <<stage, ackCount, queued>>
  <2>1. conn' = [conn EXCEPT ![j][t] = [conn[j][t] EXCEPT !.line = "down"]]
    BY DEF OpenFails
  <2> QED BY <1>1, <2>1 DEF OpenFails
<1>4. \/ t < NPorts /\ UNCHANGED <<pc, record>>
      \/ /\ t = NPorts /\ pc' = [pc EXCEPT ![j] = "done"]
         /\ record' = [record EXCEPT ![j] = [code |-> "lpd_unknown", stage |-> 1, acks |-> 0]]
  BY <1>1 DEF OpenFails, Stop
<1> HIDE DEF t, c
<1>5. /\ conn' \in [Jobs -> [Tries -> Connections]]
      /\ conn'[j][t] = c
      /\ \A k \in Jobs, u \in Tries : k # j \/ u # t => conn'[k][u] = conn[k][u]
  <2>1. conn \in [Jobs -> [Tries -> Connections]]
    BY <1>1 DEF TypeOK
  <2> QED BY <1>1, <1>2, <1>3, <2>1, Replaced
<1>6. TypeOK'
  <2>1. record' \in [Jobs -> [code : {"none", "ok", "lpd_unknown", "lpd_rejected"},
                              stage : Stages, acks : 0..5]]
    <3>1. [code |-> "lpd_unknown", stage |-> 1, acks |-> 0]
            \in [code : {"none", "ok", "lpd_unknown", "lpd_rejected"}, stage : Stages, acks : 0..5]
      OBVIOUS
    <3>2. \/ UNCHANGED record
          \/ record' = [record EXCEPT ![j] = [code |-> "lpd_unknown", stage |-> 1, acks |-> 0]]
      BY <1>4
    <3>3. record \in [Jobs -> [code : {"none", "ok", "lpd_unknown", "lpd_rejected"},
                               stage : Stages, acks : 0..5]]
      BY <1>1 DEF TypeOK
    <3> QED BY <3>1, <3>2, <3>3
  <2>2. pc' \in [Jobs -> {"open", "write", "ack", "done"}]
    BY <1>1, <1>4 DEF TypeOK
  <2>3. try' \in [Jobs -> 0..NPorts]
    BY <1>1, <1>3 DEF TypeOK
  <2> QED BY <1>1, <1>3, <1>5, <2>1, <2>2, <2>3 DEF TypeOK
<1>7. HelperShape'
  BY <1>1, <1>2, <1>3, <1>4, <1>5 DEF IInv, TypeOK, HelperShape, NoRecord
<1>8. SentShape'
  BY <1>1, <1>2, <1>3, <1>4, <1>5 DEF IInv, TypeOK, HelperShape, SentShape, t
<1>9. AnswerShape'
  BY <1>1, <1>2, <1>3, <1>4, <1>5 DEF IInv, TypeOK, HelperShape, AnswerShape
<1>10. QueuedShape' /\ VerdictShape'
  BY <1>1, <1>2, <1>3, <1>4, <1>5 DEF IInv, TypeOK, HelperShape, QueuedShape, VerdictShape, NoRecord
<1> QED BY <1>6, <1>7, <1>8, <1>9, <1>10 DEF IInv

(* The printer queues a job only for the data file of its present          *)
(* connection, which it takes up once.                                     *)
LEMMA AnswerStageStep ==
  ASSUME IInv, NEW j \in Jobs, NEW t \in Tries, AnswerStage(j, t) PROVE IInv'
<1>1. /\ TypeOK /\ conn[j][t] \in Connections
      /\ conn[j][t].sent \in 0..5 /\ conn[j][t].got \in 0..5
      /\ conn[j][t].got < conn[j][t].sent
  BY Fields DEF IInv, AnswerStage
<1>2. PICK answer \in {"zero", "nack"} :
        /\ conn' = [conn EXCEPT ![j][t] = Answered(conn[j][t], answer)]
        /\ queued' = IF answer = "zero" /\ conn[j][t].got = 4
                     THEN [queued EXCEPT ![j] = @ + 1] ELSE queued
  BY DEF AnswerStage
<1> DEFINE c == Answered(conn[j][t], answer)
<1>3. /\ c \in Connections
      /\ c.got = (IF answer = "zero" THEN conn[j][t].got + 1 ELSE 5)
      /\ c.sent = conn[j][t].sent /\ c.read = conn[j][t].read
      /\ c.answer = (IF conn[j][t].line = "up" THEN answer ELSE conn[j][t].answer)
      /\ c.line = conn[j][t].line
  BY <1>1, AnsweredFields
<1>4. UNCHANGED <<pc, try, stage, ackCount, record>>
  BY DEF AnswerStage
<1>5. /\ t <= try[j] /\ (t < try[j] => conn[j][t].sent <= 1)
      /\ try[j] > 0 /\ (queued[j] # 0 => t # try[j])
  <2>1. try[j] \in 0..NPorts /\ NoConnection.sent = 0
    BY <1>1 DEF TypeOK, NoConnection
  <2>2. t <= try[j]
    BY <1>1, <2>1 DEF IInv, SentShape
  <2>3. t < try[j] => conn[j][t].sent <= 1
    BY DEF IInv, SentShape
  <2>4. queued[j] # 0 => t # try[j]
    BY <1>1 DEF IInv, QueuedShape
  <2> QED BY <2>1, <2>2, <2>3, <2>4
<1> HIDE DEF c
<1>6. /\ conn' \in [Jobs -> [Tries -> Connections]]
      /\ conn'[j][t] = c
      /\ \A k \in Jobs, u \in Tries : k # j \/ u # t => conn'[k][u] = conn[k][u]
  <2>1. conn \in [Jobs -> [Tries -> Connections]] /\ conn' = [conn EXCEPT ![j][t] = c]
    BY <1>1, <1>2 DEF TypeOK, c
  <2> QED BY <1>3, <2>1, Replaced
<1>7. \/ queued' = queued /\ (answer = "zero" => c.got < 5)
      \/ /\ answer = "zero" /\ c.got = 5 /\ c.sent = 5 /\ t = try[j]
         /\ queued[j] = 0 /\ queued' = [queued EXCEPT ![j] = 1]
  <2>1. CASE answer = "zero" /\ conn[j][t].got = 4
    <3>1. c.got = 5 /\ c.sent = 5
      BY <1>1, <1>3, <2>1
    <3>2. t = try[j]
      BY <1>1, <1>5, <2>1, Fields DEF TypeOK
    <3>3. queued[j] = 0
      BY <1>5, <3>2
    <3> QED BY <1>2, <2>1, <3>1, <3>2, <3>3
  <2>2. CASE ~(answer = "zero" /\ conn[j][t].got = 4)
    BY <1>1, <1>2, <1>3, <2>2
  <2> QED BY <2>1, <2>2
<1>8. TypeOK'
  BY <1>1, <1>4, <1>6, <1>7 DEF TypeOK
<1>9. HelperShape'
  BY <1>1, <1>3, <1>4, <1>6 DEF IInv, TypeOK, HelperShape
<1>10. SentShape'
  <2>1. \A k \in Jobs, u \in Tries :
          conn'[k][u].sent = conn[k][u].sent /\ (u > try[k] => conn'[k][u] = conn[k][u])
    <3>1. try[j] \in 0..NPorts
      BY <1>1 DEF TypeOK
    <3> QED BY <1>3, <1>5, <1>6, <3>1
  <2> QED BY <1>4, <2>1 DEF IInv, SentShape
<1>11. AnswerShape'
  <2> SUFFICES ASSUME NEW k \in Jobs, NEW u \in Tries
               PROVE  LET d == conn'[k][u] IN
                      /\ d.answer # "none" => u = try[k] /\ pc[k] = "ack"
                      /\ d.line = "up" => u = try[k] /\ pc[k] \in {"write", "ack"}
                      /\ u = try[k] /\ pc[k] = "write" => d.sent <= d.read
                      /\ u = try[k] /\ pc[k] \in {"write", "ack"} =>
                           /\ d.sent <= d.read + 1
                           /\ d.line = "up" /\ d.answer = "none" => d.got = d.read
                      /\ d.answer = "zero" => d.got = d.read + 1 /\ (d.got = 5 => queued'[k] = 1)
                      /\ d.answer = "nack" => d.got = 5 /\ queued'[k] = 0
    BY <1>4 DEF AnswerShape
  <2>1. CASE k # j
    <3>1. queued'[k] = queued[k]
      BY <1>1, <1>7, <2>1 DEF TypeOK
    <3>2. conn'[k][u] = conn[k][u]
      BY <1>6, <2>1
    <3> QED BY <3>1, <3>2 DEF IInv, AnswerShape
  <2>2. CASE k = j /\ u # t
    <3>1. conn[k][u].answer # "none" => queued'[k] = queued[k]
      BY <1>7, <2>2 DEF IInv, AnswerShape
    <3> QED BY <1>6, <2>2, <3>1 DEF IInv, AnswerShape
  <2>3. CASE k = j /\ u = t
    <3>1. conn[j][t].read \in 0..5 /\ conn[j][t].answer \in {"none", "zero", "nack"}
      BY <1>1, Fields
    <3>2. conn[j][t].answer = "none"
      <4>1. conn[j][t].answer # "none" => conn[j][t].sent <= conn[j][t].read + 1
        BY DEF IInv, AnswerShape
      <4>2. conn[j][t].answer = "zero" => conn[j][t].got = conn[j][t].read + 1
        BY DEF IInv, AnswerShape
      <4>3. conn[j][t].answer = "nack" => conn[j][t].got = 5
        BY DEF IInv, AnswerShape
      <4> QED BY <1>1, <3>1, <4>1, <4>2, <4>3
    <3>3. CASE conn[j][t].line = "up"
      <4>1. /\ t = try[j] /\ conn[j][t].got = conn[j][t].read
            /\ conn[j][t].sent <= conn[j][t].read + 1 /\ pc[j] = "ack"
        BY <1>1, <3>1, <3>2, <3>3 DEF IInv, AnswerShape
      <4>2. queued[j] = 0
        BY <1>5, <4>1
      <4>3. answer = "zero" /\ c.got = 5 => queued'[j] = 1
        BY <1>1, <1>7 DEF TypeOK
      <4>4. answer = "nack" => c.got = 5 /\ queued'[j] = 0
        BY <1>3, <1>7, <4>2
      <4> QED BY <1>3, <1>6, <2>3, <3>1, <3>3, <4>1, <4>3, <4>4
    <3>4. CASE conn[j][t].line # "up"
      <4>1. /\ c.answer = "none" /\ c.line # "up"
            /\ c.sent = conn[j][t].sent /\ c.read = conn[j][t].read
        BY <1>3, <3>2, <3>4
      <4> QED BY <1>6, <2>3, <4>1 DEF IInv, AnswerShape
    <3> QED BY <3>3, <3>4
  <2> QED BY <2>1, <2>2, <2>3
<1>12. QueuedShape'
  BY <1>1, <1>3, <1>4, <1>5, <1>6, <1>7 DEF IInv, TypeOK, QueuedShape
<1>13. VerdictShape'
  <2>1. \A k \in Jobs : k # j => queued'[k] = queued[k]
    BY <1>1, <1>7 DEF TypeOK
  <2>2. \A k \in Jobs : k # j => conn'[k] = conn[k]
    BY <1>1, <1>2 DEF TypeOK
  <2>3. record[j].code = "ok" => queued'[j] = 1
    BY <1>7 DEF IInv, VerdictShape
  <2>4. record[j].code = "lpd_rejected" => t # try[j] /\ queued'[j] = 0 /\ conn[j][try[j]].got = 5
    BY <1>1, <1>7 DEF IInv, VerdictShape
  <2>5. t # try[j] => conn'[j][try[j]] = conn[j][try[j]]
    <3>1. conn \in [Jobs -> [Tries -> Connections]] /\ try[j] \in Tries
      BY <1>1, <1>5 DEF TypeOK
    <3> QED BY <1>6, <3>1
  <2> QED BY <1>4, <2>1, <2>2, <2>3, <2>4, <2>5 DEF IInv, VerdictShape
<1> QED BY <1>8, <1>9, <1>10, <1>11, <1>12, <1>13 DEF IInv

LEMMA EndConnectionStep ==
  ASSUME IInv, NEW j \in Jobs, NEW t \in Tries, EndConnection(j, t) PROVE IInv'
<1>1. TypeOK /\ conn[j][t] \in Connections /\ conn[j][t].line # "unused"
  BY Fields DEF IInv, EndConnection
<1>2. PICK answer \in {conn[j][t].answer, "none"} :
        conn' = [conn EXCEPT ![j][t] = [conn[j][t] EXCEPT !.line = "down", !.answer = answer]]
  BY DEF EndConnection
<1> DEFINE c == [conn[j][t] EXCEPT !.line = "down", !.answer = answer]
<1>3. /\ c \in Connections
      /\ c.sent = conn[j][t].sent /\ c.got = conn[j][t].got /\ c.read = conn[j][t].read
      /\ c.answer \in {conn[j][t].answer, "none"} /\ c.line = "down"
  BY <1>1 DEF Connections
<1>4. UNCHANGED <<pc, try, stage, ackCount, record, queued>>
  BY DEF EndConnection
<1>5. t <= try[j]
  <2>1. try[j] \in 0..NPorts /\ NoConnection.line = "unused"
    BY <1>1 DEF TypeOK, NoConnection
  <2> QED BY <1>1, <2>1 DEF IInv, SentShape
<1> HIDE DEF c
<1>6. /\ conn' \in [Jobs -> [Tries -> Connections]]
      /\ conn'[j][t] = c
      /\ \A k \in Jobs, u \in Tries : k # j \/ u # t => conn'[k][u] = conn[k][u]
  <2>1. conn \in [Jobs -> [Tries -> Connections]] /\ conn' = [conn EXCEPT ![j][t] = c]
    BY <1>1, <1>2 DEF TypeOK, c
  <2> QED BY <1>3, <2>1, Replaced
<1>7. TypeOK'
  BY <1>1, <1>4, <1>6 DEF TypeOK
<1>8. HelperShape'
  BY <1>1, <1>3, <1>4, <1>6 DEF IInv, TypeOK, HelperShape
<1>9. SentShape'
  <2>1. \A k \in Jobs, u \in Tries :
          conn'[k][u].sent = conn[k][u].sent /\ (u > try[k] => conn'[k][u] = conn[k][u])
    <3>1. try[j] \in 0..NPorts
      BY <1>1 DEF TypeOK
    <3> QED BY <1>3, <1>5, <1>6, <3>1
  <2> QED BY <1>4, <2>1 DEF IInv, SentShape
<1>10. AnswerShape'
  BY <1>1, <1>3, <1>4, <1>6 DEF IInv, TypeOK, AnswerShape
<1>11. QueuedShape' /\ VerdictShape'
  <2>1. \A k \in Jobs : try[k] > 0 =>
          /\ conn'[k][try[k]].sent = conn[k][try[k]].sent
          /\ conn'[k][try[k]].got = conn[k][try[k]].got
    <3>1. \A k \in Jobs : try[k] > 0 => try[k] \in Tries
      BY <1>1 DEF TypeOK
    <3> QED BY <1>3, <1>6, <3>1
  <2>2. \A k \in Jobs : record[k].code = "lpd_rejected" => try[k] > 0
    BY DEF IInv, HelperShape, NoRecord
  <2> QED BY <1>4, <2>1, <2>2 DEF IInv, QueuedShape, VerdictShape
<1> QED BY <1>7, <1>8, <1>9, <1>10, <1>11 DEF IInv

LEMMA StutterStep == ASSUME IInv, UNCHANGED vars PROVE IInv'
<1>1. TypeOK' /\ HelperShape' /\ SentShape'
  BY DEF IInv, TypeOK, HelperShape, SentShape, vars
<1>2. AnswerShape' /\ QueuedShape' /\ VerdictShape'
  BY DEF IInv, AnswerShape, QueuedShape, VerdictShape, vars
<1> QED BY <1>1, <1>2 DEF IInv

LEMMA HelperStep == ASSUME IInv, NEW j \in Jobs, Helper(j) PROVE IInv'
<1>1. CASE OpenConnection(j)
  BY <1>1, OpenConnectionStep
<1>2. CASE OpenFails(j)
  BY <1>2, OpenFailsStep
<1>3. CASE WriteStage(j)
  BY <1>3, WriteStageStep
<1>4. CASE WriteFails(j)
  BY <1>4, AmbiguousStep DEF WriteFails
<1>5. CASE ReceiveAck(j)
  <2>1. stage[j] < 5 \/ stage[j] = 5
    BY <1>5 DEF ReceiveAck
  <2> QED BY <1>5, <2>1, NextStageStep, AcceptedStep
<1>6. CASE ReceiveNack(j)
  BY <1>6, ReceiveNackStep
<1>7. CASE AckFails(j)
  BY <1>7, AmbiguousStep DEF AckFails
<1> QED BY <1>1, <1>2, <1>3, <1>4, <1>5, <1>6, <1>7 DEF Helper

LEMMA EnvironmentStep == ASSUME IInv, Environment PROVE IInv'
<1>1. ASSUME NEW j \in Jobs, Killed(j) PROVE IInv'
  BY <1>1, AmbiguousStep DEF Killed
<1>2. ASSUME NEW j \in Jobs, NEW t \in Tries, AnswerStage(j, t) \/ EndConnection(j, t)
      PROVE  IInv'
  BY <1>2, AnswerStageStep, EndConnectionStep
<1> QED BY <1>1, <1>2 DEF Environment

LEMMA NextStep == ASSUME IInv, [Next]_vars PROVE IInv'
  BY HelperStep, EnvironmentStep, StutterStep DEF Next

--------------------------------------------------------------------------------
(* Theorems.                                                               *)

(* Every reachable state of the helpers, their connections and the printer *)
(* satisfies the inductive invariant.                                      *)
THEOREM Invariance == Spec => []IInv
<1>1. Spec => Init /\ [][Next]_vars
  BY PTL DEF Spec
<1>2. Init => IInv
  BY InitHolds
<1>3. IInv /\ [Next]_vars => IInv'
  BY NextStep
<1> QED BY <1>1, <1>2, <1>3, PTL

(* Every variable of the session helpers stays in its range.               *)
THEOREM Types == Spec => []TypeOK
<1>1. IInv => TypeOK
  BY DEF IInv
<1> QED BY <1>1, Invariance, PTL

(* The port loop of the helper repeats receive_job only: all files of a    *)
(* job went over the connection it turned to last.                         *)
LEMMA OneConnection == ASSUME IInv PROVE FilesOnOneConnection
<1> SUFFICES ASSUME NEW j \in Jobs
             PROVE  Cardinality({t \in Tries : conn[j][t].sent > 1}) <= 1
  BY DEF FilesOnOneConnection
<1> DEFINE S == {t \in Tries : conn[j][t].sent > 1}
<1>1. TypeOK /\ try[j] \in 0..NPorts
  BY DEF IInv, TypeOK
<1>2. S \subseteq {try[j]}
  <2> SUFFICES ASSUME NEW t \in Tries, conn[j][t].sent > 1 PROVE t = try[j]
    OBVIOUS
  <2>1. t > try[j] => conn[j][t].sent = 0
    BY DEF IInv, SentShape, NoConnection
  <2>2. t < try[j] => conn[j][t].sent <= 1
    BY DEF IInv, SentShape
  <2>3. conn[j][t].sent \in 0..5
    BY <1>1, Fields
  <2> QED BY <1>1, <2>1, <2>2, <2>3
<1>3. IsFiniteSet({try[j]}) /\ Cardinality({try[j]}) = 1
  BY FS_Singleton
<1>4. Cardinality(S) <= Cardinality({try[j]})
  BY <1>2, <1>3, FS_Subset
<1>5. Cardinality(S) <= 1
  BY <1>3, <1>4
<1> QED BY <1>5

(* The control and data files of a job travel over one connection only, in *)
(* every run of the helpers.                                               *)
THEOREM FilesNeverRepeated == Spec => []FilesOnOneConnection
  BY OneConnection, Invariance, PTL

(* No job is printed twice because its acknowledgement was lost or late.   *)
THEOREM NeverQueuedTwice == Spec => []QueuedAtMostOnce
<1>1. IInv => QueuedAtMostOnce
  <2> SUFFICES ASSUME IInv, NEW j \in Jobs PROVE queued[j] <= 1
    BY DEF QueuedAtMostOnce
  <2>1. queued[j] = 0 \/ queued[j] = 1
    BY DEF IInv, QueuedShape
  <2> QED BY <2>1
<1> QED BY <1>1, Invariance, PTL

(* A record names the stage the helper was at and what it had read there.  *)
LEMMA VerdictHolds == ASSUME IInv PROVE VerdictIsTrue
<1> SUFFICES ASSUME NEW j \in Jobs, pc[j] = "done", record[j] # NoRecord
             PROVE  /\ Acceptance(record[j]) = "accepted" => queued[j] = 1
                    /\ Acceptance(record[j]) = "rejected" => queued[j] = 0 /\ ~StillComing(j)
                    /\ record[j].stage = 1 => queued[j] = 0 /\ ~StillComing(j)
  BY DEF VerdictIsTrue
<1>1. /\ TypeOK /\ try[j] \in 1..NPorts /\ stage[j] \in 1..5
      /\ record[j].stage = stage[j]
  BY DEF IInv, TypeOK, HelperShape
<1>2. Acceptance(record[j]) = "accepted" => record[j].code = "ok"
  BY DEF Acceptance
<1>3. Acceptance(record[j]) = "rejected" => record[j].code = "lpd_rejected"
  BY DEF Acceptance
<1>4. \A t \in Tries : conn[j][t].sent = 5 => t = try[j]
  <2> SUFFICES ASSUME NEW t \in Tries, conn[j][t].sent = 5 PROVE t = try[j]
    OBVIOUS
  <2>1. ~(t > try[j]) /\ ~(t < try[j])
    BY DEF IInv, SentShape, NoConnection
  <2> QED BY <1>1, <2>1
<1>5. record[j].code = "lpd_rejected" => queued[j] = 0 /\ ~StillComing(j)
  BY <1>4 DEF IInv, VerdictShape, StillComing
<1>6. stage[j] = 1 => queued[j] = 0 /\ ~StillComing(j)
  <2>1. conn[j][try[j]].sent <= stage[j]
    BY <1>1 DEF IInv, SentShape
  <2> QED BY <1>4, <2>1 DEF IInv, QueuedShape, StillComing
<1> QED BY <1>1, <1>2, <1>3, <1>5, <1>6 DEF IInv, VerdictShape

(* What transport/lpd/process.lua tells about a record holds of the        *)
(* printer, whatever is still on its way.                                  *)
THEOREM VerdictsAreTrue == Spec => []VerdictIsTrue
  BY VerdictHolds, Invariance, PTL

(* A record counts exactly the acknowledgement bytes of the connection the *)
(* helper ended on.                                                        *)
THEOREM CountsAreTrue == Spec => []AckCountIsTrue
<1>1. IInv => AckCountIsTrue
  BY DEF IInv, HelperShape, AckCountIsTrue
<1> QED BY <1>1, Invariance, PTL

--------------------------------------------------------------------------------
(* The reserved source ports: a helper takes them in turn, from a place of *)
(* its own, until one lets it begin or none is left.                       *)

LEMMA RotateKeepsTurn ==
  ASSUME IInv, TriedShape, NEW j \in Jobs, pc[j] \in {"write", "ack"}, Ambiguous(j)
  PROVE  \A k \in Jobs : record'[k].code = "lpd_unknown" /\ record'[k].stage = 1
                           => try[k] = NPorts
<1>1. TypeOK
  BY DEF IInv
<1>2. CASE stage[j] = 1
  <2>1. try[j] < NPorts \/ try[j] = NPorts
    BY <1>1 DEF TypeOK
  <2>2. record' = record \/ (try[j] = NPorts /\ record' = [record EXCEPT ![j] = record'[j]])
    BY <1>1, <1>2, <2>1 DEF Ambiguous, Rotate, Stop, TypeOK
  <2> QED BY <1>1, <2>2 DEF TriedShape, TypeOK
<1>3. CASE stage[j] > 1
  <2>1. record' = [record EXCEPT ![j] = [code |-> "lpd_unknown", stage |-> stage[j],
                                         acks |-> ackCount[j]]]
    BY <1>3 DEF Ambiguous, Stop
  <2> QED BY <1>1, <1>3, <2>1 DEF TriedShape, TypeOK
<1>4. stage[j] \in 1..5
  BY <1>1 DEF TypeOK
<1>5. stage[j] = 1 \/ stage[j] > 1
  BY <1>4
<1> QED BY <1>2, <1>3, <1>5

(* What the helpers, the printer and the network do to a connection in use *)
(* leaves it used.                                                         *)
LEMMA StaysUsed ==
  ASSUME TypeOK, NEW j \in Jobs, NEW t \in Tries, NEW c \in Connections,
         conn[j][t].line # "unused" => c.line # "unused",
         conn' = [conn EXCEPT ![j][t] = c]
  PROVE  \A k \in Jobs, u \in Tries : conn[k][u].line # "unused" => conn'[k][u].line # "unused"
<1>1. conn \in [Jobs -> [Tries -> Connections]]
  BY DEF TypeOK
<1>2. /\ conn'[j][t] = c
      /\ \A k \in Jobs, u \in Tries : k # j \/ u # t => conn'[k][u] = conn[k][u]
  BY <1>1, Replaced
<1> QED BY <1>2

LEMMA ClosingStaysUsed ==
  ASSUME IInv, NEW j \in Jobs, pc[j] \in {"write", "ack"},
         conn[j][try[j]].read < 5 \/ CloseConnection(j),
         \/ CloseConnection(j)
         \/ conn' = [conn EXCEPT ![j][try[j]] = Taken(@)]
         \/ conn' = [conn EXCEPT ![j][try[j]] = Closed(Taken(@))]
  PROVE  \A k \in Jobs, u \in Tries : conn[k][u].line # "unused" => conn'[k][u].line # "unused"
<1> DEFINE c == conn[j][try[j]]
<1>1. TypeOK /\ try[j] \in Tries /\ c \in Connections
  BY Present
<1>2. Closed(c) \in Connections /\ (c.line # "unused" => Closed(c).line # "unused")
  BY <1>1, ClosedFields DEF Closed, Connections
<1>3. CASE CloseConnection(j)
  <2>1. conn' = [conn EXCEPT ![j][try[j]] = Closed(c)]
    BY <1>3 DEF CloseConnection
  <2> HIDE DEF c
  <2> QED BY <1>1, <1>2, <2>1, StaysUsed DEF c
<1>4. CASE c.read < 5 /\ ~CloseConnection(j)
  <2>1. Taken(c) \in Connections /\ Taken(c).line = c.line
    BY <1>1, <1>4, TakenFields
  <2>2. /\ Closed(Taken(c)) \in Connections
        /\ c.line # "unused" => Closed(Taken(c)).line # "unused"
    BY <2>1, ClosedFields DEF Closed, Connections
  <2>3. PICK d \in {Taken(c), Closed(Taken(c))} : conn' = [conn EXCEPT ![j][try[j]] = d]
    BY <1>4
  <2>4. d \in Connections /\ (c.line # "unused" => d.line # "unused")
    BY <2>1, <2>2
  <2> HIDE DEF c
  <2> QED BY <1>1, <2>3, <2>4, StaysUsed DEF c
<1> QED BY <1>3, <1>4

(* A step that turns to no port keeps the shape of the turn, when it       *)
(* leaves used connections used and prints no record too early.            *)
LEMMA SameTurn ==
  ASSUME TriedShape, try' = try,
         \A k \in Jobs, u \in Tries : conn[k][u].line # "unused" => conn'[k][u].line # "unused",
         \A k \in Jobs : record'[k].code = "lpd_unknown" /\ record'[k].stage = 1
                         => try[k] = NPorts
  PROVE  TriedShape'
  BY DEF TriedShape

LEMMA NewTurnKeepsShape ==
  ASSUME IInv, TriedShape, NEW j \in Jobs, OpenConnection(j) \/ OpenFails(j)
  PROVE  TriedShape'
<1> DEFINE t == try[j] + 1
<1>1. TypeOK /\ t \in Tries /\ conn[j][t] = NoConnection
  BY DEF IInv, TypeOK, HelperShape, SentShape, OpenConnection, OpenFails
<1>2. PICK line \in {"up", "down"} : conn' = [conn EXCEPT ![j][t] = [@ EXCEPT !.line = line]]
  BY DEF OpenConnection, OpenFails
<1>3. [NoConnection EXCEPT !.line = line] \in Connections
  BY DEF NoConnection, Connections
<1>4. /\ conn'[j][t].line = line
      /\ \A k \in Jobs, u \in Tries : k # j \/ u # t => conn'[k][u] = conn[k][u]
  <2>1. conn \in [Jobs -> [Tries -> Connections]]
    BY <1>1 DEF TypeOK
  <2>2. conn' = [conn EXCEPT ![j][t] = [NoConnection EXCEPT !.line = line]]
    BY <1>1, <1>2, <2>1
  <2>3. [NoConnection EXCEPT !.line = line].line = line
    BY DEF NoConnection
  <2> HIDE DEF t
  <2> QED BY <1>1, <1>3, <2>1, <2>2, <2>3, Replaced
<1>5. try' = [try EXCEPT ![j] = t]
  BY DEF OpenConnection, OpenFails
<1>6. \A k \in Jobs, u \in Tries : u <= try'[k] => conn'[k][u].line # "unused"
  <2> SUFFICES ASSUME NEW k \in Jobs, NEW u \in Tries, u <= try'[k]
               PROVE  conn'[k][u].line # "unused"
    OBVIOUS
  <2>1. CASE k = j /\ u = t
    BY <1>4, <2>1
  <2>2. CASE k # j \/ u # t
    <3>1. u <= try[k]
      BY <1>1, <1>5, <2>2 DEF TypeOK
    <3> QED BY <1>4, <2>2, <3>1 DEF TriedShape
  <2> QED BY <2>1, <2>2
<1>7. record[j].code = "none"
  BY DEF IInv, HelperShape, OpenConnection, OpenFails, NoRecord
<1>8. record' = record \/ (t = NPorts /\ record' = [record EXCEPT ![j] = record'[j]])
  BY <1>1 DEF OpenConnection, OpenFails, Stop, TypeOK
<1>9. \A k \in Jobs : record'[k].code = "lpd_unknown" /\ record'[k].stage = 1
                      => try'[k] = NPorts
  <2> SUFFICES ASSUME NEW k \in Jobs, record'[k].code = "lpd_unknown", record'[k].stage = 1
               PROVE  try'[k] = NPorts
    OBVIOUS
  <2>1. CASE k = j
    BY <1>1, <1>5, <1>7, <1>8, <2>1 DEF TypeOK
  <2>2. CASE k # j
    BY <1>1, <1>5, <1>8, <2>2 DEF TypeOK, TriedShape
  <2> QED BY <2>1, <2>2
<1> QED BY <1>6, <1>9 DEF TriedShape

LEMMA HelperKeepsTurn ==
  ASSUME IInv, TriedShape, NEW j \in Jobs, Helper(j) PROVE TriedShape'
<1> DEFINE Used == \A k \in Jobs, u \in Tries :
                     conn[k][u].line # "unused" => conn'[k][u].line # "unused"
           Turned == \A k \in Jobs : record'[k].code = "lpd_unknown" /\ record'[k].stage = 1
                                     => try[k] = NPorts
<1>1. TypeOK
  BY DEF IInv
<1>2. CASE OpenConnection(j) \/ OpenFails(j)
  BY <1>2, NewTurnKeepsShape
<1>3. CASE WriteStage(j)
  <2>1. TypeOK /\ try[j] \in Tries /\ conn[j][try[j]] \in Connections /\ stage[j] \in 1..5
    BY <1>3, Present DEF WriteStage, TypeOK
  <2>2. /\ Written(conn[j][try[j]], stage[j]) \in Connections
        /\ Written(conn[j][try[j]], stage[j]).line = conn[j][try[j]].line
    BY <2>1, WrittenFields
  <2>3. conn' = [conn EXCEPT ![j][try[j]] = Written(conn[j][try[j]], stage[j])]
    BY <1>3 DEF WriteStage
  <2>4. Used
    BY <2>1, <2>2, <2>3, StaysUsed
  <2> QED BY <1>3, <2>4, SameTurn DEF WriteStage, TriedShape
<1>4. CASE WriteFails(j) \/ AckFails(j)
  <2>1. pc[j] \in {"write", "ack"} /\ CloseConnection(j) /\ Ambiguous(j) /\ try' = try
    BY <1>4 DEF WriteFails, AckFails
  <2>2. Used
    BY <2>1, ClosingStaysUsed
  <2>3. Turned
    BY <2>1, RotateKeepsTurn
  <2> QED BY <2>1, <2>2, <2>3, SameTurn
<1>5. CASE ReceiveAck(j) \/ ReceiveNack(j)
  <2>1. /\ pc[j] = "ack" /\ try' = try
        /\ \/ conn' = [conn EXCEPT ![j][try[j]] = Taken(@)]
           \/ conn' = [conn EXCEPT ![j][try[j]] = Closed(Taken(@))]
    BY <1>5 DEF ReceiveAck, ReceiveNack, NegativeAck
  <2>2. stage[j] \in 1..5 /\ ackCount[j] \in 0..5
    BY <1>1 DEF TypeOK
  <2>3. conn[j][try[j]].read = stage[j] - 1
    BY <2>1 DEF IInv, HelperShape
  <2>4. conn[j][try[j]].read < 5
    BY <2>2, <2>3
  <2>5. Used
    BY <2>1, <2>4, ClosingStaysUsed
  <2>6. record' = record \/ \E code \in {"ok", "lpd_rejected"}, acks \in 0..6 :
          record' = [record EXCEPT ![j] = [code |-> code, stage |-> stage[j], acks |-> acks]]
    <3>1. ackCount[j] + 1 \in 0..6
      BY <2>2
    <3> QED BY <1>5, <3>1 DEF ReceiveAck, ReceiveNack, NegativeAck, Stop
  <2>7. Turned
    <3>1. CASE record' = record
      BY <3>1 DEF TriedShape
    <3>2. ASSUME NEW code \in {"ok", "lpd_rejected"}, NEW acks \in 0..6,
                 record' = [record EXCEPT ![j] = [code |-> code, stage |-> stage[j],
                                                  acks |-> acks]]
          PROVE  Turned
      <4>1. record'[j].code # "lpd_unknown" /\ \A k \in Jobs \ {j} : record'[k] = record[k]
        BY <1>1, <3>2 DEF TypeOK
      <4> QED BY <4>1 DEF TriedShape
    <3> QED BY <2>6, <3>1, <3>2
  <2> QED BY <2>1, <2>5, <2>7, SameTurn
<1> QED BY <1>2, <1>3, <1>4, <1>5 DEF Helper

LEMMA EnvironmentKeepsTurn ==
  ASSUME IInv, TriedShape, Environment PROVE TriedShape'
<1>1. ASSUME NEW j \in Jobs, Killed(j) PROVE TriedShape'
  <2>1. \A k \in Jobs, u \in Tries : conn[k][u].line # "unused" => conn'[k][u].line # "unused"
    BY <1>1, ClosingStaysUsed DEF Killed
  <2> QED BY <1>1, <2>1, SameTurn DEF Killed, TriedShape
<1>2. ASSUME NEW j \in Jobs, NEW t \in Tries, AnswerStage(j, t) \/ EndConnection(j, t)
      PROVE  TriedShape'
  <2>1. TypeOK /\ conn[j][t] \in Connections
    BY Fields DEF IInv
  <2>2. PICK c \in Connections :
          /\ conn' = [conn EXCEPT ![j][t] = c]
          /\ conn[j][t].line # "unused" => c.line # "unused"
    <3>1. CASE AnswerStage(j, t)
      <4>1. PICK answer \in {"zero", "nack"} :
              conn' = [conn EXCEPT ![j][t] = Answered(conn[j][t], answer)]
        BY <3>1 DEF AnswerStage
      <4>2. conn[j][t].got < 5
        BY <2>1, <3>1 DEF AnswerStage, Connections
      <4> QED BY <2>1, <4>1, <4>2, AnsweredFields
    <3>2. CASE EndConnection(j, t)
      <4>1. PICK answer \in {conn[j][t].answer, "none"} :
              conn' = [conn EXCEPT ![j][t] = [@ EXCEPT !.line = "down", !.answer = answer]]
        BY <3>2 DEF EndConnection
      <4>2. /\ [conn[j][t] EXCEPT !.line = "down", !.answer = answer] \in Connections
            /\ [conn[j][t] EXCEPT !.line = "down", !.answer = answer].line = "down"
        BY <2>1 DEF Connections
      <4>3. conn' = [conn EXCEPT ![j][t] = [conn[j][t] EXCEPT !.line = "down", !.answer = answer]]
        BY <2>1, <4>1 DEF TypeOK
      <4> QED BY <4>2, <4>3
    <3> QED BY <1>2, <3>1, <3>2
  <2>3. \A k \in Jobs, u \in Tries : conn[k][u].line # "unused" => conn'[k][u].line # "unused"
    BY <2>1, <2>2, StaysUsed
  <2> QED BY <1>2, <2>3, SameTurn DEF AnswerStage, EndConnection, TriedShape
<1> QED BY <1>1, <1>2 DEF Environment

(* A turn through all ports, from whatever place it starts, misses none.   *)
LEMMA FullTurn ==
  ASSUME NEW j \in Jobs
  PROVE  {Port(j, t) : t \in Tries} = 0..(NPorts - 1)
<1>1. /\ NPorts \in Nat \ {0} /\ Offset[j] \in 0..(NPorts - 1)
  OBVIOUS
<1>2. \A x \in 0..(NPorts - 1) : x % NPorts = x
  BY <1>1
<1>3. \A x \in NPorts..(2 * NPorts - 1) : x % NPorts = x - NPorts
  BY <1>1
<1>4. ASSUME NEW t \in Tries PROVE Port(j, t) \in 0..(NPorts - 1)
  <2>1. Offset[j] + t - 1 \in 0..(NPorts - 1) \/ Offset[j] + t - 1 \in NPorts..(2 * NPorts - 1)
    BY <1>1
  <2> QED BY <1>1, <1>2, <1>3, <2>1 DEF Port
<1>5. ASSUME NEW p \in 0..(NPorts - 1) PROVE \E t \in Tries : Port(j, t) = p
  <2>1. CASE p >= Offset[j]
    <3>1. p - Offset[j] + 1 \in Tries /\ Offset[j] + (p - Offset[j] + 1) - 1 = p
      BY <1>1, <2>1
    <3>2. Port(j, p - Offset[j] + 1) = p
      BY <1>2, <3>1 DEF Port
    <3> QED BY <3>1, <3>2
  <2>2. CASE p < Offset[j]
    <3>1. /\ p - Offset[j] + 1 + NPorts \in Tries
          /\ Offset[j] + (p - Offset[j] + 1 + NPorts) - 1 = p + NPorts
          /\ p + NPorts \in NPorts..(2 * NPorts - 1) /\ (p + NPorts) - NPorts = p
      BY <1>1, <2>2
    <3>2. Port(j, p - Offset[j] + 1 + NPorts) = p
      BY <1>3, <3>1 DEF Port
    <3> QED BY <3>1, <3>2
  <2> QED BY <1>1, <2>1, <2>2
<1> QED BY <1>4, <1>5

(* A helper that gives up at receive_job, as unable to begin, has turned   *)
(* to every reserved source port, however many helpers use them beside it. *)
THEOREM EveryPortTriedAlways == Spec => []EveryPortTried
<1>1. Init => TriedShape
  BY DEF Init, TriedShape, NoRecord
<1>2. IInv /\ TriedShape /\ [Next]_vars => TriedShape'
  <2> SUFFICES ASSUME IInv, TriedShape, [Next]_vars PROVE TriedShape'
    OBVIOUS
  <2>1. CASE UNCHANGED vars
    BY <2>1 DEF TriedShape, vars
  <2> QED BY <2>1, HelperKeepsTurn, EnvironmentKeepsTurn DEF Next
<1>3. IInv /\ TriedShape => EveryPortTried
  <2> SUFFICES ASSUME IInv, TriedShape, NEW j \in Jobs,
                      record[j].code = "lpd_unknown", record[j].stage = 1
               PROVE  {Port(j, t) : t \in {u \in Tries : conn[j][u].line # "unused"}}
                        = 0..(NPorts - 1)
    BY DEF EveryPortTried
  <2>1. {u \in Tries : conn[j][u].line # "unused"} = Tries
    BY DEF TriedShape
  <2> QED BY <2>1, FullTurn
<1>4. Spec => Init /\ [][Next]_vars
  BY PTL DEF Spec
<1> QED BY <1>1, <1>2, <1>3, <1>4, Invariance, PTL
================================================================================
