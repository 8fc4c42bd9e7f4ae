------------------------------- MODULE LpdSession -------------------------------
(***************************************************************************)
(* Whole-job printing over LPD: several runs of the session helper         *)
(* libexec/tm-u220-lpd-session against one printer, and the verdict that   *)
(* transport/lpd/process.lua draws from each helper's record.              *)
(*                                                                         *)
(* A helper opens a connection from a reserved source port and sends five  *)
(* stages, each after the acknowledgement of the one before.  The printer  *)
(* queues the job when it acknowledges the last.  A closed or broken       *)
(* connection may still deliver what was written into it.                  *)
(***************************************************************************)
EXTENDS Integers, FiniteSets

CONSTANTS
  Jobs,      \* the helper processes, one job each
  NPorts,    \* number of reserved source ports
  Offset     \* Offset[j]: process id of helper j modulo NPorts

ASSUME NPortsAssumption == NPorts \in Nat \ {0}
ASSUME OffsetAssumption == Offset \in [Jobs -> 0..(NPorts - 1)]

(* 1 is receive_job, 2 and 3 the control file, 4 and 5 the data file.      *)
Stages == 1..5
Tries  == 1..NPorts

VARIABLES
  pc,           \* "open", "write", "ack" or "done", per helper
  try,          \* how many source ports the helper has turned to
  stage,        \* the stage it is at
  ackCount,     \* $ack_count
  record,       \* the line it prints
  conn,         \* conn[j][t]: the t-th connection of helper j
  queued        \* queued[j]: how often the printer has queued job j

vars == <<pc, try, stage, ackCount, record, conn, queued>>

(* A connection is "up" until one end or the network gives it up.  After   *)
(* the helper closed it, it is "closed": what was sent may still arrive,   *)
(* and the system does not give its port out yet.  "down" is over for good.*)
(* "sent" and "got" count the stages written and the stages the printer    *)
(* has taken up, "answer" is an acknowledgement on its way to the helper,  *)
(* "read" counts the acknowledgements the helper has taken.                *)
Connections ==
  [line : {"unused", "up", "closed", "down"}, sent : 0..5, got : 0..5, read : 0..5,
   answer : {"none", "zero", "nack"}]

NoConnection == [line |-> "unused", sent |-> 0, got |-> 0, read |-> 0,
                 answer |-> "none"]

NoRecord == [code |-> "none", stage |-> 1, acks |-> 0]

(* Ports are taken in turn from the helper's own place in the list.        *)
Port(j, t) == (Offset[j] + t - 1) % NPorts

InUse(p) ==
  \E j \in Jobs, t \in Tries : conn[j][t].line \in {"up", "closed"} /\ Port(j, t) = p

Current(j) == conn[j][try[j]]

Init ==
  /\ pc = [j \in Jobs |-> "open"]
  /\ try = [j \in Jobs |-> 0]
  /\ stage = [j \in Jobs |-> 1]
  /\ ackCount = [j \in Jobs |-> 0]
  /\ record = [j \in Jobs |-> NoRecord]
  /\ conn = [j \in Jobs |-> [t \in Tries |-> NoConnection]]
  /\ queued = [j \in Jobs |-> 0]

--------------------------------------------------------------------------------
(* The helper.                                                             *)

Stop(j, code, acks) ==
  /\ pc' = [pc EXCEPT ![j] = "done"]
  /\ record' = [record EXCEPT ![j] = [code |-> code, stage |-> stage[j], acks |-> acks]]

(* begin_job failed without an answer: the next port, or the end.          *)

Rotate(j, last) ==
  /\ \/ /\ try[j] < last
        /\ pc' = [pc EXCEPT ![j] = "open"]
        /\ UNCHANGED record
     \/ try[j] >= last /\ Stop(j, "lpd_unknown", 0)

(* A write or an acknowledgement failed: only receive_job moves on to      *)
(* another port, a later stage is never repeated.                          *)
Ambiguous_Retry(j) == Rotate(j, NPorts)                             \* fault
Ambiguous_ShortLoop(j) ==                                           \* fault
  IF stage[j] = 1 THEN Rotate(j, NPorts - 1) ELSE Stop(j, "lpd_unknown", ackCount[j])

Ambiguous(j) ==
  \/ stage[j] = 1 /\ Rotate(j, NPorts)
  \/ stage[j] > 1 /\ Stop(j, "lpd_unknown", ackCount[j])

(* open3 started netcat, which may fail to bind, to be authorized or to    *)
(* connect; the helper cannot tell yet.                                    *)
OpenConnection(j) ==
  /\ pc[j] = "open"
  /\ try' = [try EXCEPT ![j] = @ + 1]
  /\ pc' = [pc EXCEPT ![j] = "write"]
  /\ \E line \in {"up", "down"} :
       /\ InUse(Port(j, try[j] + 1)) => line = "down"
       /\ conn' = [conn EXCEPT ![j][try[j] + 1] = [@ EXCEPT !.line = line]]
  /\ UNCHANGED <<stage, ackCount, record, queued>>

(* open3 itself fails: session_start_failed.                               *)
OpenFails(j) ==
  /\ pc[j] = "open"
  /\ try' = [try EXCEPT ![j] = @ + 1]
  /\ conn' = [conn EXCEPT ![j][try[j] + 1] = [@ EXCEPT !.line = "down"]]
  /\ \/ try[j] + 1 < NPorts /\ UNCHANGED <<pc, record>>
     \/ try[j] + 1 = NPorts /\ Stop(j, "lpd_unknown", 0)
  /\ UNCHANGED <<stage, ackCount, queued>>

Written(c, s) == IF c.line = "up" THEN [c EXCEPT !.sent = s] ELSE c

(* try_write_all: netcat takes the bytes; a dead one may take them too.    *)
WriteStage(j) ==
  /\ pc[j] = "write"
  /\ pc' = [pc EXCEPT ![j] = "ack"]
  /\ conn' = [conn EXCEPT ![j][try[j]] = Written(@, stage[j])]
  /\ UNCHANGED <<try, stage, ackCount, record, queued>>

Closed(c) == [c EXCEPT !.line = IF @ = "up" THEN "closed" ELSE @, !.answer = "none"]

CloseConnection(j) == conn' = [conn EXCEPT ![j][try[j]] = Closed(@)]

WriteFails(j) ==
  /\ pc[j] = "write"
  /\ Current(j).line = "down"
  /\ CloseConnection(j)
  /\ Ambiguous(j)
  /\ UNCHANGED <<try, stage, ackCount, queued>>

Taken(c) == [c EXCEPT !.answer = "none", !.read = @ + 1]

ReceiveAck(j) ==
  /\ pc[j] = "ack"
  /\ Current(j).answer = "zero"
  /\ ackCount' = [ackCount EXCEPT ![j] = @ + 1]
  /\ \/ /\ stage[j] < 5
        /\ stage' = [stage EXCEPT ![j] = @ + 1]
        /\ pc' = [pc EXCEPT ![j] = "write"]
        /\ conn' = [conn EXCEPT ![j][try[j]] = Taken(@)]
        /\ UNCHANGED record
     \/ /\ stage[j] = 5
        /\ Stop(j, "ok", ackCount[j] + 1)
        /\ conn' = [conn EXCEPT ![j][try[j]] = Closed(Taken(@))]
        /\ UNCHANGED stage
  /\ UNCHANGED <<try, queued>>

(* A negative acknowledgement ends the session, at receive_job too.        *)
NegativeAck(j, acks) ==
  /\ pc[j] = "ack"
  /\ Current(j).answer = "nack"
  /\ conn' = [conn EXCEPT ![j][try[j]] = Closed(Taken(@))]
  /\ Stop(j, "lpd_rejected", acks)
  /\ UNCHANGED <<try, stage, ackCount, queued>>

ReceiveNack(j) == NegativeAck(j, ackCount[j] + 1)

(* ack_timeout, ack_eof or ack_read_failed.                                *)
AckFails_NoTimeout(j) ==                                            \* fault
  /\ pc[j] = "ack" /\ Current(j).answer = "none" /\ Current(j).line = "down"
  /\ CloseConnection(j)
  /\ Ambiguous(j)
  /\ UNCHANGED <<try, stage, ackCount, queued>>

AckFails(j) ==
  /\ pc[j] = "ack"
  /\ Current(j).answer = "none"
  /\ CloseConnection(j)
  /\ Ambiguous(j)
  /\ UNCHANGED <<try, stage, ackCount, queued>>

(* The user or the system kills the helper: no record is printed.  Between *)
(* two connections a death changes nothing the printer could see.          *)
Killed(j) ==
  /\ pc[j] \in {"write", "ack"}
  /\ pc' = [pc EXCEPT ![j] = "done"]
  /\ CloseConnection(j)
  /\ UNCHANGED <<try, stage, ackCount, record, queued>>

--------------------------------------------------------------------------------
(* The printer and the network.                                            *)

Answered(c, answer) ==
  [c EXCEPT !.got = IF answer = "zero" THEN @ + 1 ELSE 5,
            !.answer = IF c.line = "up" THEN answer ELSE @]

(* The printer takes up the next stage and answers it.  It queues the job  *)
(* with the zero for the data file, and ends a session it has refused.     *)
AnswerStage(j, t) ==
  /\ conn[j][t].line \in {"up", "closed"}
  /\ conn[j][t].got < conn[j][t].sent
  /\ \E answer \in {"zero", "nack"} :
       /\ conn' = [conn EXCEPT ![j][t] = Answered(@, answer)]
       /\ queued' = IF answer = "zero" /\ conn[j][t].got = 4
                    THEN [queued EXCEPT ![j] = @ + 1] ELSE queued
  /\ UNCHANGED <<pc, try, stage, ackCount, record>>

(* The connection breaks, or a closed one comes to its end and frees its   *)
(* port; what is on its way may be lost with it.                           *)
EndConnection(j, t) ==
  /\ conn[j][t].line \in {"up", "closed"}
  /\ \E answer \in {conn[j][t].answer, "none"} :
       conn' = [conn EXCEPT ![j][t] = [@ EXCEPT !.line = "down", !.answer = answer]]
  /\ UNCHANGED <<pc, try, stage, ackCount, record, queued>>

--------------------------------------------------------------------------------
(* Netcat can hold all stages but the payload in its buffers; the payload  *)
(* is written only as fast as the printer reads, and without a deadline.   *)
Stalled(j) == pc[j] = "write" /\ stage[j] = 5 /\ Current(j).line = "up"

Helper(j) ==
  \/ OpenConnection(j) \/ OpenFails(j) \/ WriteStage(j) \/ WriteFails(j)
  \/ ReceiveAck(j) \/ ReceiveNack(j) \/ AckFails(j)

Environment ==
  \/ \E j \in Jobs : Killed(j)
  \/ \E j \in Jobs, t \in Tries : AnswerStage(j, t) \/ EndConnection(j, t)

Next == (\E j \in Jobs : Helper(j)) \/ Environment

(* Every step of a helper ends by itself, except a stalled write.          *)
Spec ==
  /\ Init /\ [][Next]_vars
  /\ \A j \in Jobs : WF_vars(Helper(j) /\ ~Stalled(j))

--------------------------------------------------------------------------------
TypeOK ==
  /\ pc \in [Jobs -> {"open", "write", "ack", "done"}]
  /\ try \in [Jobs -> 0..NPorts]
  /\ stage \in [Jobs -> Stages]
  /\ ackCount \in [Jobs -> 0..5]
  /\ record \in [Jobs -> [code : {"none", "ok", "lpd_unknown", "lpd_rejected"},
                          stage : Stages, acks : 0..5]]
  /\ conn \in [Jobs -> [Tries -> Connections]]
  /\ queued \in [Jobs -> Nat]

--------------------------------------------------------------------------------
(* Correctness.                                                            *)

(* process.lua: what submit tells the caller about a helper's record.      *)
Acceptance_AnyCount(r) == IF r.code = "lpd_rejected" THEN "rejected"   \* fault
                          ELSE IF r.acks >= 4 THEN "accepted" ELSE "unknown"

Acceptance(r) ==
  CASE r.code = "ok" /\ r.acks = 5 -> "accepted"
    [] r.code = "lpd_rejected"     -> "rejected"
    [] OTHER                       -> "unknown"

(* Something of job j can still make the printer queue it.                 *)
StillComing(j) ==
  \E t \in Tries : conn[j][t].line \in {"up", "closed"} /\ conn[j][t].sent = 5 /\ conn[j][t].got < 5

(* The control and data files of a job travel over one connection only:    *)
(* the helper never repeats a job that the printer may have accepted.      *)
FilesOnOneConnection ==
  \A j \in Jobs : Cardinality({t \in Tries : conn[j][t].sent > 1}) <= 1

(* The printer queues no job twice, whatever is lost or late.              *)
QueuedAtMostOnce == \A j \in Jobs : queued[j] <= 1

(* What the caller is told holds of the printer, also of what is still on  *)
(* the way: "accepted" is queued, "rejected" is not and will not be, and a *)
(* failure at receive_job has sent none of the job.                        *)
VerdictIsTrue ==
  \A j \in Jobs : pc[j] = "done" /\ record[j] # NoRecord =>
    /\ Acceptance(record[j]) = "accepted" => queued[j] = 1
    /\ Acceptance(record[j]) = "rejected" => queued[j] = 0 /\ ~StillComing(j)
    /\ record[j].stage = 1 => queued[j] = 0 /\ ~StillComing(j)

(* The record counts every acknowledgement byte the helper took from the   *)
(* connection it ended on, the refusing one too: process.lua accepts only  *)
(* a count of five, and tells the user how far the job came.               *)
AckCountIsTrue ==
  \A j \in Jobs : record[j] # NoRecord => record[j].acks = Current(j).read

(* The helper gives up at receive_job only after every port was tried.     *)
EveryPortTried ==
  \A j \in Jobs : record[j].code = "lpd_unknown" /\ record[j].stage = 1 =>
    {Port(j, t) : t \in {u \in Tries : conn[j][u].line # "unused"}} = 0..(NPorts - 1)

(* Every helper ends, or hangs in the write of its payload because the     *)
(* printer does not read it.                                               *)
EndsUnlessStalled ==
  \A j \in Jobs : <>(pc[j] = "done") \/ <>[]Stalled(j)

(* The helper always ends.                                                 *)
AlwaysEnds == \A j \in Jobs : <>(pc[j] = "done")

--------------------------------------------------------------------------------
(* The inductive invariant.                                                *)

(* The helper is at a stage because the stages before were acknowledged on *)
(* its present connection.                                                 *)
HelperShape ==
  \A j \in Jobs :
    /\ pc[j] = "open" => try[j] < NPorts /\ stage[j] = 1 /\ ackCount[j] = 0
    /\ pc[j] # "open" => try[j] > 0
    /\ pc[j] \in {"write", "ack"} =>
         ackCount[j] = stage[j] - 1 /\ Current(j).read = stage[j] - 1
    /\ pc[j] # "done" => record[j] = NoRecord
    /\ record[j] # NoRecord =>
         record[j].stage = stage[j] /\ record[j].acks = Current(j).read

(* Connections given up carry at most receive_job; the present one carries *)
(* no stage before its turn.                                               *)
SentShape ==
  \A j \in Jobs, t \in Tries :
    /\ t > try[j] => conn[j][t] = NoConnection
    /\ t < try[j] => conn[j][t].sent <= 1
    /\ t = try[j] => conn[j][t].sent <= stage[j]

(* The printer answers one stage at a time, and the helper takes the       *)
(* answers in turn.                                                        *)
AnswerShape ==
  \A j \in Jobs, t \in Tries :
    LET c == conn[j][t] IN
    /\ c.answer # "none" => t = try[j] /\ pc[j] = "ack"
    /\ c.line = "up" => t = try[j] /\ pc[j] \in {"write", "ack"}
    /\ t = try[j] /\ pc[j] = "write" => c.sent <= c.read
    /\ t = try[j] /\ pc[j] \in {"write", "ack"} =>
         /\ c.sent <= c.read + 1
         /\ c.line = "up" /\ c.answer = "none" => c.got = c.read
    /\ c.answer = "zero" => c.got = c.read + 1 /\ (c.got = 5 => queued[j] = 1)
    /\ c.answer = "nack" => c.got = 5 /\ queued[j] = 0

(* A queued job came over the present connection, which is then used up.   *)
QueuedShape ==
  \A j \in Jobs : queued[j] # 0 =>
    queued[j] = 1 /\ try[j] > 0 /\ Current(j).sent = 5 /\ Current(j).got = 5

VerdictShape ==
  \A j \in Jobs :
    /\ record[j].code = "ok" => queued[j] = 1
    /\ record[j].code = "lpd_rejected" => queued[j] = 0 /\ Current(j).got = 5

(* Every connection turned to was started, and only the last port ends the *)
(* turn at receive_job.                                                    *)
TriedShape ==
  \A j \in Jobs :
    /\ \A t \in Tries : t <= try[j] => conn[j][t].line # "unused"
    /\ record[j].code = "lpd_unknown" /\ record[j].stage = 1 => try[j] = NPorts

IInv ==
  TypeOK /\ HelperShape /\ SentShape /\ AnswerShape /\ QueuedShape /\ VerdictShape
================================================================================
