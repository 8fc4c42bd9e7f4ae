------------------------------ MODULE LiveSession ------------------------------
(***************************************************************************)
(* A live printing session: the host controller of libexec/live_session    *)
(* and libexec/tm-u220-live-session.mjs, the netcat connection it drives,  *)
(* and the printer at the other end.                                       *)
(*                                                                         *)
(* The host is a single Node process.  Between two waits it runs without   *)
(* interruption, so bytes, the end of the connection and the user's cancel *)
(* reach it only while HostWaiting holds.  The printer is known from how   *)
(* the host talks to it: it answers real-time queries at once, everything  *)
(* else in order, and while automatic status (ASB) is on it may send       *)
(* four-byte status frames of its own accord.                              *)
(***************************************************************************)
EXTENDS Integers, Sequences

CONSTANTS
  N,           \* number of checkpoint steps of the plan
  Resets,      \* Resets[i]: number of ESC @ commands inside step i
  NPorts,      \* number of authorized source ports
  TailValues,  \* values the three inner bytes of an ASB frame may have
  StrayValues, \* values of bytes that belong to no answer and no ASB frame
  MaxAsb,      \* bound: ASB frames the printer sends of its own accord
  MaxStray     \* bound: stray bytes

PaperValues  == {"paper_ok", "paper_end"}      \* answers to GS r 1
StatusValues == {"ready", "not_ready"}         \* answers to DLE EOT n
Values == PaperValues \cup StatusValues \cup {"asb_header", "other"}

ASSUME NAssumption      == N \in Nat \ {0}
ASSUME ResetsAssumption == Resets \in [1..N -> Nat]
ASSUME NPortsAssumption == NPorts \in Nat \ {0}
ASSUME TailAssumption   == TailValues \subseteq PaperValues \cup {"other"}
ASSUME StrayAssumption  == StrayValues \subseteq {"other", "asb_header"}
ASSUME BoundAssumption  == MaxAsb \in Nat /\ MaxStray \in Nat

(* A byte from the printer carries its value and, for the properties only, *)
(* where it came from: its place in an ASB frame (0: none) and the step    *)
(* whose GS r 1 it answers (0: none).                                      *)
Bytes    == [value : Values, frame : 0..4, step : 0..N]
Ops      == {"asb_off", "status", "init", "print", "checkpoint"}
Commands == [op : Ops, step : 0..N]

VARIABLES
  pc,           \* where the host is: see the host actions
  port,         \* source port being tried, an index into plan.sourcePorts
  query,        \* which of the four preflight queries is next
  fault,        \* a preflight answer showed a device failure
  tail,         \* ASB tail bytes still to be skipped
  answer,       \* decoded checkpoint answer of the step in flight
  cancelled,    \* cancellation.requested
  confirmed,    \* confirmedSteps
  released,     \* steps counted in releasedBytes
  result,       \* the record written to the result file
  conn,         \* "none", "up", or "ended" once the host knows it is over
  received,     \* receivedBytes() > 0 on this connection
  fromPrinter,  \* bytes sent by the printer and not yet read by the host
  buffered,     \* how many of them have arrived in the ByteReader
  toPrinter,    \* commands written and not yet carried out
  asb,          \* automatic status is enabled at the printer
  printed,      \* log of the steps the printer carried out
  asbLeft,      \* ASB frames it may still send
  strayLeft     \* stray bytes it may still send

preflightVars == <<port, query, fault>>
counterVars   == <<confirmed, released>>
verdictVars   == <<result, conn>>
inputVars     == <<fromPrinter, buffered, received>>
printerVars   == <<toPrinter, asb, printed, asbLeft, strayLeft>>

vars == <<pc, preflightVars, tail, answer, cancelled, counterVars, verdictVars,
          inputVars, printerVars>>

NoResult == [status |-> "none", code |-> "none", step |-> 0, confirmed |-> 0,
             released |-> 0, unknown |-> FALSE]

Init ==
  /\ pc = "open" /\ port = 1 /\ query = 1 /\ fault = FALSE
  /\ tail = 0 /\ answer = "none" /\ cancelled = FALSE
  /\ confirmed = 0 /\ released = 0 /\ result = NoResult
  /\ conn = "none" /\ received = FALSE
  /\ fromPrinter = << >> /\ buffered = 0
  /\ toPrinter = << >> /\ asb = FALSE /\ printed = << >>
  /\ asbLeft = MaxAsb /\ strayLeft = MaxStray

--------------------------------------------------------------------------------
(* Requests and verdicts.                                                  *)

(* The bytes released for step i: after every ESC @ of the payload an ASB  *)
(* disable command, at the end the payload's output and GS r 1.            *)

CheckpointRequest(i) ==
  LET r == 2 * Resets[i]
  IN  [k \in 1..(r + 2) |->
         [op |-> IF k = r + 2 THEN "checkpoint"
                 ELSE IF k = r + 1 THEN "print"
                 ELSE IF k % 2 = 1 THEN "init" ELSE "asb_off",
          step |-> i]]

Completed(c) == [NoResult EXCEPT !.status = "completed", !.confirmed = c]
Cancelled(c) == [NoResult EXCEPT !.status = "cancelled", !.confirmed = c]

Failed(code, step, c, r, unknown) ==
  [status |-> "error", code |-> code, step |-> step, confirmed |-> c,
   released |-> r, unknown |-> unknown]

(* The record of an error that carries none of the session's fields.       *)
Untagged(code) == Failed(code, 0, 0, 0, FALSE)

(* The connection is closed before the record is written.                  *)
Finish(record) ==
  /\ result' = record
  /\ conn' = "ended"
  /\ pc' = "done"

(* The loop head: a requested cancellation stops before the next step.     *)
NextStep_Deaf(c) ==                  \* fault: the flag is not looked at
  pc' = "check" /\ UNCHANGED verdictVars

NextStep(c) ==
  \/ cancelled /\ Finish(Cancelled(c))
  \/ ~cancelled /\ pc' = "check" /\ UNCHANGED verdictVars

--------------------------------------------------------------------------------
(* Reading.  exchange, check and after are calls of pendingUnexpectedByte; *)
(* answer and response are calls of readFramedStatus.                      *)

Awaiting == pc \in {"answer", "response"}
Draining == pc \in {"exchange", "check", "after"}

(* The host is about to call readByte.                                     *)
Reading == Awaiting \/ (Draining /\ (tail > 0 \/ buffered > 0))

(* The host has yielded to the event loop.                                 *)
HostWaiting == (Reading /\ buffered = 0) \/ pc = "opened"

Drained == Draining /\ tail = 0 /\ buffered = 0

Consume ==
  /\ buffered > 0
  /\ fromPrinter' = Tail(fromPrinter)
  /\ buffered' = buffered - 1
  /\ UNCHANGED received

IsBasicAsbHeader(b) == b.value = "asb_header"

(* A byte that is not part of an ASB frame is handed to the caller.        *)
StatusByte == tail = 0 /\ buffered > 0 /\ ~IsBasicAsbHeader(Head(fromPrinter))

BeginAsbFrame(tailLength) ==
  /\ Reading
  /\ tail = 0
  /\ buffered > 0
  /\ IsBasicAsbHeader(Head(fromPrinter))
  /\ Consume
  /\ tail' = tailLength
  /\ UNCHANGED <<pc, preflightVars, answer, cancelled, counterVars,
                 verdictVars, printerVars>>

ReadAsbHeader_Short == BeginAsbFrame(2)   \* fault: one tail byte too few

ReadAsbHeader == BeginAsbFrame(3)

ReadAsbTail ==
  /\ Reading
  /\ tail > 0
  /\ Consume
  /\ tail' = tail - 1
  /\ UNCHANGED <<pc, preflightVars, answer, cancelled, counterVars,
                 verdictVars, printerVars>>

(* readByte throws: the deadline of the call has passed or the stream is   *)
(* over.  A deadline that passes while bytes are buffered is the same as   *)
(* those bytes arriving after it.                                          *)
ReadFails_NoDeadline == Reading /\ buffered = 0 /\ conn = "ended"  \* fault

ReadFails == Reading /\ buffered = 0

--------------------------------------------------------------------------------
(* connect and preflight.                                                  *)

preflightUnchanged == <<answer, cancelled, counterVars>>

(* openNetcat, and the write of the ASB disable command is under way.      *)
Connect ==
  /\ pc = "open"
  /\ pc' = "opened"
  /\ query' = 1 /\ fault' = FALSE /\ tail' = 0
  /\ conn' = "up" /\ received' = FALSE
  /\ fromPrinter' = << >> /\ buffered' = 0
  /\ toPrinter' = <<[op |-> "asb_off", step |-> 0]>>
  /\ asb' \in BOOLEAN
  /\ UNCHANGED <<preflightUnchanged, port, result, printed, asbLeft, strayLeft>>

AsbDisableWritten ==
  /\ pc = "opened"
  /\ conn = "up"
  /\ pc' = "exchange"
  /\ UNCHANGED <<preflightUnchanged, preflightVars, tail, verdictVars,
                 inputVars, printerVars>>

WriteStatusQuery ==
  /\ pc = "exchange"
  /\ Drained
  /\ conn = "up"
  /\ toPrinter' = Append(toPrinter, [op |-> "status", step |-> 0])
  /\ pc' = "answer"
  /\ UNCHANGED <<preflightUnchanged, preflightVars, tail, verdictVars,
                 inputVars, asb, printed, asbLeft, strayLeft>>

(* The fourth answer completes the preflight; deviceFailure looks at all.  *)
AcceptStatus ==
  /\ pc = "answer"
  /\ StatusByte
  /\ Head(fromPrinter).value \in StatusValues
  /\ Consume
  /\ fault' = (fault \/ Head(fromPrinter).value = "not_ready")
  /\ \/ /\ query < 4
        /\ query' = query + 1
        /\ pc' = "exchange"
        /\ UNCHANGED verdictVars
     \/ /\ query = 4
        /\ UNCHANGED query
        /\ \/ fault' /\ Finish(Untagged("LIVE_PRINTER_NOT_READY"))
           \/ ~fault' /\ NextStep(0)
  /\ UNCHANGED <<preflightUnchanged, port, tail, printerVars>>

(* An error of one port: the failure texts that shouldRotateSourcePort     *)
(* accepts exist only when netcat is gone, and nothing may have arrived.   *)
TryNextPort(last) ==
  /\ conn = "ended"
  /\ \/ /\ port < last
        /\ port' = port + 1
        /\ pc' = "open"
        /\ conn' = "none"
        /\ UNCHANGED result
     \/ /\ port = last
        /\ UNCHANGED port
        /\ Finish(Untagged("LIVE_SOURCE_PORTS_BUSY"))

RotateSourcePort == ~received /\ TryNextPort(NPorts)

ConnectFails ==
  \/ RotateSourcePort
  \/ /\ conn = "ended" /\ ~received
     /\ Finish(Untagged("LIVE_AUTHORIZATION_MISSING"))
     /\ UNCHANGED port
  \/ /\ Finish(Untagged("LIVE_CONNECTION_FAILED"))
     /\ UNCHANGED port

(* A read or a write of the preflight throws.                              *)
PreflightFails ==
  /\ \/ pc \in {"exchange", "answer"} /\ ReadFails
     \/ pc = "opened" /\ conn = "ended"
     \/ pc = "exchange" /\ Drained /\ conn = "ended"
  /\ ConnectFails
  /\ UNCHANGED <<preflightUnchanged, query, fault, tail, inputVars, printerVars>>

(* decodePrinterStatus and its siblings reject the byte.                   *)
RejectStatus ==
  /\ pc = "answer"
  /\ StatusByte
  /\ Head(fromPrinter).value \notin StatusValues
  /\ Consume
  /\ Finish(Untagged("LIVE_CONNECTION_FAILED"))
  /\ UNCHANGED <<preflightUnchanged, preflightVars, tail, printerVars>>

UnexpectedInPreflight ==
  /\ pc = "exchange"
  /\ StatusByte
  /\ Consume
  /\ Finish(Untagged("LIVE_UNEXPECTED_STATUS"))
  /\ UNCHANGED <<preflightUnchanged, preflightVars, tail, printerVars>>

--------------------------------------------------------------------------------
(* runSteps.                                                               *)

(* The step in flight, or the one about to be.                             *)
Current == confirmed + 1

(* A LiveSessionError thrown by runSteps for the current step.             *)
FailStep(code, unknown) ==
  /\ Finish(Failed(code, Current, confirmed, released, unknown))
  /\ UNCHANGED <<preflightVars, tail, answer, cancelled, counterVars, printerVars>>

UnexpectedBeforeStep ==
  /\ pc = "check"
  /\ StatusByte
  /\ Consume
  /\ FailStep("LIVE_UNEXPECTED_STATUS", FALSE)

(* releasedBytes grows before the write, which a closed stream rejects.    *)
ReleaseStep ==
  /\ pc = "check"
  /\ Drained
  /\ released' = released + 1
  /\ \/ /\ conn = "up"
        /\ toPrinter' = toPrinter \o CheckpointRequest(Current)
        /\ pc' = "response"
        /\ UNCHANGED verdictVars
     \/ /\ conn = "ended"
        /\ Finish(Failed("LIVE_CHECKPOINT_FAILED", Current, confirmed,
                         released + 1, TRUE))
        /\ UNCHANGED toPrinter
  /\ UNCHANGED <<preflightVars, tail, answer, cancelled, confirmed, inputVars,
                 asb, printed, asbLeft, strayLeft>>

AcceptCheckpoint ==
  /\ pc = "response"
  /\ StatusByte
  /\ Head(fromPrinter).value \in PaperValues
  /\ Consume
  /\ answer' = Head(fromPrinter).value
  /\ pc' = "after"
  /\ UNCHANGED <<preflightVars, tail, cancelled, counterVars, verdictVars,
                 printerVars>>

InvalidCheckpoint ==
  /\ pc = "response"
  /\ StatusByte
  /\ Head(fromPrinter).value \notin PaperValues
  /\ Consume
  /\ FailStep("LIVE_CHECKPOINT_INVALID", TRUE)

CheckpointLost(unknown) ==
  /\ pc = "response"
  /\ ReadFails
  /\ FailStep("LIVE_CHECKPOINT_FAILED", unknown)
  /\ UNCHANGED inputVars

CheckpointFails_Certain == CheckpointLost(FALSE)   \* fault: claims to know

CheckpointFails == CheckpointLost(TRUE)

StatusAfterAnswer(unknown) ==
  /\ pc = "after"
  /\ StatusByte
  /\ Consume
  /\ FailStep("LIVE_UNEXPECTED_STATUS", unknown)

UnexpectedAfterStep_Certain == StatusAfterAnswer(FALSE)   \* fault

UnexpectedAfterStep == StatusAfterAnswer(TRUE)

(* pendingUnexpectedByte itself throws: the error is not a                 *)
(* LiveSessionError, so main writes its defaults.                          *)
DrainFails ==
  /\ pc \in {"check", "after"}
  /\ ReadFails
  /\ Finish(Untagged("LIVE_SESSION_FAILED"))
  /\ UNCHANGED <<preflightVars, tail, answer, cancelled, counterVars, inputVars,
                 printerVars>>

AfterConfirmation(c) ==
  \/ /\ answer = "paper_end"
     /\ Finish(Failed("LIVE_PAPER_OUT", Current, c, released, FALSE))
  \/ answer # "paper_end" /\ c = N /\ Finish(Completed(N))
  \/ answer # "paper_end" /\ c < N /\ NextStep(c)

ConfirmStep ==
  /\ pc = "after"
  /\ Drained
  /\ confirmed' = confirmed + 1
  /\ answer' = "none"
  /\ AfterConfirmation(confirmed + 1)
  /\ UNCHANGED <<preflightVars, tail, cancelled, released, inputVars, printerVars>>

--------------------------------------------------------------------------------
(* The user, the network and the printer.                                  *)

RequestCancel ==
  /\ HostWaiting \/ pc = "open"
  /\ ~cancelled
  /\ cancelled' = TRUE
  /\ UNCHANGED <<pc, preflightVars, tail, answer, counterVars, verdictVars,
                 inputVars, printerVars>>

(* One data event: a chunk of any length.                                  *)
Deliver ==
  /\ HostWaiting
  /\ conn = "up"
  /\ \E n \in 1..(Len(fromPrinter) - buffered) : buffered' = buffered + n
  /\ received' = TRUE
  /\ UNCHANGED <<pc, preflightVars, tail, answer, cancelled, counterVars,
                 verdictVars, fromPrinter, printerVars>>

(* Netcat exits or its stdin breaks.  Bytes under way in either direction  *)
(* may never arrive; those already in the ByteReader stay readable.        *)
LoseConnection ==
  /\ HostWaiting
  /\ conn = "up"
  /\ conn' = "ended"
  /\ UNCHANGED <<pc, preflightVars, tail, answer, cancelled, counterVars, result,
                 inputVars, printerVars>>

hostUnchanged == <<pc, preflightVars, tail, answer, cancelled, counterVars,
                   verdictVars, buffered, received>>

StatusAnswer(v)        == [value |-> v, frame |-> 0, step |-> 0]
CheckpointAnswer(v, i) == [value |-> v, frame |-> 0, step |-> i]
AsbFrame(t) ==
  [k \in 1..4 |-> [value |-> IF k = 1 THEN "asb_header" ELSE t[k],
                   frame |-> k, step |-> 0]]

(* What the printer sends is lost once the connection is gone.             *)
Send(bytes) ==
  fromPrinter' = IF conn = "up" THEN fromPrinter \o bytes ELSE fromPrinter

(* DLE EOT is real-time: it overtakes the commands queued before it.  The  *)
(* host has at most one outstanding, so it is the last one written.        *)
AnswerStatus ==
  /\ toPrinter # << >>
  /\ toPrinter[Len(toPrinter)].op = "status"
  /\ toPrinter' = SubSeq(toPrinter, 1, Len(toPrinter) - 1)
  /\ \E v \in StatusValues : Send(<<StatusAnswer(v)>>)
  /\ UNCHANGED <<hostUnchanged, asb, printed, asbLeft, strayLeft>>

(* The other commands are carried out in order.  ESC @ restores automatic  *)
(* status, GS a 0 disables it, GS r 1 sends the paper status.              *)
ExecuteCommand ==
  /\ toPrinter # << >>
  /\ toPrinter' = Tail(toPrinter)
  /\ LET c == Head(toPrinter)
     IN  \/ /\ c.op = "asb_off"
            /\ asb' = FALSE
            /\ UNCHANGED <<printed, fromPrinter>>
         \/ /\ c.op = "init"
            /\ asb' = TRUE
            /\ UNCHANGED <<printed, fromPrinter>>
         \/ /\ c.op = "print"
            /\ printed' = Append(printed, c.step)
            /\ UNCHANGED <<asb, fromPrinter>>
         \/ /\ c.op = "checkpoint"
            /\ \E v \in PaperValues : Send(<<CheckpointAnswer(v, c.step)>>)
            /\ UNCHANGED <<asb, printed>>
  /\ UNCHANGED <<hostUnchanged, asbLeft, strayLeft>>

SendAsbFrame ==
  /\ asb
  /\ conn = "up"
  /\ asbLeft > 0
  /\ asbLeft' = asbLeft - 1
  /\ \E t \in [2..4 -> TailValues] : Send(AsbFrame(t))
  /\ UNCHANGED <<hostUnchanged, toPrinter, asb, printed, strayLeft>>

SendStrayByte ==
  /\ conn = "up"
  /\ strayLeft > 0
  /\ strayLeft' = strayLeft - 1
  /\ \E v \in StrayValues : Send(<<[value |-> v, frame |-> 0, step |-> 0]>>)
  /\ UNCHANGED <<hostUnchanged, toPrinter, asb, printed, asbLeft>>

--------------------------------------------------------------------------------
Host ==
  \/ ReadAsbHeader \/ ReadAsbTail
  \/ Connect \/ AsbDisableWritten \/ WriteStatusQuery \/ AcceptStatus
  \/ PreflightFails \/ RejectStatus \/ UnexpectedInPreflight
  \/ UnexpectedBeforeStep \/ ReleaseStep \/ AcceptCheckpoint
  \/ InvalidCheckpoint \/ CheckpointFails \/ UnexpectedAfterStep
  \/ DrainFails \/ ConfirmStep

Environment ==
  \/ RequestCancel \/ Deliver \/ LoseConnection
  \/ AnswerStatus \/ ExecuteCommand \/ SendAsbFrame \/ SendStrayByte

Next == Host \/ Environment

(* Every wait of the host ends: writes complete or fail, and every read    *)
(* has a deadline.  Nothing is assumed of the printer, network or user.    *)
Spec == Init /\ [][Next]_vars /\ WF_vars(Host)

--------------------------------------------------------------------------------
(* Types.  The variables hold only what the code can put into them.        *)
PCs == {"open", "opened", "exchange", "answer", "check", "response", "after",
        "done"}

Codes == {"none", "LIVE_PRINTER_NOT_READY", "LIVE_SOURCE_PORTS_BUSY",
          "LIVE_AUTHORIZATION_MISSING", "LIVE_CONNECTION_FAILED",
          "LIVE_UNEXPECTED_STATUS", "LIVE_CHECKPOINT_FAILED",
          "LIVE_CHECKPOINT_INVALID", "LIVE_SESSION_FAILED", "LIVE_PAPER_OUT"}

Results == [status : {"none", "completed", "cancelled", "error"}, code : Codes,
            step : 0..N, confirmed : 0..N, released : 0..N, unknown : BOOLEAN]

(* Every variable stays in its range: no counter passes the plan's length, *)
(* the source port stays in the policy's list, no more than one ASB tail   *)
(* is ever outstanding and the buffer holds no byte that was not sent.     *)
TypeOK ==
  /\ pc \in PCs
  /\ port \in 1..NPorts
  /\ query \in 1..4
  /\ fault \in BOOLEAN
  /\ tail \in 0..3
  /\ answer \in PaperValues \cup {"none"}
  /\ cancelled \in BOOLEAN
  /\ confirmed \in 0..N
  /\ released \in 0..N
  /\ result \in Results
  /\ conn \in {"none", "up", "ended"}
  /\ received \in BOOLEAN
  /\ fromPrinter \in Seq(Bytes)
  /\ buffered \in 0..Len(fromPrinter)
  /\ toPrinter \in Seq(Commands)
  /\ asb \in BOOLEAN
  /\ printed \in Seq(1..N)
  /\ asbLeft \in 0..MaxAsb
  /\ strayLeft \in 0..MaxStray

--------------------------------------------------------------------------------
(* Correctness.                                                            *)

(* The printer carries out the plan's steps in order and none twice: no    *)
(* failure, late answer or source-port rotation makes runSteps release a   *)
(* step again.                                                             *)
PrintedOnceInOrder == \A i \in 1..Len(printed) : printed[i] = i

(* A confirmed step has been printed and a printed one was counted as      *)
(* released; at most one step is in flight between the two counters.       *)
ConfirmedWasPrinted ==
  /\ confirmed <= Len(printed)
  /\ Len(printed) <= released
  /\ released <= confirmed + 1

(* The byte runSteps takes for the answer of a checkpoint is the printer's *)
(* answer to that very GS r 1: never the inside of an ASB frame, never the *)
(* late answer of an earlier step.                                         *)
CheckpointAnswerIsOwn ==
  [][AcceptCheckpoint =>
       /\ Head(fromPrinter).frame = 0
       /\ Head(fromPrinter).step = Current]_vars

(* When the printer comes to a GS r 1, every ESC @ of the payload before   *)
(* it has been followed by an ASB disable: no automatic frame can be sent  *)
(* between the answer and the next step.                                   *)
AsbOffAtCheckpoint ==
  toPrinter # << >> /\ Head(toPrinter).op = "checkpoint" => ~asb

(* Nothing of a step's request is left for the printer to carry out.       *)
NoPrintPending == \A i \in DOMAIN toPrinter : toPrinter[i].op # "print"

(* The verdict of the result file tells what happened to the paper: all    *)
(* printed; exactly the confirmed steps printed, now and later; or one     *)
(* step unknown and none after it.  Errors without session fields are      *)
(* excluded, see EveryFailureIsAccounted.                                  *)
ResultTellsTruth ==
  pc = "done" /\ result.code # "LIVE_SESSION_FAILED" =>
    /\ result.confirmed = confirmed
    /\ result.status = "completed" => Len(printed) = N
    /\ ~result.unknown => Len(printed) = confirmed /\ NoPrintPending
    /\ result.unknown => released = confirmed + 1 /\ result.step = released

(* parse_result of transport/live_raw/process.lua accepts the record.      *)
ParseResultAccepts(r) ==
  CASE r.status = "completed" -> r.confirmed = N
    [] r.status = "cancelled" -> r.confirmed < N
    [] r.status = "error" -> /\ r.step <= N
                             /\ r.confirmed <= r.released
                             /\ r.released <= N
    [] OTHER -> FALSE

(* The Lua side never refuses what the controller wrote, whatever ended    *)
(* the session: a refusal would hide the counters from the user.           *)
ResultIsAccepted == pc = "done" => ParseResultAccepts(result)

(* After a cancellation request no step is released, except that a request *)
(* arriving while the first step's pending-byte check waits for the rest   *)
(* of an ASB frame comes too late for that step.                           *)
CancelStopsRelease ==
  [][cancelled /\ released' # released => confirmed = 0 /\ released' = 1]_vars

(* The controller moves to another source port only while the printer has  *)
(* said nothing on the present one, and never with job bytes under way.    *)
RotatesOnlyBeforeAnswer ==
  [][port' # port => ~received /\ released = 0 /\ NoPrintPending]_vars

(* The session ends when the printer answers late, wrongly or not at all,  *)
(* the network breaks or the user cancels, provided that no more than      *)
(* MaxAsb frames and MaxStray bytes come unasked.  Each frame read has a   *)
(* deadline of its own, so a printer that never stops sending frames is    *)
(* outside this promise.                                                   *)
Termination == <>(pc = "done")

--------------------------------------------------------------------------------
(* Refinement.                                                             *)
Outcome ==
  CASE result.status = "none" -> "open"
    [] result.status \in {"completed", "cancelled"} -> result.status
    [] result.status = "error" /\ result.code = "LIVE_SESSION_FAILED" -> "unreported"
    [] OTHER -> IF result.unknown THEN "unknown" ELSE "known"

Delivery == INSTANCE CheckpointDelivery WITH outcome <- Outcome

(* The session keeps the promise of CheckpointDelivery.                    *)
ImplementsDelivery == Delivery!Spec

--------------------------------------------------------------------------------
(* What docs/live-printing.md says and the code does not always do.        *)

(* "If the response is lost, that one operation's outcome is reported as   *)
(* unknown": an error that does not say unknown leaves nothing unaccounted.*)
EveryFailureIsAccounted ==
  result.status = "error" /\ ~result.unknown => released = result.confirmed

(* "The session waits for an operation already in flight, then closes      *)
(* without sending later operations."                                      *)
CancelSendsNothingMore == [][cancelled => released' = released]_vars
================================================================================
