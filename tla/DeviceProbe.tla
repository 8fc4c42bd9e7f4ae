------------------------------ MODULE DeviceProbe ------------------------------
(***************************************************************************)
(* Asking a printer who it is and whether it is ready                      *)
(* (printing_setup/device_probe.mjs over live_session/netcat.mjs).  The    *)
(* probe writes one query, reads its answer byte by byte, and goes on to   *)
(* the next.  The device may be another one, may stay silent, may stop in  *)
(* the middle of an answer, and may send a status frame nobody asked for;  *)
(* netcat may exit at any time.                                            *)
(***************************************************************************)
EXTENDS Integers, Sequences

CONSTANTS
  Limit,        \* most bytes of a model name, 82 in the code
  AsbFrames,    \* the automatic status frames the device may send
  MaxAsb        \* bound: frames the device sends

Queries  == <<"modelName", "modelId", "printer", "offline", "error", "paper">>
Statuses == {"printer", "offline", "error", "paper"}

(* Each class of bytes stands for one of its bytes: a real-time status     *)
(* without and with a reason not to print (12, 16), the first byte of an   *)
(* automatic status frame, unprintable or printable (10, 30), a printable  *)
(* byte (40), one that is not (FF).  A model name is one token: nothing    *)
(* comes between its characters.                                           *)
Names     == {"TM-U220", "TM-T88"}
Headers   == {"10", "30"}
Bytes     == {"5F", "00", "0D", "40", "clear", "trouble", "other"} \cup Headers \cup Names
Printable == Names \cup {"5F", "30", "40"}

(* Of a frame the code knows the fixed bits of its first byte: they are    *)
(* neither 5F, 00 or 0D nor those of a real-time status.  The bytes after  *)
(* it may be anything.                                                     *)
ASSUME LimitAssumption == Limit \in Nat /\ Limit > 3 /\ MaxAsb \in Nat
ASSUME FrameAssumption ==
  \A frame \in AsbFrames : frame \in Seq(Bytes) /\ frame # <<>> /\ frame[1] \in Headers

VARIABLES
  device,       \* [name, id]: what the device answers
  asked,        \* queries on the way to the device
  wire,         \* bytes on the way from it
  buffer,       \* ByteReader.buffer
  ended,        \* how an ended connection reads: a class of errors, or "no"
  child,        \* netcat: "running" or "exited"
  pc, query,    \* where the probe is, and with which query
  bytes,        \* bytes of the model name read so far
  report,       \* what probeDevice returns
  healthy,      \* what printing-status makes of it
  said,         \* history: what the device answered to each status query
  frames

connection == <<asked, wire, buffer, ended, child>>
probeVars == <<device, connection, pc, query, bytes, report, healthy, said, frames>>

Outcomes == {"unreachable", "malformed_response", "wrong_device", "probe_error", "verified"}

ProbeInit ==
  /\ device \in [name : Names, id : {"0D", "other"}]
  /\ asked = <<>> /\ wire = <<>> /\ buffer = <<>> /\ ended = "no" /\ child = "running"
  /\ pc = "write" /\ query = 1 /\ bytes = <<>>
  /\ report = [outcome |-> "unreachable", identity |-> FALSE, ready |-> "unknown"]
  /\ healthy = FALSE
  /\ said = [s \in Statuses |-> "nothing"]
  /\ frames = 0

--------------------------------------------------------------------------------
(* Judging an answer.                                                      *)

Fail(how) == /\ report' = [report EXCEPT !.outcome = how]
             /\ pc' = "close" /\ UNCHANGED <<query, bytes>>

Advance == /\ query' = query + 1 /\ pc' = "write" /\ bytes' = <<>>

WellFramed(s) == /\ Len(s) >= 2 /\ s[1] = "5F"
                 /\ \A i \in 2..(Len(s) - 1) : s[i] \in Printable

ReadName(s, trailing) ==
  \/ /\ s[Len(s)] # "00" /\ Len(s) < Limit
     /\ bytes' = s /\ UNCHANGED <<pc, query, report>>
  \/ /\ s[Len(s)] # "00" /\ Len(s) = Limit
     /\ Fail("malformed_response")
  \/ /\ s[Len(s)] = "00" /\ (~WellFramed(s) \/ trailing)
     /\ Fail("malformed_response")
  \/ /\ s[Len(s)] = "00" /\ WellFramed(s) /\ ~trailing
     /\ IF s = <<"5F", "TM-U220", "00">>
        THEN Advance /\ UNCHANGED report ELSE Fail("wrong_device")

ReadId_ByName(byte, trailing) ==                                    \* fault
  Advance /\ report' = [report EXCEPT !.identity = TRUE]
ReadId(byte, trailing) ==
  \/ trailing /\ Fail("malformed_response")
  \/ ~trailing /\ byte # "0D" /\ Fail("wrong_device")
  \/ ~trailing /\ byte = "0D" /\ Advance /\ report' = [report EXCEPT !.identity = TRUE]

(* The last answer ends the probe; a trouble seen before is kept.          *)
ReadStatus(byte, trailing) ==
  LET ready == IF byte = "trouble" \/ report.ready = "no" THEN "no" ELSE "yes" IN
  \/ /\ byte \notin {"clear", "trouble"} \/ trailing
     /\ Fail("malformed_response")
  \/ /\ byte \in {"clear", "trouble"} /\ ~trailing /\ query < Len(Queries)
     /\ Advance
     /\ report' = [report EXCEPT !.ready = IF ready = "no" THEN "no" ELSE "unknown"]
  \/ /\ byte \in {"clear", "trouble"} /\ ~trailing /\ query = Len(Queries)
     /\ report' = [report EXCEPT !.ready = ready, !.outcome = "verified"]
     /\ pc' = "close" /\ UNCHANGED <<query, bytes>>

(* Reading or writing failed: with a timeout, or because netcat exited.    *)
TransportFails(error) ==
  \/ Queries[query] = "modelName" /\ bytes # <<>> /\ Fail("malformed_response")
  \/ Queries[query] = "modelName" /\ bytes = <<>> /\ Fail(error)
  \/ Queries[query] = "modelId" /\ Fail(IF pc = "read" THEN "malformed_response" ELSE error)
  \/ /\ Queries[query] \in Statuses /\ error = "unreachable"
     /\ report' = [report EXCEPT !.outcome = "verified", !.ready = "unavailable"]
     /\ pc' = "close" /\ UNCHANGED <<query, bytes>>
  \/ Queries[query] \in Statuses /\ error # "unreachable" /\ Fail(error)

--------------------------------------------------------------------------------
(* The probe.                                                              *)

Write ==
  /\ pc = "write"
  /\ IF ended = "no"
     THEN asked' = Append(asked, Queries[query]) /\ pc' = "read" /\ UNCHANGED <<query, bytes, report>>
     ELSE TransportFails(ended) /\ UNCHANGED asked
  /\ UNCHANGED <<device, wire, buffer, ended, child, healthy, said, frames>>

Read ==
  /\ pc = "read" /\ buffer # <<>>
  /\ buffer' = Tail(buffer)
  /\ LET byte == Head(buffer)  trailing == Tail(buffer) # <<>> IN
     \/ Queries[query] = "modelName" /\ ReadName(Append(bytes, byte), trailing)
     \/ Queries[query] = "modelId"   /\ ReadId(byte, trailing)
     \/ Queries[query] \in Statuses  /\ ReadStatus(byte, trailing)
  /\ UNCHANGED <<device, asked, wire, ended, child, healthy, said, frames>>

Timeout_First ==                                                    \* fault
  /\ pc = "read" /\ buffer = <<>> /\ bytes = <<>>
  /\ TransportFails("unreachable")
  /\ UNCHANGED <<device, connection, healthy, said, frames>>
Timeout ==
  /\ pc = "read" /\ buffer = <<>>
  /\ TransportFails(IF ended = "no" THEN "unreachable" ELSE ended)
  /\ UNCHANGED <<device, connection, healthy, said, frames>>

(* Standard input is closed, then netcat is asked to end, then killed;     *)
(* each time the probe waits a quarter of a second, and leaves it after.   *)
Close ==
  /\ pc \in {"close", "term", "kill"}
  /\ pc' = IF child = "exited" \/ pc = "kill" THEN "report"
           ELSE IF pc = "close" THEN "term" ELSE "kill"
  /\ UNCHANGED <<device, connection, query, bytes, report, healthy, said, frames>>

MarkDevice_Verified == healthy' = (report.outcome = "verified")     \* fault
MarkDevice == healthy' = (report.outcome = "verified" /\ report.ready = "yes")

Report ==
  /\ pc = "report"
  /\ MarkDevice
  /\ pc' = "done"
  /\ UNCHANGED <<device, connection, query, bytes, report, said, frames>>

--------------------------------------------------------------------------------
(* The device and netcat.                                                  *)

(* The host runs without interruption between a byte it was waiting for    *)
(* and its next wait.                                                      *)
HostWaiting == pc \in {"write", "close", "term", "kill"} \/ (pc = "read" /\ buffer = <<>>)

Reply(q) ==
  CASE q = "modelName" -> {<<"5F", device.name, "00">>, <<"5F", device.name>>,
                           <<device.name, device.name, device.name, device.name>>}
    [] q = "modelId"   -> {<<device.id>>}
    [] q \in Statuses  -> {<<"clear">>, <<"trouble">>, <<"other">>}

Answer ==
  /\ child = "running" /\ asked # <<>>
  /\ asked' = Tail(asked)
  /\ \E reply \in Reply(Head(asked)) :
       /\ wire' = wire \o reply
       /\ said' = IF Head(asked) \in Statuses
                  THEN [said EXCEPT ![Head(asked)] = reply[1]] ELSE said
  /\ UNCHANGED <<device, buffer, ended, child, pc, query, bytes, report, healthy, frames>>

SendAsb ==
  /\ child = "running" /\ frames < MaxAsb
  /\ frames' = frames + 1
  /\ \E frame \in AsbFrames : wire' = wire \o frame
  /\ UNCHANGED <<device, asked, buffer, ended, child, pc, query, bytes, report, healthy, said>>

(* A chunk arrives: some of the bytes on the way.                          *)
Arrive ==
  /\ HostWaiting /\ ended = "no"
  /\ \E n \in 1..Len(wire) :
       /\ buffer' = buffer \o SubSeq(wire, 1, n)
       /\ wire' = SubSeq(wire, n + 1, Len(wire))
  /\ UNCHANGED <<device, asked, ended, child, pc, query, bytes, report, healthy, said, frames>>

(* The error is told by its code, or by the words "timed out".             *)
Exit ==
  /\ HostWaiting /\ child = "running"
  /\ child' = "exited"
  /\ \E error \in {"unreachable", "probe_error"} : ended' = error
  /\ UNCHANGED <<device, asked, wire, buffer, pc, query, bytes, report, healthy, said, frames>>

Probe == Write \/ Read \/ Timeout \/ Close \/ Report
ProbeNext  == Probe \/ Answer \/ SendAsb \/ Arrive \/ Exit

(* Writes complete and timers expire.                                      *)
ProbeSpec == ProbeInit /\ [][ProbeNext]_probeVars /\ WF_probeVars(Probe)

--------------------------------------------------------------------------------
(* Every variable has its type, and the name read so far fits its buffer.  *)
ProbeTypeOK ==
  /\ device \in [name : Names, id : {"0D", "other"}]
  /\ asked \in Seq({Queries[i] : i \in DOMAIN Queries})
  /\ wire \in Seq(Bytes) /\ buffer \in Seq(Bytes)
  /\ ended \in {"no", "unreachable", "probe_error"} /\ child \in {"running", "exited"}
  /\ pc \in {"write", "read", "close", "term", "kill", "report", "done"}
  /\ query \in DOMAIN Queries /\ bytes \in Seq(Bytes) /\ Len(bytes) < Limit
  /\ report \in [outcome : Outcomes, identity : BOOLEAN,
                 ready : {"unknown", "yes", "no", "unavailable"}]
  /\ healthy \in BOOLEAN
  /\ said \in [Statuses -> {"nothing", "clear", "trouble", "other"}]
  /\ frames \in 0..MaxAsb

(* A device is only reported as verified if it named itself TM-U220 and    *)
(* gave the model number 0D, however its bytes were cut and whatever frame *)
(* came between them: the end of a name and the number 0D may well be      *)
(* bytes of a frame, but never of one whose first byte went unnoticed      *)
(* (identify).                                                             *)
VerifiedIsGenuine ==
  /\ ProbeTypeOK
  /\ report.outcome = "verified" => device = [name |-> "TM-U220", id |-> "0D"]

(* Printing-status reports a healthy printer only if each of the four      *)
(* status answers, and not a byte of something else taken for one, said    *)
(* that nothing keeps it from printing (checkReadiness, markDevice).       *)
HealthyIsReady == healthy => \A s \in Statuses : said[s] = "clear"

(* The probe ends whatever the device and netcat do, and then netcat is    *)
(* gone or was told to go in every way there is (probeDevice, close).      *)
ProbeEnds == <>(pc = "done")

(* "an unavailable status response does not erase a valid identity"        *)
(* (docs/printing-policy.md:83)                                            *)
NoStatus == /\ pc = "done"
            /\ \A s \in Statuses : said[s] = "nothing"
IdentitySurvives == NoStatus /\ report.identity => report.outcome = "verified"

================================================================================
