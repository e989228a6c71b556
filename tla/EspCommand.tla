------------------------------ MODULE EspCommand ------------------------------
(***************************************************************************)
(* Commands and their answers (EspDrv.cpp 852-946, 1047-1163).  Nothing on *)
(* the line says which command an answer belongs to: sendCmd throws away   *)
(* what has arrived, sends the command and takes the first tag it reads;   *)
(* sendData waits for the prompt, writes the payload and takes the first   *)
(* tag after it.  When a wait times out the call ends, but the module is   *)
(* still at work on it.                                                    *)
(*                                                                         *)
(* Calls are numbered; a token on the line carries, as history, the number *)
(* of the call it answers.  The module drops a command that comes while it *)
(* is busy, and takes whatever comes after its prompt as payload.          *)
(***************************************************************************)
EXTENDS Integers, Sequences

CONSTANTS MaxCalls,    \* bound: calls of sendCmd and sendData
          MaxLate      \* bound: waits that end before the module has answered

ASSUME CommandBounds == MaxCalls \in Nat /\ MaxLate \in Nat

VARIABLES pc,          \* "idle", or what the driver waits for
          cur,         \* the number of the current or last call
          sends,       \* history: the calls that are sendData
          line, here,  \* tokens sent by the module; how many have arrived
          esp, work,   \* the module: what it is doing, for which call
          payload,     \* the module: what it took as the payload of that call
          delivered,   \* history: payloads the module has transmitted
          last,        \* history: how the last call ended
          quiet,       \* history: the call began with a module ready, line silent
          late

vars == <<pc, cur, sends, line, here, esp, work, payload, delivered, last,
          quiet, late>>

(* The tags readUntil knows by itself, but TAG_CONNECT: the driver acts on *)
(* it nowhere, and the answers modelled here do not hold it.               *)
Tags == {"OK", "ERROR", "FAIL", "SEND_OK"}
Answer(what, n) == [what |-> what, of |-> n]
NoAnswer == Answer("timeout", 0)

Init ==
  /\ pc = "idle" /\ cur = 0 /\ sends = {}
  /\ line = <<>> /\ here = 0
  /\ esp = "ready" /\ work = 0 /\ payload = <<>> /\ delivered = {}
  /\ last = NoAnswer /\ quiet = FALSE /\ late = 0

-----------------------------------------------------------------------------
(* The module.                                                             *)

(* It hears a command line, or payload, of call n; rest is the line so far.*)
(* Text taken as payload may or may not complete what the prompt was for.  *)
Hear(n, what, rest) ==
  \/ /\ esp = "ready" /\ what = "command"
     /\ esp' = "busy" /\ work' = n /\ line' = rest /\ UNCHANGED payload
  \/ /\ esp = "ready" /\ what = "payload"
     /\ line' = Append(rest, Answer("ERROR", 0)) /\ UNCHANGED <<esp, work, payload>>
  \/ /\ esp = "data"
     /\ payload' = Append(payload, <<n, what>>)
     /\ esp' \in IF n = work THEN {"sending"} ELSE {"data", "sending"}
     /\ line' = rest
     /\ UNCHANGED work
  \/ /\ esp \in {"busy", "sending"}
     /\ line' = rest /\ UNCHANGED <<esp, work, payload>>

AnswerCommand ==
  /\ esp = "busy"
  /\ \/ \E tag \in {"OK", "ERROR", "FAIL"} :
          /\ work \notin sends \/ tag = "ERROR"
          /\ line' = Append(line, Answer(tag, work))
          /\ esp' = "ready"
          /\ UNCHANGED payload
     \/ /\ work \in sends
        /\ line' = line \o <<Answer("OK", work), Answer(">", work)>>
        /\ esp' = "data" /\ payload' = <<>>
  /\ UNCHANGED <<pc, cur, sends, here, work, delivered, last, quiet, late>>

Transmit ==
  /\ esp = "sending"
  /\ \/ /\ line' = Append(line, Answer("SEND_OK", work))
        /\ delivered' = delivered \cup {[of |-> work, units |-> payload]}
     \/ line' = Append(line, Answer("ERROR", work)) /\ UNCHANGED delivered
  /\ esp' = "ready"
  /\ UNCHANGED <<pc, cur, sends, here, work, payload, last, quiet, late>>

Arrive == /\ here < Len(line)
          /\ here' = here + 1
          /\ UNCHANGED <<pc, cur, sends, line, esp, work, payload, delivered,
                         last, quiet, late>>

-----------------------------------------------------------------------------
(* The driver.                                                             *)

(* `left` is what the driver has not thrown away when the call begins. *)
Quiet(left) == esp = "ready" /\ left = <<>>

(* What espEmptyBuf leaves: the tokens in flight. *)
Emptied == SubSeq(line, here + 1, Len(line))

(* A slip in sendCmd: what has arrived is not thrown away. *)
sendCmd_NoEmpty ==
  /\ pc = "idle" /\ cur < MaxCalls
  /\ cur' = cur + 1
  /\ Hear(cur + 1, "command", line) /\ UNCHANGED here
  /\ pc' = "answer"
  /\ quiet' = Quiet(Emptied)
  /\ UNCHANGED <<sends, delivered, last, late>>

(* espEmptyBuf, println(cmd). *)
sendCmd ==
  /\ pc = "idle" /\ cur < MaxCalls
  /\ cur' = cur + 1
  /\ Hear(cur + 1, "command", Emptied) /\ here' = 0
  /\ pc' = "answer"
  /\ quiet' = Quiet(Emptied)
  /\ UNCHANGED <<sends, delivered, last, late>>

(* println("AT+CIPSEND..."): the buffer is not emptied. *)
sendData ==
  /\ pc = "idle" /\ cur < MaxCalls
  /\ cur' = cur + 1
  /\ sends' = sends \cup {cur + 1}
  /\ Hear(cur + 1, "command", line) /\ UNCHANGED here
  /\ pc' = "prompt"
  /\ quiet' = Quiet(line)
  /\ UNCHANGED <<delivered, last, late>>

(* A slip in readUntil: what was read is still counted as waiting. *)
Take_Uncounted == line' = Tail(line) /\ here' = here

Take == line' = Tail(line) /\ here' = here - 1

(* readUntil passes over a token it does not look for: while sendData waits*)
(* for the prompt (findTags = false) that is every other one.              *)
skip ==
  /\ here > 0
  /\ \/ pc \in {"answer", "sent"} /\ Head(line).what \notin Tags
     \/ pc = "prompt" /\ Head(line).what # ">"
  /\ Take
  /\ UNCHANGED <<pc, cur, sends, esp, work, payload, delivered, last, quiet, late>>

(* A tag of the answer itself.  An idealisation: readUntil compares with   *)
(* the ring buffer, which reset does not clear, so that cells of an earlier*)
(* answer may complete a tag that is not on the line (EspDrv.cpp 1101);    *)
(* EspReadUntil is about that.                                             *)
readTag ==
  /\ pc \in {"answer", "sent"} /\ here > 0 /\ Head(line).what \in Tags
  /\ Take
  /\ last' = Head(line)
  /\ pc' = "idle"
  /\ UNCHANGED <<cur, sends, esp, work, payload, delivered, quiet, late>>

(* A slip in sendData: the payload is written without waiting. *)
writePayload_NoWait ==
  /\ pc = "prompt"
  /\ Hear(cur, "payload", line) /\ UNCHANGED here
  /\ pc' = "sent"
  /\ UNCHANGED <<cur, sends, delivered, last, quiet, late>>

(* The prompt is there: write(data, len). *)
writePayload ==
  /\ pc = "prompt" /\ here > 0 /\ Head(line).what = ">"
  /\ Hear(cur, "payload", Tail(line)) /\ here' = here - 1
  /\ pc' = "sent"
  /\ UNCHANGED <<cur, sends, delivered, last, quiet, late>>

(* A slip in readUntil's timeout: it is shorter than the module takes. *)
timeout_Short ==
  /\ pc # "idle" /\ here = 0
  /\ last' = NoAnswer
  /\ pc' = "idle"
  /\ UNCHANGED <<cur, sends, line, here, esp, work, payload, delivered, quiet, late>>

(* A slip in sendData: the wait for the prompt has no timeout. *)
timeout_NotAtPrompt ==
  /\ pc \in {"answer", "sent"} /\ here = 0
  /\ IF line = <<>> /\ esp \in {"ready", "data"} THEN UNCHANGED late
     ELSE late < MaxLate /\ late' = late + 1
  /\ last' = NoAnswer
  /\ pc' = "idle"
  /\ UNCHANGED <<cur, sends, line, here, esp, work, payload, delivered, quiet>>

(* A wait ends without a tag: nothing more will come, or the module is late*)
timeout ==
  /\ pc # "idle" /\ here = 0
  /\ IF line = <<>> /\ esp \in {"ready", "data"} THEN UNCHANGED late
     ELSE late < MaxLate /\ late' = late + 1
  /\ last' = NoAnswer
  /\ pc' = "idle"
  /\ UNCHANGED <<cur, sends, line, here, esp, work, payload, delivered, quiet>>

Module == AnswerCommand \/ Transmit
Driver == skip \/ readTag \/ writePayload \/ timeout

Next == sendCmd \/ sendData \/ Driver \/ Module \/ Arrive

Spec == Init /\ [][Next]_vars

(* The module answers, the line carries, the processor runs. *)
FairSpec == Spec /\ WF_vars(Module) /\ WF_vars(Arrive) /\ WF_vars(Driver)

-----------------------------------------------------------------------------
Token == [what : Tags \cup {">"}, of : 0 .. MaxCalls]

TypeOK ==
  /\ pc \in {"idle", "answer", "prompt", "sent"}
  /\ cur \in 0 .. MaxCalls /\ sends \subseteq 1 .. cur
  /\ line \in Seq(Token) /\ here \in 0 .. Len(line)
  /\ esp \in {"ready", "busy", "data", "sending"} /\ work \in 0 .. cur
  /\ payload \in Seq((1 .. cur) \X {"command", "payload"})
  /\ \A d \in delivered : d.of \in sends
  /\ last \in Token \cup {NoAnswer}
  /\ quiet \in BOOLEAN /\ late \in 0 .. MaxLate

Ended == pc = "idle" /\ cur > 0

InTime == late = 0

(* As long as the module has answered within every timeout, the tag a call *)
(* returns answers that call, although nothing on the line says so (sendCmd*)
(* and sendData return the first tag they read).                           *)
OwnAnswer == (InTime /\ Ended /\ last # NoAnswer) => last.of = cur

(* When the module may have been late: a call given while it is ready and  *)
(* nothing is in flight returns its own answer or times out, whatever was  *)
(* left over by the calls before (espEmptyBuf in sendCmd; sendData needs   *)
(* the buffer empty, too, because it does not empty it).                   *)
QuietCallOwnAnswer == (Ended /\ quiet /\ last # NoAnswer) => last.of = cur

(* What the peer gets as the payload of a sendData is what that call wrote,*)
(* never the text of a command or the payload of another call, when no     *)
(* prompt came late (sendData).                                            *)
PayloadIntact == InTime => \A d \in delivered : d.units = << <<d.of, "payload">> >>

(* sendData returns true only if the module has transmitted its payload,   *)
(* when no SEND OK came late: write returns the number of characters       *)
(* written (WiFiEspClient.h).                                              *)
WrittenIsSent ==
  (InTime /\ Ended /\ cur \in sends /\ last.what = "SEND_OK") =>
    \E d \in delivered : d.of = cur /\ <<cur, "payload">> \in {d.units[i] : i \in DOMAIN d.units}

(* Every call ends, answered or not (readUntil's timeouts). *)
CallsEnd == pc # "idle" ~> pc = "idle"
-----------------------------------------------------------------------------
(* Why these hold.                                                         *)

Sent == [of |-> cur, units |-> << <<cur, "payload">> >>] \in delivered

(* Where the driver and the module can be, together, in a call that began  *)
(* with the module ready and the line silent.                              *)
InStep ==
  \/ /\ pc = "answer" /\ cur \notin sends
     /\ \/ esp = "busy" /\ work = cur /\ line = <<>>
        \/ esp = "ready" /\ \E tag \in {"OK", "ERROR", "FAIL"} : line = <<Answer(tag, cur)>>
  \/ /\ pc = "prompt" /\ cur \in sends
     /\ \/ esp = "busy" /\ work = cur /\ line = <<>>
        \/ esp = "ready" /\ line \in {<<>>, <<Answer("ERROR", cur)>>}
        \/ /\ esp = "data" /\ work = cur /\ payload = <<>>
           /\ line \in {<<Answer("OK", cur), Answer(">", cur)>>, <<Answer(">", cur)>>}
  \/ /\ pc = "sent" /\ cur \in sends
     /\ \/ esp = "sending" /\ work = cur /\ line = <<>> /\ payload = << <<cur, "payload">> >>
        \/ esp = "ready" /\ line = <<Answer("ERROR", cur)>>
        \/ esp = "ready" /\ line = <<Answer("SEND_OK", cur)>> /\ Sent

(* A call that began quiet goes in step with the module and ends with its  *)
(* own answer; while no answer has been late every call begins quiet,      *)
(* because the one before has left the line empty and the module ready.    *)
IInv ==
  /\ TypeOK
  /\ esp \in {"data", "sending"} => work \in sends
  /\ pc # "idle" => cur # 0 /\ (pc = "prompt" => cur \in sends)
  /\ (quiet /\ pc # "idle") => InStep
  /\ (quiet /\ pc = "idle" /\ last # NoAnswer) =>
       last.of = cur /\ (last.what = "SEND_OK" => Sent)
  /\ InTime =>
       /\ cur = 0 \/ quiet
       /\ pc = "idle" => line = <<>> /\ esp = "ready"
       /\ \A d \in delivered : d.units = << <<d.of, "payload">> >>
=============================================================================
