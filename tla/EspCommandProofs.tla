--------------------------- MODULE EspCommandProofs ---------------------------
(* Commands and their answers, for any number of calls and of late         *)
(* answers: the types; that while no answer has been late every call       *)
(* returns its own answer, every payload reaches the peer as it was        *)
(* written and a true from sendData means that it did; and that after late *)
(* answers a call given to a quiet module still gets its own.              *)
EXTENDS EspCommand, SequenceTheorems, TLAPS

(* A tag, or the prompt, with the number of a call is a token. *)
LEMMA AnswerIsToken ==
  ASSUME NEW tag \in Tags \cup {">"}, NEW n \in 0 .. MaxCalls
  PROVE  Answer(tag, n) \in Token
  BY DEF Answer, Token

(* What a token says, and the line of one or two tokens. *)
LEMMA AnswerFields ==
  ASSUME NEW tag, NEW n
  PROVE  Answer(tag, n).what = tag /\ Answer(tag, n).of = n
  BY DEF Answer

LEMMA ShortLines ==
  ASSUME NEW a, NEW b
  PROVE  /\ Head(<<a>>) = a /\ Tail(<<a>>) = <<>>
         /\ Head(<<a, b>>) = a /\ Tail(<<a, b>>) = <<b>>
         /\ Append(<<>>, a) = <<a>> /\ <<>> \o <<a, b>> = <<a, b>>
  OBVIOUS

(* The first tokens of the line come off; what is left are tokens. *)
LEMMA TakeTypes ==
  ASSUME TypeOK, here > 0
  PROVE  /\ Tail(line) \in Seq(Token) /\ here - 1 \in 0 .. Len(Tail(line))
         /\ Head(line) \in Token
  <1>1. line \in Seq(Token) /\ here \in 0 .. Len(line) /\ Len(line) \in Nat
    BY LenProperties DEF TypeOK
  <1>2. line # <<>>
    BY <1>1, EmptySeq
  <1> QED BY <1>1, <1>2, HeadTailProperties

(* What espEmptyBuf leaves are tokens. *)
LEMMA EmptiedTypes ==
  ASSUME TypeOK
  PROVE  Emptied \in Seq(Token) /\ Len(Emptied) \in Nat
  <1>1. line \in Seq(Token) /\ here \in 0 .. Len(line) /\ Len(line) \in Nat
    BY LenProperties DEF TypeOK
  <1>2. \A i \in here + 1 .. Len(line) : line[i] \in Token
    BY <1>1, ElementOfSeq
  <1>3. Emptied \in Seq(Token)
    BY <1>1, <1>2, SubSeqProperties DEF Emptied
  <1> QED BY <1>3, LenProperties

(* A line that was empty is empty when the buffer has been emptied. *)
LEMMA EmptiedEmpty ==
  ASSUME TypeOK, line = <<>>
  PROVE  Emptied = <<>>
  <1>1. here = 0 /\ Len(line) = 0
    BY DEF TypeOK
  <1> QED BY <1>1, SubSeqEmpty DEF Emptied

(* What the module takes in keeps the types, whoever sent it. *)
LEMMA HearTypes ==
  ASSUME TypeOK, NEW n \in 1 .. MaxCalls, NEW what \in {"command", "payload"},
         NEW rest \in Seq(Token), Hear(n, what, rest), cur' \in 0 .. MaxCalls,
         cur <= cur', n <= cur'
  PROVE  /\ line' \in Seq(Token) /\ Len(line') >= Len(rest)
         /\ esp' \in {"ready", "busy", "data", "sending"} /\ work' \in 0 .. cur'
         /\ payload' \in Seq((1 .. cur') \X {"command", "payload"})
  <1>1. /\ cur \in 0 .. MaxCalls /\ MaxCalls \in Nat /\ work \in 0 .. cur
        /\ esp \in {"ready", "busy", "data", "sending"}
        /\ payload \in Seq((1 .. cur) \X {"command", "payload"})
    BY CommandBounds DEF TypeOK
  <1>2. payload \in Seq((1 .. cur') \X {"command", "payload"})
    <2>1. (1 .. cur) \X {"command", "payload"} \subseteq (1 .. cur') \X {"command", "payload"}
      BY <1>1
    <2> QED BY <1>1, <2>1, SeqMonotonic
  <1>3. <<n, what>> \in (1 .. cur') \X {"command", "payload"}
    BY <1>1
  <1>4. Append(payload, <<n, what>>) \in Seq((1 .. cur') \X {"command", "payload"})
    BY <1>2, <1>3, AppendProperties
  <1>5. Answer("ERROR", 0) \in Token
    <2>1. 0 \in 0 .. MaxCalls /\ "ERROR" \in Tags \cup {">"}
      BY <1>1 DEF Tags
    <2> QED BY <2>1, AnswerIsToken
  <1>6. /\ Append(rest, Answer("ERROR", 0)) \in Seq(Token)
        /\ Len(Append(rest, Answer("ERROR", 0))) = Len(rest) + 1
    BY <1>5, AppendProperties
  <1>7. Len(rest) \in Nat
    BY LenProperties
  <1>8. line' \in {rest, Append(rest, Answer("ERROR", 0))}
    BY DEF Hear
  <1>9. payload' \in {payload, Append(payload, <<n, what>>)}
    BY DEF Hear
  <1>10. work' \in {n, work}
    BY DEF Hear
  <1>11. esp' \in {"ready", "busy", "data", "sending"}
    BY <1>1 DEF Hear
  <1>12. line' \in Seq(Token) /\ Len(line') >= Len(rest)
    BY <1>6, <1>7, <1>8
  <1>13. work' \in 0 .. cur'
    BY <1>1, <1>10
  <1>14. payload' \in Seq((1 .. cur') \X {"command", "payload"})
    BY <1>2, <1>4, <1>9
  <1> QED BY <1>11, <1>12, <1>13, <1>14

(* The number of a new call is not the number of any call before it. *)
LEMMA NewCall ==
  ASSUME TypeOK, cur < MaxCalls
  PROVE  /\ cur + 1 \in 1 .. MaxCalls /\ cur + 1 \notin sends
         /\ cur + 1 # 0 /\ cur \in Nat
  BY CommandBounds DEF TypeOK

-----------------------------------------------------------------------------
(* Types, one action at a time.                                            *)

LEMMA TypesSendCmd == ASSUME TypeOK, sendCmd PROVE TypeOK'
  <1>1. /\ pc' = "answer" /\ cur' = cur + 1 /\ here' = 0 /\ quiet' = Quiet(Emptied)
        /\ Hear(cur + 1, "command", Emptied) /\ cur < MaxCalls
        /\ UNCHANGED <<sends, delivered, last, late>>
    BY DEF sendCmd
  <1>2. cur + 1 \in 1 .. MaxCalls /\ cur \in Nat
    BY <1>1, NewCall
  <1>3. /\ line' \in Seq(Token) /\ Len(line') >= Len(Emptied)
        /\ esp' \in {"ready", "busy", "data", "sending"} /\ work' \in 0 .. cur'
        /\ payload' \in Seq((1 .. cur') \X {"command", "payload"})
    <2> DEFINE n == cur + 1
    <2>1. n \in 1 .. MaxCalls /\ cur' \in 0 .. MaxCalls /\ cur <= cur' /\ n <= cur'
      BY <1>1, <1>2, CommandBounds
    <2>2. Emptied \in Seq(Token) /\ "command" \in {"command", "payload"}
      BY EmptiedTypes
    <2> QED BY <1>1, <2>1, <2>2, HearTypes
  <1>4. here' \in 0 .. Len(line')
    BY <1>1, <1>3, EmptiedTypes, LenProperties
  <1>5. cur' \in 0 .. MaxCalls /\ sends' \subseteq 1 .. cur'
    BY <1>1, <1>2, CommandBounds DEF TypeOK
  <1>6. quiet' \in BOOLEAN
    BY <1>1 DEF Quiet
  <1>7. /\ \A d \in delivered' : d.of \in sends'
        /\ last' \in Token \cup {NoAnswer} /\ late' \in 0 .. MaxLate
    BY <1>1 DEF TypeOK
  <1> QED BY <1>1, <1>3, <1>4, <1>5, <1>6, <1>7 DEF TypeOK, Token, NoAnswer

LEMMA TypesSendData == ASSUME TypeOK, sendData PROVE TypeOK'
  <1>1. /\ pc' = "prompt" /\ cur' = cur + 1 /\ here' = here /\ quiet' = Quiet(line)
        /\ sends' = sends \cup {cur + 1}
        /\ Hear(cur + 1, "command", line) /\ cur < MaxCalls
        /\ UNCHANGED <<delivered, last, late>>
    BY DEF sendData
  <1>2. cur + 1 \in 1 .. MaxCalls /\ cur \in Nat
    BY <1>1, NewCall
  <1>3. /\ line' \in Seq(Token) /\ Len(line') >= Len(line)
        /\ esp' \in {"ready", "busy", "data", "sending"} /\ work' \in 0 .. cur'
        /\ payload' \in Seq((1 .. cur') \X {"command", "payload"})
    <2> DEFINE n == cur + 1
    <2>1. n \in 1 .. MaxCalls /\ cur' \in 0 .. MaxCalls /\ cur <= cur' /\ n <= cur'
      BY <1>1, <1>2, CommandBounds
    <2>2. line \in Seq(Token) /\ "command" \in {"command", "payload"}
      BY DEF TypeOK
    <2> QED BY <1>1, <2>1, <2>2, HearTypes
  <1>4. here' \in 0 .. Len(line')
    <2>1. here \in 0 .. Len(line) /\ Len(line) \in Nat /\ Len(line') \in Nat
      BY <1>3, LenProperties DEF TypeOK
    <2> QED BY <1>1, <1>3, <2>1
  <1>5. cur' \in 0 .. MaxCalls /\ sends' \subseteq 1 .. cur'
    BY <1>1, <1>2, CommandBounds DEF TypeOK
  <1>6. quiet' \in BOOLEAN
    BY <1>1 DEF Quiet
  <1>7. /\ \A d \in delivered' : d.of \in sends'
        /\ last' \in Token \cup {NoAnswer} /\ late' \in 0 .. MaxLate
    BY <1>1 DEF TypeOK
  <1> QED BY <1>1, <1>3, <1>4, <1>5, <1>6, <1>7 DEF TypeOK, Token, NoAnswer

LEMMA TypesSkip == ASSUME TypeOK, skip PROVE TypeOK'
  <1>1. /\ here > 0 /\ line' = Tail(line) /\ here' = here - 1
        /\ UNCHANGED <<pc, cur, sends, esp, work, payload, delivered, last, quiet, late>>
    BY DEF skip, Take
  <1>2. line' \in Seq(Token) /\ here' \in 0 .. Len(line')
    BY <1>1, TakeTypes
  <1> QED BY <1>1, <1>2 DEF TypeOK, Token, NoAnswer

LEMMA TypesReadTag == ASSUME TypeOK, readTag PROVE TypeOK'
  <1>1. /\ here > 0 /\ line' = Tail(line) /\ here' = here - 1
        /\ last' = Head(line) /\ pc' = "idle"
        /\ UNCHANGED <<cur, sends, esp, work, payload, delivered, quiet, late>>
    BY DEF readTag, Take
  <1>2. line' \in Seq(Token) /\ here' \in 0 .. Len(line') /\ last' \in Token
    BY <1>1, TakeTypes
  <1> QED BY <1>1, <1>2 DEF TypeOK, Token, NoAnswer

LEMMA TypesWritePayload == ASSUME TypeOK, cur \in sends, writePayload PROVE TypeOK'
  <1>1. /\ here > 0 /\ here' = here - 1 /\ pc' = "sent"
        /\ Hear(cur, "payload", Tail(line))
        /\ UNCHANGED <<cur, sends, delivered, last, quiet, late>>
    BY DEF writePayload
  <1>2. Tail(line) \in Seq(Token) /\ here - 1 \in 0 .. Len(Tail(line))
    BY <1>1, TakeTypes
  <1>3. /\ line' \in Seq(Token) /\ Len(line') >= Len(Tail(line))
        /\ esp' \in {"ready", "busy", "data", "sending"} /\ work' \in 0 .. cur'
        /\ payload' \in Seq((1 .. cur') \X {"command", "payload"})
    <2>1. cur \in 1 .. MaxCalls /\ cur' \in 0 .. MaxCalls /\ cur <= cur'
      BY <1>1, CommandBounds DEF TypeOK
    <2>2. "payload" \in {"command", "payload"}
      OBVIOUS
    <2> QED BY <1>1, <1>2, <2>1, <2>2, HearTypes
  <1>4. here' \in 0 .. Len(line')
    <2>1. Len(Tail(line)) \in Nat /\ Len(line') \in Nat
      BY <1>2, <1>3, LenProperties
    <2> QED BY <1>1, <1>2, <1>3, <2>1
  <1>5. /\ cur' \in 0 .. MaxCalls /\ sends' \subseteq 1 .. cur'
        /\ \A d \in delivered' : d.of \in sends'
        /\ last' \in Token \cup {NoAnswer} /\ late' \in 0 .. MaxLate
        /\ quiet' \in BOOLEAN
    BY <1>1 DEF TypeOK
  <1> QED BY <1>1, <1>3, <1>4, <1>5 DEF TypeOK, Token, NoAnswer

LEMMA TypesTimeout == ASSUME TypeOK, timeout PROVE TypeOK'
  <1>1. /\ last' = NoAnswer /\ pc' = "idle"
        /\ UNCHANGED <<cur, sends, line, here, esp, work, payload, delivered, quiet>>
    BY DEF timeout
  <1>2. late' \in 0 .. MaxLate
    BY CommandBounds DEF timeout, TypeOK
  <1> QED BY <1>1, <1>2 DEF TypeOK, Token, NoAnswer

LEMMA TypesAnswerCommand == ASSUME TypeOK, AnswerCommand PROVE TypeOK'
  <1>1. UNCHANGED <<pc, cur, sends, here, work, delivered, last, quiet, late>>
    BY DEF AnswerCommand
  <1>2. /\ line \in Seq(Token) /\ here \in 0 .. Len(line) /\ Len(line) \in Nat
        /\ work \in 0 .. MaxCalls
    BY CommandBounds, LenProperties DEF TypeOK
  <1>3. ASSUME NEW tag \in {"OK", "ERROR", "FAIL"},
               line' = Append(line, Answer(tag, work)), esp' = "ready", payload' = payload
        PROVE  TypeOK'
    <2>1. Answer(tag, work) \in Token
      BY <1>2, AnswerIsToken DEF Tags
    <2>2. line' \in Seq(Token) /\ Len(line') = Len(line) + 1
      BY <1>2, <1>3, <2>1, AppendProperties
    <2>3. here' \in 0 .. Len(line')
      BY <1>1, <1>2, <2>2
    <2> QED BY <1>1, <1>3, <2>2, <2>3 DEF TypeOK, Token, NoAnswer
  <1>4. ASSUME line' = line \o <<Answer("OK", work), Answer(">", work)>>,
               esp' = "data", payload' = <<>>
        PROVE  TypeOK'
    <2> DEFINE two == <<Answer("OK", work), Answer(">", work)>>
    <2>1. Answer("OK", work) \in Token /\ Answer(">", work) \in Token
      BY <1>2, AnswerIsToken DEF Tags
    <2>2. two \in Seq(Token) /\ Len(two) = 2
      BY <2>1
    <2>3. line' \in Seq(Token) /\ Len(line') = Len(line) + 2
      <3> HIDE DEF two
      <3>1. line' = line \o two
        BY <1>4 DEF two
      <3>2. line \o two \in Seq(Token) /\ Len(line \o two) = Len(line) + Len(two)
        BY <1>2, <2>2, ConcatProperties
      <3> QED BY <2>2, <3>1, <3>2
    <2>4. here' \in 0 .. Len(line')
      BY <1>1, <1>2, <2>3
    <2>5. payload' \in Seq((1 .. cur') \X {"command", "payload"})
      BY <1>4
    <2> QED BY <1>1, <1>4, <2>3, <2>4, <2>5 DEF TypeOK, Token, NoAnswer
  <1> QED BY <1>3, <1>4 DEF AnswerCommand

LEMMA TypesTransmit ==
  ASSUME TypeOK, Transmit, esp \in {"data", "sending"} => work \in sends
  PROVE  TypeOK'
  <1>1. /\ esp = "sending" /\ esp' = "ready"
        /\ UNCHANGED <<pc, cur, sends, here, work, payload, last, quiet, late>>
    BY DEF Transmit
  <1>2. /\ line \in Seq(Token) /\ here \in Nat /\ here <= Len(line) /\ Len(line) \in Nat
        /\ work \in 0 .. MaxCalls
    BY CommandBounds, LenProperties DEF TypeOK
  <1>3. PICK tag \in {"SEND_OK", "ERROR"} : line' = Append(line, Answer(tag, work))
    BY DEF Transmit
  <1>4. Answer(tag, work) \in Token
    BY <1>2, AnswerIsToken DEF Tags
  <1>5. line' \in Seq(Token) /\ Len(line') = Len(line) + 1
    BY <1>2, <1>3, <1>4, AppendProperties
  <1>6. here' \in 0 .. Len(line')
    <2>1. here' = here /\ Len(line') = Len(line) + 1
      BY <1>1, <1>5
    <2>2. here' \in Nat /\ Len(line') \in Nat /\ here' <= Len(line')
      BY <1>2, <2>1
    <2> QED BY <2>2
  <1>7. \A d \in delivered' : d.of \in sends'
    <2> SUFFICES ASSUME NEW d \in delivered' PROVE d.of \in sends
      BY <1>1
    <2>1. CASE d \in delivered
      BY <2>1 DEF TypeOK
    <2>2. CASE d \notin delivered
      <3>1. d = [of |-> work, units |-> payload]
        BY <2>2 DEF Transmit
      <3> QED BY <1>1, <3>1
    <2> QED BY <2>1, <2>2
  <1> QED BY <1>1, <1>5, <1>6, <1>7 DEF TypeOK, Token, NoAnswer

LEMMA TypesArrive == ASSUME TypeOK, Arrive PROVE TypeOK'
  <1>1. /\ here < Len(line) /\ here' = here + 1
        /\ UNCHANGED <<pc, cur, sends, line, esp, work, payload, delivered, last, quiet, late>>
    BY DEF Arrive
  <1>2. here' \in 0 .. Len(line')
    BY <1>1, LenProperties DEF TypeOK
  <1> QED BY <1>1, <1>2 DEF TypeOK, Token, NoAnswer

-----------------------------------------------------------------------------
(* In step with the module, one action at a time.                          *)

LEMMA SendCmdInductive == IInv /\ sendCmd => IInv'
  <1> SUFFICES ASSUME IInv, sendCmd PROVE IInv'
    OBVIOUS
  <1>1. /\ pc = "idle" /\ pc' = "answer" /\ cur' = cur + 1 /\ quiet' = Quiet(Emptied)
        /\ Hear(cur + 1, "command", Emptied) /\ cur < MaxCalls
        /\ UNCHANGED <<sends, delivered, last, late>>
    BY DEF sendCmd
  <1>2. TypeOK /\ TypeOK'
    BY TypesSendCmd DEF IInv
  <1>3. cur + 1 \notin sends /\ cur + 1 # 0
    BY <1>1, <1>2, NewCall
  <1>4. esp' \in {"data", "sending"} => work' \in sends'
    BY <1>1 DEF IInv, Hear
  <1>5. quiet' => InStep'
    <2>1. quiet' => esp = "ready" /\ Emptied = <<>>
      BY <1>1 DEF Quiet
    <2>2. quiet' => esp' = "busy" /\ work' = cur' /\ line' = <<>>
      BY <1>1, <2>1 DEF Hear
    <2> QED BY <1>1, <1>3, <2>2 DEF InStep
  <1>6. InTime' => quiet'
    <2>1. InTime' => line = <<>> /\ esp = "ready"
      BY <1>1 DEF IInv, InTime
    <2> QED BY <1>1, <1>2, <2>1, EmptiedEmpty DEF Quiet
  <1>7. InTime' => \A d \in delivered' : d.units = << <<d.of, "payload">> >>
    BY <1>1 DEF IInv, InTime
  <1> QED BY <1>1, <1>2, <1>3, <1>4, <1>5, <1>6, <1>7 DEF IInv

LEMMA SendDataInductive == IInv /\ sendData => IInv'
  <1> SUFFICES ASSUME IInv, sendData PROVE IInv'
    OBVIOUS
  <1>1. /\ pc = "idle" /\ pc' = "prompt" /\ cur' = cur + 1 /\ quiet' = Quiet(line)
        /\ sends' = sends \cup {cur + 1}
        /\ Hear(cur + 1, "command", line) /\ cur < MaxCalls
        /\ UNCHANGED <<delivered, last, late>>
    BY DEF sendData
  <1>2. TypeOK /\ TypeOK'
    BY TypesSendData DEF IInv
  <1>3. cur' \in sends' /\ cur' # 0
    BY <1>1, <1>2, NewCall
  <1>4. esp' \in {"data", "sending"} => work' \in sends'
    BY <1>1 DEF IInv, Hear
  <1>5. quiet' => InStep'
    <2>1. quiet' => esp = "ready" /\ line = <<>>
      BY <1>1 DEF Quiet
    <2>2. quiet' => esp' = "busy" /\ work' = cur' /\ line' = <<>>
      BY <1>1, <2>1 DEF Hear
    <2> QED BY <1>1, <1>3, <2>2 DEF InStep
  <1>6. InTime' => quiet'
    BY <1>1 DEF IInv, InTime, Quiet
  <1>7. InTime' => \A d \in delivered' : d.units = << <<d.of, "payload">> >>
    BY <1>1 DEF IInv, InTime
  <1> QED BY <1>1, <1>2, <1>3, <1>4, <1>5, <1>6, <1>7 DEF IInv

(* A call in step passes over the OK before the prompt, and over an ERROR  *)
(* in its place.                                                           *)
LEMMA SkipInductive == IInv /\ skip => IInv'
  <1> SUFFICES ASSUME IInv, skip PROVE IInv'
    OBVIOUS
  <1>1. /\ here > 0 /\ line' = Tail(line)
        /\ \/ pc \in {"answer", "sent"} /\ Head(line).what \notin Tags
           \/ pc = "prompt" /\ Head(line).what # ">"
        /\ UNCHANGED <<pc, cur, sends, esp, work, payload, delivered, last, quiet, late>>
    BY DEF skip, Take
  <1>2. TypeOK /\ TypeOK'
    BY TypesSkip DEF IInv
  <1>3. line # <<>> /\ pc # "idle"
    BY <1>1, <1>2, EmptySeq DEF TypeOK
  <1>4. ASSUME InStep PROVE InStep'
    <2>1. ASSUME NEW tag \in Tags, line = <<Answer(tag, cur)>>, pc \in {"answer", "sent"}
          PROVE  FALSE
      <3>1. Head(line).what = tag
        BY <2>1, ShortLines, AnswerFields
      <3> QED BY <1>1, <2>1, <3>1
    <2>2. pc = "prompt"
      BY <1>3, <1>4, <2>1 DEF InStep, Tags
    <2>3. CASE line = <<Answer("ERROR", cur)>>
      BY <1>1, <1>4, <2>2, <2>3, ShortLines, AnswerFields DEF InStep
    <2>4. CASE line = <<Answer("OK", cur), Answer(">", cur)>>
      BY <1>1, <1>4, <2>2, <2>4, ShortLines, AnswerFields DEF InStep
    <2>5. CASE line = <<Answer(">", cur)>>
      BY <1>1, <2>2, <2>5, ShortLines, AnswerFields
    <2> QED BY <1>3, <1>4, <2>2, <2>3, <2>4, <2>5 DEF InStep
  <1> QED BY <1>1, <1>2, <1>3, <1>4 DEF IInv, InTime, Sent

(* The tag that ends a call in step is the call's own, and after a SEND OK *)
(* the payload is with the peer.                                           *)
LEMMA ReadTagInductive == IInv /\ readTag => IInv'
  <1> SUFFICES ASSUME IInv, readTag PROVE IInv'
    OBVIOUS
  <1>1. /\ here > 0 /\ line' = Tail(line) /\ last' = Head(line)
        /\ pc \in {"answer", "sent"} /\ pc' = "idle"
        /\ UNCHANGED <<cur, sends, esp, work, payload, delivered, quiet, late>>
    BY DEF readTag, Take
  <1>2. TypeOK /\ TypeOK'
    BY TypesReadTag DEF IInv
  <1>3. line # <<>>
    BY <1>1, <1>2, EmptySeq DEF TypeOK
  <1>4. ASSUME InStep
        PROVE  /\ last'.of = cur' /\ (last'.what = "SEND_OK" => Sent')
               /\ line' = <<>> /\ esp' = "ready"
    <2>1. PICK tag \in Tags : /\ line = <<Answer(tag, cur)>> /\ esp = "ready"
                              /\ tag = "SEND_OK" => Sent
      BY <1>1, <1>3, <1>4 DEF InStep, Tags
    <2>2. last' = Answer(tag, cur) /\ line' = <<>>
      BY <1>1, <2>1, ShortLines
    <2>3. last'.what = tag /\ last'.of = cur
      BY <2>2, AnswerFields
    <2>4. Sent' = Sent
      BY <1>1 DEF Sent
    <2> QED BY <1>1, <2>1, <2>2, <2>3, <2>4
  <1>5. quiet => InStep
    BY <1>1 DEF IInv
  <1>6. InTime => quiet
    BY <1>1 DEF IInv
  <1> QED BY <1>1, <1>2, <1>4, <1>5, <1>6 DEF IInv, InTime

(* The prompt of a call in step is answered with the call's payload.       *)
LEMMA WritePayloadInductive == IInv /\ writePayload => IInv'
  <1> SUFFICES ASSUME IInv, writePayload PROVE IInv'
    OBVIOUS
  <1>1. /\ here > 0 /\ pc = "prompt" /\ Head(line).what = ">" /\ pc' = "sent"
        /\ Hear(cur, "payload", Tail(line))
        /\ UNCHANGED <<cur, sends, delivered, last, quiet, late>>
    BY DEF writePayload
  <1>2. TypeOK /\ cur \in sends /\ cur # 0
    BY <1>1 DEF IInv
  <1>3. TypeOK'
    BY <1>2, TypesWritePayload
  <1>4. line # <<>>
    BY <1>1, <1>2, EmptySeq DEF TypeOK
  <1>5. esp' \in {"data", "sending"} => work' \in sends'
    BY <1>1, <1>2 DEF IInv, Hear
  <1>6. ASSUME InStep PROVE InStep'
    <2>1. line \notin {<<>>, <<Answer("ERROR", cur)>>, <<Answer("OK", cur), Answer(">", cur)>>}
      <3>1. ASSUME NEW tag \in {"ERROR", "OK"}, NEW rest,
                   line \in {<<Answer(tag, cur)>>, <<Answer(tag, cur), rest>>}
            PROVE  FALSE
        <4>1. Head(line).what = tag
          BY <3>1, ShortLines, AnswerFields
        <4> QED BY <1>1, <4>1
      <3> QED BY <1>4, <3>1
    <2>2. esp = "data" /\ work = cur /\ payload = <<>> /\ line = <<Answer(">", cur)>>
      BY <1>1, <1>4, <1>6, <2>1 DEF InStep
    <2>3. Tail(line) = <<>>
      BY <2>2, ShortLines
    <2>4. esp' = "sending" /\ work' = cur /\ line' = <<>>
          /\ payload' = Append(<<>>, <<cur, "payload">>)
      BY <1>1, <2>2, <2>3 DEF Hear
    <2>5. payload' = << <<cur, "payload">> >>
      BY <2>4, ShortLines
    <2> QED BY <1>1, <1>2, <2>4, <2>5 DEF InStep
  <1> QED BY <1>1, <1>2, <1>3, <1>5, <1>6 DEF IInv, InTime

(* While no answer has been late a wait ends only where the module has     *)
(* answered the command line with ERROR and no prompt will come.           *)
LEMMA TimeoutInductive == IInv /\ timeout => IInv'
  <1> SUFFICES ASSUME IInv, timeout PROVE IInv'
    OBVIOUS
  <1>1. /\ pc # "idle" /\ last' = NoAnswer /\ pc' = "idle"
        /\ UNCHANGED <<cur, sends, line, here, esp, work, payload, delivered, quiet>>
    BY DEF timeout
  <1>2. TypeOK /\ TypeOK' /\ cur # 0
    BY <1>1, TypesTimeout DEF IInv
  <1>3. ASSUME InTime' PROVE InTime /\ line' = <<>> /\ esp' = "ready"
    <2>1. InTime /\ line = <<>> /\ esp \in {"ready", "data"}
      BY <1>2, <1>3 DEF InTime, timeout, TypeOK
    <2>2. InStep
      BY <1>1, <1>2, <2>1 DEF IInv
    <2>3. esp # "data"
      BY <2>1, <2>2 DEF InStep
    <2> QED BY <1>1, <2>1, <2>3
  <1> QED BY <1>1, <1>2, <1>3 DEF IInv

LEMMA AnswerCommandInductive == IInv /\ AnswerCommand => IInv'
  <1> SUFFICES ASSUME IInv, AnswerCommand PROVE IInv'
    OBVIOUS
  <1>1. /\ esp = "busy"
        /\ UNCHANGED <<pc, cur, sends, here, work, delivered, last, quiet, late>>
    BY DEF AnswerCommand
  <1>2. TypeOK /\ TypeOK'
    BY TypesAnswerCommand DEF IInv
  <1>3. esp' \in {"data", "sending"} => work' \in sends'
    BY <1>1 DEF AnswerCommand
  <1>4. ASSUME InStep PROVE InStep'
    <2>1. work = cur /\ line = <<>>
      BY <1>1, <1>4 DEF InStep
    <2>2. ASSUME NEW tag \in {"OK", "ERROR", "FAIL"}, work \notin sends \/ tag = "ERROR",
                 line' = Append(line, Answer(tag, work)), esp' = "ready"
          PROVE  InStep'
      <3>1. line' = <<Answer(tag, cur)>>
        BY <2>1, <2>2, ShortLines
      <3>2. \/ pc = "answer" /\ cur \notin sends
            \/ pc = "prompt" /\ cur \in sends
        BY <1>1, <1>4 DEF InStep
      <3>3. CASE pc = "answer" /\ cur \notin sends
        BY <1>1, <2>2, <3>1, <3>3 DEF InStep, Answer
      <3>4. CASE pc = "prompt" /\ cur \in sends
        BY <1>1, <2>1, <2>2, <3>1, <3>4 DEF InStep, Answer
      <3> QED BY <3>2, <3>3, <3>4
    <2>3. ASSUME work \in sends, line' = line \o <<Answer("OK", work), Answer(">", work)>>,
                 esp' = "data", payload' = <<>>
          PROVE  InStep'
      <3>1. line' = <<Answer("OK", cur), Answer(">", cur)>>
        BY <2>1, <2>3, ShortLines
      <3>2. pc = "prompt" /\ cur \in sends
        BY <1>1, <1>4, <2>1, <2>3 DEF InStep
      <3> QED BY <1>1, <2>1, <2>3, <3>1, <3>2 DEF InStep, Answer
    <2> QED BY <2>2, <2>3 DEF AnswerCommand
  <1>5. ~(InTime /\ pc = "idle")
    BY <1>1 DEF IInv
  <1> QED BY <1>1, <1>2, <1>3, <1>4, <1>5 DEF IInv, InTime, Sent

(* The module transmits what it has taken as the payload and says so.      *)
LEMMA TransmitInductive == IInv /\ Transmit => IInv'
  <1> SUFFICES ASSUME IInv, Transmit PROVE IInv'
    OBVIOUS
  <1>1. /\ esp = "sending" /\ esp' = "ready"
        /\ UNCHANGED <<pc, cur, sends, here, work, payload, last, quiet, late>>
    BY DEF Transmit
  <1>2. TypeOK /\ TypeOK'
    BY TypesTransmit DEF IInv
  <1>3. delivered \subseteq delivered' /\ (Sent => Sent')
    BY <1>1 DEF Transmit, Sent
  <1>4. ASSUME InStep
        PROVE  /\ InStep'
               /\ \A d \in delivered' \ delivered : d.units = << <<d.of, "payload">> >>
    <2>1. /\ pc = "sent" /\ cur \in sends /\ work = cur /\ line = <<>>
          /\ payload = << <<cur, "payload">> >>
      BY <1>1, <1>4 DEF InStep
    <2> DEFINE d0 == [of |-> cur, units |-> << <<cur, "payload">> >>]
    <2>2. \/ line' = Append(<<>>, Answer("SEND_OK", cur)) /\ delivered' = delivered \cup {d0}
          \/ line' = Append(<<>>, Answer("ERROR", cur)) /\ delivered' = delivered
      BY <2>1 DEF Transmit
    <2>3. \/ line' = <<Answer("SEND_OK", cur)>> /\ Sent'
          \/ line' = <<Answer("ERROR", cur)>>
      BY <1>1, <2>2, ShortLines DEF Sent
    <2>4. InStep'
      BY <1>1, <2>1, <2>3 DEF InStep, Answer
    <2>5. d0.units = << <<d0.of, "payload">> >>
      OBVIOUS
    <2>6. delivered' \ delivered \subseteq {d0}
      BY <2>2
    <2> QED BY <2>4, <2>5, <2>6
  <1>5. ~(InTime /\ pc = "idle")
    BY <1>1 DEF IInv
  <1>6. esp' \notin {"data", "sending"} /\ cur' = cur /\ sends' = sends
    BY <1>1
  <1>7. pc' # "idle" => cur' # 0 /\ (pc' = "prompt" => cur' \in sends')
    BY <1>1 DEF IInv
  <1>8. (quiet' /\ pc' # "idle") => InStep'
    BY <1>1, <1>4 DEF IInv
  <1>9. (quiet' /\ pc' = "idle" /\ last' # NoAnswer) =>
          last'.of = cur' /\ (last'.what = "SEND_OK" => Sent')
    BY <1>1, <1>3 DEF IInv
  <1>10. InTime' => /\ InTime /\ (cur' = 0 \/ quiet')
                    /\ (pc' = "idle" => line' = <<>> /\ esp' = "ready")
                    /\ \A d \in delivered' : d.units = << <<d.of, "payload">> >>
    <2> SUFFICES ASSUME InTime' PROVE /\ cur' = 0 \/ quiet'
                                      /\ \A d \in delivered' : d.units = << <<d.of, "payload">> >>
      BY <1>1, <1>5 DEF InTime
    <2>1. InTime
      BY <1>1 DEF InTime
    <2>2. pc # "idle" /\ quiet
      BY <1>5, <2>1 DEF IInv
    <2>3. InStep
      BY <2>2 DEF IInv
    <2> QED BY <1>1, <1>4, <2>1, <2>2, <2>3 DEF IInv
  <1> QED BY <1>2, <1>6, <1>7, <1>8, <1>9, <1>10 DEF IInv, NoAnswer

LEMMA ArriveInductive == IInv /\ Arrive => IInv'
  <1> SUFFICES ASSUME IInv, Arrive PROVE IInv'
    OBVIOUS
  <1>1. UNCHANGED <<pc, cur, sends, line, esp, work, payload, delivered, last, quiet, late>>
    BY DEF Arrive
  <1>2. TypeOK'
    BY TypesArrive DEF IInv
  <1>3. InStep' = InStep /\ Sent' = Sent
    BY <1>1 DEF InStep, Sent
  <1> QED BY <1>1, <1>2, <1>3 DEF IInv, InTime

-----------------------------------------------------------------------------

LEMMA InitIInv == Init => IInv
  <1> SUFFICES ASSUME Init PROVE IInv
    OBVIOUS
  <1>1. line \in Seq(Token) /\ Len(line) = 0
    BY DEF Init
  <1>2. payload \in Seq((1 .. cur) \X {"command", "payload"})
    BY DEF Init
  <1>3. cur \in 0 .. MaxCalls /\ late \in 0 .. MaxLate /\ work \in 0 .. cur
    BY CommandBounds DEF Init
  <1>4. here \in 0 .. Len(line)
    BY <1>1 DEF Init
  <1>5. TypeOK
    BY <1>1, <1>2, <1>3, <1>4 DEF Init, TypeOK
  <1> QED BY <1>5 DEF Init, IInv, InTime

LEMMA StepIInv == IInv /\ [Next]_vars => IInv'
  <1> SUFFICES ASSUME IInv, [Next]_vars PROVE IInv'
    OBVIOUS
  <1>1. CASE UNCHANGED vars
    BY <1>1 DEF vars, IInv, TypeOK, InStep, Sent, InTime, Token, NoAnswer
  <1> QED BY <1>1, SendCmdInductive, SendDataInductive, SkipInductive, ReadTagInductive,
             WritePayloadInductive, TimeoutInductive, AnswerCommandInductive,
             TransmitInductive, ArriveInductive DEF Next, Driver, Module

(* In every reachable state a call that began quiet goes in step with the  *)
(* module, and while no answer has been late every call begins quiet.      *)
THEOREM Inductive == Spec => []IInv
  BY InitIInv, StepIInv, PTL DEF Spec

(* The variables keep their types (EspDrv.cpp sendCmd, sendData).          *)
THEOREM TypeCorrect == Spec => []TypeOK
  <1>1. IInv => TypeOK
    BY DEF IInv
  <1> QED BY <1>1, Inductive, PTL

(* Whatever came late before, a call given to a quiet module returns its   *)
(* own answer (espEmptyBuf in sendCmd).                                    *)
THEOREM QuietCalls == Spec => []QuietCallOwnAnswer
  <1>1. IInv => QuietCallOwnAnswer
    BY DEF IInv, QuietCallOwnAnswer, Ended
  <1> QED BY <1>1, Inductive, PTL

(* While no answer has been late the first tag read is the call's own      *)
(* (sendCmd, sendData).                                                    *)
THEOREM Answers == Spec => []OwnAnswer
  <1>1. IInv => OwnAnswer
    BY CommandBounds DEF IInv, OwnAnswer, Ended, TypeOK
  <1> QED BY <1>1, Inductive, PTL

(* While no prompt has been late the peer gets each payload as written     *)
(* (sendData).                                                             *)
THEOREM Payloads == Spec => []PayloadIntact
  <1>1. IInv => PayloadIntact
    BY DEF IInv, PayloadIntact
  <1> QED BY <1>1, Inductive, PTL

(* A true from sendData means that the payload is with the peer.           *)
THEOREM Written == Spec => []WrittenIsSent
  <1>1. IInv => WrittenIsSent
    <2> SUFFICES ASSUME IInv, InTime, Ended, last.what = "SEND_OK"
                 PROVE  \E d \in delivered : /\ d.of = cur
                          /\ <<cur, "payload">> \in {d.units[i] : i \in DOMAIN d.units}
      BY DEF WrittenIsSent
    <2>1. last # NoAnswer
      BY DEF NoAnswer, Answer
    <2>2. cur > 0 /\ pc = "idle" /\ cur # 0
      BY CommandBounds DEF Ended, IInv, TypeOK
    <2>3. Sent
      BY <2>1, <2>2 DEF IInv
    <2> DEFINE d == [of |-> cur, units |-> << <<cur, "payload">> >>]
    <2>4. d.of = cur /\ d.units[1] = <<cur, "payload">> /\ 1 \in DOMAIN d.units
      OBVIOUS
    <2> QED BY <2>3, <2>4 DEF Sent
  <1> QED BY <1>1, Inductive, PTL
=============================================================================
