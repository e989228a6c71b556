----------------------------- MODULE EspReadUntil -----------------------------
(***************************************************************************)
(* Reading an answer character by character (EspDrv.cpp 972-1143):         *)
(* readUntil pushes what it reads into the ring buffer until the buffer    *)
(* ends with a tag; sendCmd reads one answer that way, sendCmdGet reads up *)
(* to a start tag, then up to an end tag, and copies what lies between to  *)
(* the caller's buffer.                                                    *)
(*                                                                         *)
(* The line end "\r\n" is one character here and the tags are short; what  *)
(* is kept is that ESPTAGS begin and end with the line end, as all but the *)
(* last, " CONNECT", do; no answer read here ends with that one.  The      *)
(* module's answer to a command is drawn from Replies; a wait may time out *)
(* anywhere in it.                                                         *)
(***************************************************************************)
EXTENDS EspRingBuffer

CONSTANTS ESPTAGS,     \* the tags that end an answer, in the order tried
          StartTag, EndTag,
          Replies,     \* the answers, as sequences of characters
          OutLen,      \* length of the caller's buffer
          MaxCalls     \* bound: commands given

IsTag(str) == str \in Seq(Letter) /\ Len(str) \in 1 .. Size

ASSUME TagsAssumption ==
  /\ ESPTAGS \in Seq(Seq(Letter)) /\ \A i \in DOMAIN ESPTAGS : IsTag(ESPTAGS[i])
  /\ IsTag(StartTag) /\ IsTag(EndTag)
ASSUME OutLenAssumption == OutLen \in 1 .. Size + 1
ASSUME MaxCallsAssumption == MaxCalls \in Nat

(* The module answers in text, and no answer begins with the last part of  *)
(* the start tag: what reset leaves in the ring buffer could be taken for  *)
(* its first part.  The answers to the commands given to sendCmdGet begin  *)
(* with a "+", or with "STATUS", "AT version" (EspDrv.cpp 350-621).        *)
ASSUME RepliesAssumption ==
  \A r \in Replies :
    /\ r \in Seq(Letter)
    /\ \A n \in 1 .. Len(StartTag) - 1 :
         n <= Len(r) => \E i \in 1 .. n : r[i] # StartTag[Len(StartTag) - n + i]

VARIABLES pc,          \* "idle", or what is being read
          input,       \* the characters of the answer not yet read
          reply,       \* history: the whole answer
          out,         \* the caller's buffer
          ret,         \* the tag at which the last readUntil ended
          got,         \* what the last sendCmdGet returned
          fresh,       \* history: the caller cleared its buffer before the call
          calls

vars == <<ringVars, pc, input, reply, out, ret, got, fresh, calls>>

NoTag == <<>>                       \* readUntil's -1
NoReply == <<>>

(* The tag that readUntil looks for in each place, besides ESPTAGS. *)
tagOf(p) == CASE p = "start" -> <<StartTag>> [] p = "end" -> <<EndTag>>
              [] OTHER -> <<>>

(* A slip in readUntil: ESPTAGS are not looked for while a tag is. *)
Matches_TagOnly(p) ==
  LET all == IF tagOf(p) = <<>> THEN ESPTAGS ELSE tagOf(p)
      hits == {i \in DOMAIN all : endsWith(all[i])}
  IN  IF hits = {} THEN NoTag
      ELSE all[CHOOSE i \in hits : \A j \in hits : i <= j]

(* The first of ESPTAGS counts before the tag asked for: it overwrites ret.*)
Matches(p) ==
  LET all == ESPTAGS \o tagOf(p)
      hits == {i \in DOMAIN all : endsWith(all[i])}
  IN  IF hits = {} THEN NoTag
      ELSE all[CHOOSE i \in hits : \A j \in hits : i <= j]

-----------------------------------------------------------------------------
RInit == /\ Init
         /\ pc = "idle" /\ input = <<>> /\ reply = NoReply
         /\ out = [i \in 1 .. OutLen |-> NUL]
         /\ ret = NoTag /\ got = FALSE /\ fresh = FALSE /\ calls = 0

(* espEmptyBuf, the command, and the start of the first readUntil. *)
Command(p, r) ==
  /\ pc = "idle" /\ calls < MaxCalls
  /\ calls' = calls + 1
  /\ reply' = r /\ input' = r
  /\ reset
  /\ pc' = p
  /\ ret' = NoTag /\ got' = FALSE

sendCmd(r) == Command("cmd", r) /\ UNCHANGED <<out, fresh>>

(* The caller's buffer is a cleared one, or holds what an earlier call left*)
sendCmdGet(r, cleared) ==
  /\ Command("start", r)
  /\ out' = [i \in 1 .. OutLen |-> IF i = 1 \/ cleared THEN NUL ELSE out[i]]
  /\ fresh' = cleared

Reading == pc \in {"cmd", "start", "end", "rest"}

(* Where the program goes when readUntil returns t from place p. *)
After(p, t) ==
  CASE p = "start" /\ t = StartTag -> "clear"
    [] p = "end" /\ t = EndTag -> "copy"
    [] OTHER -> "idle"

(* One turn of readUntil's loop. *)
readChar ==
  /\ Reading /\ input # <<>>
  /\ push(Head(input))
  /\ input' = Tail(input)
  /\ \E p \in {pc} : ret' = Matches(p)'       \* in the buffer after the push
  /\ pc' = IF ret' = NoTag THEN pc ELSE After(pc, ret')
  /\ got' = (got \/ (pc = "rest" /\ ret' # NoTag))
  /\ UNCHANGED <<reply, out, fresh, calls>>

(* A wait may end at any time, with the rest of the answer still to come. *)
timeout ==
  /\ Reading
  /\ pc' = "idle" /\ ret' = NoTag
  /\ got' = (pc = "rest")
  /\ UNCHANGED <<ringVars, input, reply, out, fresh, calls>>

(* A slip in sendCmdGet: the ring buffer is not cleared, only restarted. *)
clearRing_Reset == /\ pc = "clear"
                   /\ reset
                   /\ pc' = "end"
                   /\ UNCHANGED <<input, reply, out, ret, got, fresh, calls>>

(* sendCmdGet between its first two waits: the ring buffer is cleared. *)
clearRing == /\ pc = "clear"
             /\ init
             /\ pc' = "end"
             /\ UNCHANGED <<input, reply, out, ret, got, fresh, calls>>

(* The string is copied, and the rest of the answer is read. *)
copyOut == /\ pc = "copy"
           /\ out' = getStrN(out, Len(EndTag), OutLen - 1)
           /\ reset
           /\ pc' = "rest"
           /\ UNCHANGED <<input, reply, ret, got, fresh, calls>>

RNext == \/ \E r \in Replies : sendCmd(r) \/ \E f \in BOOLEAN : sendCmdGet(r, f)
         \/ readChar \/ timeout \/ clearRing \/ copyOut

RSpec == RInit /\ [][RNext]_vars

-----------------------------------------------------------------------------
RTypeOK == /\ TypeOK
           /\ pc \in {"idle", "cmd", "start", "clear", "end", "copy", "rest"}
           /\ reply \in Replies \cup {NoReply} /\ input \in Seq(Letter)
           /\ out \in [1 .. OutLen -> Char]
           /\ got \in BOOLEAN /\ fresh \in BOOLEAN /\ calls \in 0 .. MaxCalls

(* Tag t ends at the k-th character of s. *)
EndsAt(s, t, k) == /\ Len(t) <= k
                   /\ \A i \in 1 .. Len(t) : s[k - Len(t) + i] = t[i]

(* While readUntil waits, none of the tags it waits for has gone by, across*)
(* every wrap of the ring buffer.                                          *)
NoTagGoesBy ==
  Reading =>
    \A i \in DOMAIN (ESPTAGS \o tagOf(pc)), k \in 1 .. Len(pushed) :
      ~EndsAt(pushed, (ESPTAGS \o tagOf(pc))[i], k)

(* Where tag t first ends in the answer, if it starts after character n. *)
FirstEnd(t, n, k) ==
  /\ k \in n + Len(t) .. Len(reply) /\ EndsAt(reply, t, k)
  /\ \A j \in n + Len(t) .. k - 1 : ~EndsAt(reply, t, j)

(* The string between the start tag that begins after n characters and the *)
(* first end tag after it.                                                 *)
Between(s, e) == SubSeq(reply, s + 1, e - Len(EndTag))

(* The string a C caller sees in its buffer. *)
CString ==
  LET stops == {i \in 1 .. OutLen : out[i] = NUL}
      n == IF stops = {} THEN OutLen
           ELSE (CHOOSE i \in stops : \A j \in stops : i <= j) - 1
  IN  SubSeq(out, 1, n)

Cut(s, n) == SubSeq(s, 1, IF Len(s) < n THEN Len(s) ELSE n)

(* A buffer that was cleared gets the string between the first start tag   *)
(* of the answer and the first end tag after it, cut to what fits before   *)
(* the terminator, when string and end tag are shorter than the ring       *)
(* buffer (comment of sendCmdGet, EspDrv.cpp 969).                         *)
Extracted ==
  (got /\ fresh) =>
    \E s, e \in 0 .. Len(reply) :
      /\ FirstEnd(StartTag, 0, s) /\ FirstEnd(EndTag, s, e)
      /\ e - s < Size => CString = Cut(Between(s, e), OutLen - 1)

-----------------------------------------------------------------------------
(* Why these hold.                                                         *)

(* How much of the answer has been read, and how much of it had been read  *)
(* when the ring buffer was last restarted.                                *)
Read == Len(reply) - Len(input)
From == Read - Len(pushed)

(* What is to be read is the end of the answer; the ring buffer was given  *)
(* what was read since the restart.                                        *)
Position ==
  /\ 0 <= From
  /\ \A i \in 1 .. Len(input) : input[i] = reply[Read + i]
  /\ \A i \in 1 .. Len(pushed) : pushed[i] = reply[From + i]

(* The tags that have been found when sendCmdGet is in each place. *)
Found ==
  /\ pc = "start" => From = 0
  /\ pc = "clear" => FirstEnd(StartTag, 0, Read)
  /\ pc = "end" => clean /\ FirstEnd(StartTag, 0, From)
  /\ pc = "copy" => FirstEnd(StartTag, 0, From) /\ FirstEnd(EndTag, From, Read)

Copying ==
  /\ (fresh /\ pc \in {"start", "clear", "end", "copy"}) => \A i \in 1 .. OutLen : out[i] = NUL
  /\ (fresh /\ (got \/ pc = "rest")) =>
       \E s, e \in 0 .. Len(reply) :
         /\ FirstEnd(StartTag, 0, s) /\ FirstEnd(EndTag, s, e)
         /\ e - s < Size => CString = Cut(Between(s, e), OutLen - 1)

(* The inductive invariant: what the ring buffer was given is a part of    *)
(* the answer, and each place of sendCmdGet has found its tags, the first  *)
(* of their kind.                                                          *)
RInv == RTypeOK /\ IInv /\ NoTagGoesBy /\ Position /\ Found /\ Copying
=============================================================================
