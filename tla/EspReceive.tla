------------------------------ MODULE EspReceive ------------------------------
(***************************************************************************)
(* The receive path: how the payload of all the links, the closing notices *)
(* and the answers to commands, which the ESP module sends on one serial   *)
(* line, reach the client and UDP objects (EspDrv.cpp 705-849,             *)
(* WiFiEspClient.cpp 138-256, WiFiEspServer.cpp 60-74, WiFiEspUdp.cpp      *)
(* 53-64, 114-163).                                                        *)
(*                                                                         *)
(* The line is a sequence of tokens; the first `here` of them have arrived *)
(* in the UART's buffer, the others are in flight.  A token is             *)
(*   hdr     "+IPD,<link>,<len>,<ip>,<port>:"  with len as its rest; n, the*)
(*           last byte of the packet, stands for who has sent it           *)
(*   byte    one byte of payload, the n-th of its link; rest counts the    *)
(*           bytes of its packet that follow it                            *)
(*   closed  "<link>,CLOSED"                                               *)
(*   answer  the answer to a command; n = 1 if the link asked about is open*)
(*   text    what is left of one of these after a part was read as payload *)
(* The driver reads in steps of a token, the module and the line move      *)
(* between any two of them.  A wait times out only when nothing is in      *)
(* flight: the timeouts are 1 s and more, a token takes milliseconds.      *)
(***************************************************************************)
EXTENDS Integers, Sequences, FiniteSets

CONSTANTS Links,       \* link numbers in use, some of 0 .. 4
          UdpLinks,    \* those of UDP objects, the others are of clients
          RxSize,      \* tokens the UART's buffer holds
          MaxPackets,  \* bound: packets the module forwards
          MaxLen,      \* bound: bytes of a packet
          DrainFirst,  \* the sketch reads a packet to its end before it turns
                       \* to another socket or gives a command
          Ops          \* the calls the sketch makes

ASSUME LinksAssumption == Links \subseteq Nat /\ UdpLinks \subseteq Links
ASSUME RxSizeAssumption == RxSize \in Nat \ {0}
ASSUME BoundsAssumption == MaxPackets \in Nat /\ MaxLen \in Nat \ {0}
ASSUME DrainFirstAssumption == DrainFirst \in BOOLEAN

VARIABLES line, here,      \* the serial line, and how much of it has arrived
          open, sent,      \* the module: open links, bytes forwarded per link
          ends,            \* the module: the last bytes of the packets forwarded
          asked,           \* the module: it owes an answer
          lost,            \* history: the UART's buffer overflowed
          connId, bufPos,  \* EspDrv::_connId, EspDrv::_bufPos
          remote,          \* EspDrv::_remoteIp, _remotePort: whose packet
          live,            \* the links whose client object holds its socket
          pc, call,        \* the driver: where it is, and in which call
          val, want, buf,  \* locals: byte read; getDataBuf's loop and buffer
          got,             \* history: what the reads on each link returned
          ret              \* what the last call returned

lineVars == <<line, here>>
espVars == <<open, sent, ends, asked, lost>>
drvVars == <<connId, bufPos, remote>>
locals == <<val, want, buf>>
vars == <<lineVars, espVars, drvVars, live, pc, call, locals, got, ret>>

Token(kind, link, n, rest) ==
  [kind |-> kind, link |-> link, n |-> n, rest |-> rest]

None == -1

Byte(l, n) == <<l, n>>          \* a byte of payload, as the sketch gets it
Junk == <<None, 0>>             \* a character of protocol text
Unset == <<None, 3>>            \* an uninitialised local
Zero == <<None, 1>>             \* the 0 of a read that timed out
NoByte == <<None, 2>>           \* the -1 of a read that found nothing

NoRet == [op |-> "none", sock |-> 0, value |-> None]
Returned == ret.value           \* of the call that ended last

-----------------------------------------------------------------------------
(* The module and the line.                                                *)

(* The next len bytes of link l, behind their header. *)
PacketOf(l, len) ==
  [i \in 1 .. len + 1 |-> IF i = 1 THEN Token("hdr", l, sent[l] + len, len)
                          ELSE Token("byte", l, sent[l] + i - 1, len + 1 - i)]

Packet(l, len) ==
  /\ l \in open /\ Cardinality(ends) < MaxPackets
  /\ line' = line \o PacketOf(l, len)
  /\ sent' = [sent EXCEPT ![l] = @ + len]
  /\ ends' = ends \cup {Byte(l, sent[l] + len)}
  /\ UNCHANGED <<here, open, asked, lost, drvVars, live, pc, call, locals, got, ret>>

(* The peer closes the connection. *)
PeerCloses(l) ==
  /\ l \in open \ UdpLinks
  /\ open' = open \ {l}
  /\ line' = Append(line, Token("closed", l, 0, 0))
  /\ UNCHANGED <<here, sent, ends, asked, lost, drvVars, live, pc, call,
                 locals, got, ret>>

(* The module answers the command; stop closes the link first. *)
Answer ==
  LET l == call.sock
      stopped == call.op = "stop" /\ l \in open
      notice == IF stopped THEN <<Token("closed", l, 0, 0)>> ELSE <<>>
      isOpen == IF l \in open THEN 1 ELSE 0
  IN  /\ asked
      /\ asked' = FALSE
      /\ open' = IF stopped THEN open \ {l} ELSE open
      /\ line' = line \o notice \o <<Token("answer", l, isOpen, 0)>>
      /\ UNCHANGED <<here, sent, ends, lost, drvVars, live, pc, call, locals,
                     got, ret>>

(* A token arrives; one that finds the UART's buffer full is lost. *)
Arrive ==
  /\ here < Len(line)
  /\ IF here < RxSize
       THEN here' = here + 1 /\ UNCHANGED <<line, lost>>
       ELSE /\ lost' = TRUE
            /\ line' = SubSeq(line, 1, here) \o SubSeq(line, here + 2, Len(line))
            /\ UNCHANGED here
  /\ UNCHANGED <<open, sent, ends, asked, drvVars, live, pc, call, locals, got,
                 ret>>

Silent == line = <<>> /\ ~asked

-----------------------------------------------------------------------------
(* Taking from the line.                                                   *)

Pop == line' = Tail(line) /\ here' = here - 1

(* One character as payload.  Of a token that is more than one character a *)
(* part stays.                                                             *)
PopChar ==
  LET t == Head(line)
  IN  \/ t.kind \in {"byte", "text"} /\ Pop
      \/ /\ t.kind # "byte"
         /\ line' = <<Token("text", t.link, 0, 0)>> \o Tail(line)
         /\ UNCHANGED here

HeadChar ==
  IF Head(line).kind = "byte" THEN Byte(Head(line).link, Head(line).n) ELSE Junk

Return(v) == /\ pc' = "idle"
             /\ ret' = [op |-> call.op, sock |-> call.sock, value |-> v]

-----------------------------------------------------------------------------
(* The calls of the sketch.                                                *)

ReadOps == {"available", "read", "readBuf", "peek", "flush"}
UdpOps == {"available", "read", "readBuf", "udpPeek", "send"}
AllOps == ReadOps \cup UdpOps \cup {"accept", "write", "stop", "status"}

ASSUME OpsAssumption == Ops \subseteq AllOps

Call(op, l) ==
  /\ pc = "idle" /\ l \in live
  /\ op \in IF l \in UdpLinks THEN UdpOps ELSE AllOps \ {"udpPeek", "send"}
  /\ DrainFirst => bufPos = 0 \/ (connId = l /\ op \in ReadOps \cup {"udpPeek"})
  /\ call' = [op |-> op, sock |-> l]
  /\ pc' = IF op \in {"write", "stop", "send"} THEN "cmd" ELSE "avail"
  /\ ret' = NoRet
  /\ UNCHANGED <<lineVars, espVars, drvVars, live, locals, got>>

(* WiFiEspServer::available looks for data of any link: availData(0). *)
Accept ==
  /\ pc = "idle"
  /\ DrainFirst => bufPos = 0
  /\ call' = [op |-> "accept", sock |-> 0]
  /\ pc' = "avail"
  /\ ret' = NoRet
  /\ UNCHANGED <<lineVars, espVars, drvVars, live, locals, got>>

(* What the caller of availData does with its result: n bytes, of link id. *)
AvailDone(n, id) ==
  \/ call.op = "available" /\ Return(n) /\ UNCHANGED live
  \/ /\ call.op = "accept"
     /\ Return(IF n > 0 THEN id ELSE None)
     /\ live' = IF n > 0 THEN live \cup {id} ELSE live
  \/ call.op = "status" /\ n > 0 /\ Return("established") /\ UNCHANGED live
  \/ call.op = "status" /\ n = 0 /\ pc' = "cmd" /\ UNCHANGED <<ret, live>>
  \/ /\ call.op \in {"read", "peek", "flush", "udpPeek"} /\ n = 0
     /\ Return(NoByte) /\ UNCHANGED live
  \/ call.op = "udpPeek" /\ n > 0 /\ Return(Unset) /\ UNCHANGED live
  \/ call.op = "readBuf" /\ n = 0 /\ Return(None) /\ UNCHANGED live
  \/ call.op = "readBuf" /\ n > 0 /\ pc' = "buf" /\ UNCHANGED <<ret, live>>
  \/ /\ call.op \in {"read", "peek", "flush"} /\ n > 0
     /\ pc' = "data" /\ UNCHANGED <<ret, live>>

(* availData answers from _bufPos (lines 710-716). *)
Buffered == bufPos > 0 /\ (connId = call.sock \/ connId = 0)

AvailBuffered ==
  /\ pc = "avail" /\ Buffered
  /\ AvailDone(bufPos, connId)
  /\ UNCHANGED <<lineVars, espVars, drvVars, call, locals, got>>

AvailNothing ==
  /\ pc = "avail" /\ ~Buffered /\ here = 0
  /\ AvailDone(0, connId)
  /\ UNCHANGED <<lineVars, espVars, drvVars, call, locals, got>>

(* find("+IPD,"): whatever is not a header is thrown away. *)
FindSkip ==
  /\ pc = "find" \/ (pc = "avail" /\ ~Buffered)
  /\ here > 0 /\ Head(line).kind # "hdr"
  /\ Pop
  /\ pc' = "find"
  /\ UNCHANGED <<espVars, drvVars, live, call, locals, got, ret>>

(* A slip in availData: the sender is read only for the socket asked for. *)
FindHeader_OwnRemote ==
  LET t == Head(line)
  IN  /\ pc = "find" \/ (pc = "avail" /\ ~Buffered)
      /\ here > 0 /\ t.kind = "hdr"
      /\ Pop
      /\ connId' = t.link
      /\ bufPos' = t.rest
      /\ remote' = IF t.link = call.sock THEN <<t.link, t.n>> ELSE remote
      /\ AvailDone(IF t.link = call.sock \/ call.sock = 0 THEN t.rest ELSE 0,
                   t.link)
      /\ UNCHANGED <<espVars, call, locals, got>>

FindHeader ==
  LET t == Head(line)
  IN  /\ pc = "find" \/ (pc = "avail" /\ ~Buffered)
      /\ here > 0 /\ t.kind = "hdr"
      /\ Pop
      /\ connId' = t.link
      /\ bufPos' = t.rest
      /\ remote' = <<t.link, t.n>>
      /\ AvailDone(IF t.link = call.sock \/ call.sock = 0 THEN t.rest ELSE 0,
                   t.link)
      /\ UNCHANGED <<espVars, call, locals, got>>

FindTimeout ==
  /\ pc = "find" /\ Silent
  /\ AvailDone(0, connId)
  /\ UNCHANGED <<lineVars, espVars, drvVars, call, locals, got>>

-----------------------------------------------------------------------------
(* getData, and what read, peek and flush do with it.                      *)

(* The caller gets a byte.  flush goes round its loop again. *)
DataDone(v) ==
  /\ got' = IF call.op = "peek" THEN got
            ELSE [got EXCEPT ![call.sock] = Append(@, v)]
  /\ IF call.op = "flush" THEN pc' = "avail" /\ UNCHANGED ret ELSE Return(v)

(* Bound: bytes that were not set, one behind the other, are recorded once.*)
Repeated(v) ==
  LET d == got[call.sock] IN v = Unset /\ d # <<>> /\ d[Len(d)] = Unset

(* getData has failed and left v in the caller's byte: a client returns it,*)
(* the read of a UDP object -1.                                            *)
DataFailed(v) ==
  IF call.sock \in UdpLinks THEN Return(NoByte) /\ UNCHANGED got
  ELSE IF Repeated(v) THEN Return(v) /\ UNCHANGED got
  ELSE DataDone(v)

(* getData returns at once and leaves the caller's byte uninitialised;     *)
(* flush has taken nothing, and does not notice.                           *)
DataMismatch ==
  /\ pc = "data" /\ connId # call.sock
  /\ IF call.op = "flush" THEN pc' = "avail" /\ UNCHANGED <<got, ret>>
     ELSE DataFailed(Unset)
  /\ UNCHANGED <<lineVars, espVars, drvVars, live, call, locals>>

(* A slip in getData: peek takes the byte. *)
DataPeek_Takes ==
  /\ pc = "data" /\ connId = call.sock /\ here > 0 /\ call.op = "peek"
  /\ PopChar
  /\ bufPos' = bufPos - 1
  /\ DataDone(HeadChar)
  /\ UNCHANGED <<espVars, connId, remote, live, call, locals>>

DataPeek ==
  /\ pc = "data" /\ connId = call.sock /\ here > 0 /\ call.op = "peek"
  /\ DataDone(HeadChar)
  /\ UNCHANGED <<lineVars, espVars, drvVars, live, call, locals>>

DataByte ==
  /\ pc = "data" /\ connId = call.sock /\ here > 0 /\ call.op # "peek"
  /\ PopChar
  /\ bufPos' = bufPos - 1
  /\ IF bufPos = 1
       THEN pc' = "closing" /\ val' = HeadChar /\ UNCHANGED <<got, ret>>
       ELSE DataDone(HeadChar) /\ UNCHANGED val
  /\ UNCHANGED <<espVars, connId, remote, live, call, want, buf>>

DataTimeout ==
  /\ pc = "data" /\ connId = call.sock /\ Silent
  /\ bufPos' = 0 /\ connId' = 0
  /\ DataFailed(Zero)
  /\ UNCHANGED <<lineVars, espVars, remote, live, call, locals>>

(* After the last byte of a packet: does "<link>,CLOSED" follow?  It counts*)
(* if its first character, the link's digit, is there within 5 ms.  A byte *)
(* or a rest of text may be that digit.                                    *)
MayBeDigit(t) == t.kind \in {"byte", "text"}

(* A slip in getData: the link's digit is not looked at. *)
IsNotice_AnyLink(t) == t.kind = "closed"

IsNotice(t) == t.kind = "closed" /\ t.link = call.sock

NotClosing ==
  /\ pc = "closing"
  /\ here > 0 => ~IsNotice(Head(line))
  /\ val' = NoByte
  /\ DataDone(val)
  /\ UNCHANGED <<lineVars, espVars, drvVars, live, call, want, buf>>

IsClosing ==
  /\ pc = "closing"
  /\ here > 0 /\ (IsNotice(Head(line)) \/ MayBeDigit(Head(line)))
  /\ pc' = "notice"
  /\ UNCHANGED <<lineVars, espVars, drvVars, live, call, locals, got, ret>>

(* *connClose is set: the client gives its socket back, and read returns;  *)
(* flush ends, because available() of a client without socket is 0.  A UDP *)
(* object does not look at it.                                             *)
CloseDone ==
  /\ live' = live \ ({call.sock} \ UdpLinks)
  /\ got' = [got EXCEPT ![call.sock] = Append(@, val)]
  /\ Return(val)
  /\ val' = NoByte

(* readUntil(500, ",CLOSED\r\n", false). *)
NoticeSkip ==
  /\ pc = "notice" /\ here > 0 /\ Head(line).kind # "closed"
  /\ Pop
  /\ UNCHANGED <<espVars, drvVars, live, pc, call, locals, got, ret>>

NoticeFound ==
  /\ pc = "notice" /\ here > 0 /\ Head(line).kind \in {"closed", "text"}
  /\ Pop
  /\ CloseDone
  /\ UNCHANGED <<espVars, drvVars, call, want, buf>>

NoticeTimeout ==
  /\ pc = "notice" /\ Silent
  /\ CloseDone
  /\ UNCHANGED <<lineVars, espVars, drvVars, call, want, buf>>

-----------------------------------------------------------------------------
(* getDataBuf, for a caller's buffer of any size.                          *)

BufMismatch ==
  /\ pc = "buf" /\ connId # call.sock
  /\ Return(0)
  /\ UNCHANGED <<lineVars, espVars, drvVars, live, call, locals, got>>

(* A slip in getDataBuf: the size is not cut to the rest of the packet. *)
BufStart_Uncut(size) ==
  /\ pc = "buf" /\ connId = call.sock
  /\ want' = size
  /\ pc' = "fill"
  /\ UNCHANGED <<lineVars, espVars, drvVars, live, call, val, buf, got, ret>>

BufStart(size) ==
  /\ pc = "buf" /\ connId = call.sock
  /\ want' = IF bufPos < size THEN bufPos ELSE size
  /\ pc' = "fill"
  /\ UNCHANGED <<lineVars, espVars, drvVars, live, call, val, buf, got, ret>>

(* A slip in getDataBuf: the bytes are not counted. *)
BufByte_Uncounted ==
  /\ pc = "fill" /\ want > 0 /\ here > 0
  /\ PopChar
  /\ buf' = Append(buf, HeadChar)
  /\ want' = want - 1
  /\ UNCHANGED <<espVars, drvVars, live, pc, call, val, got, ret>>

BufByte ==
  /\ pc = "fill" /\ want > 0 /\ here > 0
  /\ PopChar
  /\ buf' = Append(buf, HeadChar)
  /\ bufPos' = bufPos - 1
  /\ want' = want - 1
  /\ UNCHANGED <<espVars, connId, remote, live, pc, call, val, got, ret>>

BufDone ==
  /\ pc = "fill" /\ want = 0
  /\ got' = [got EXCEPT ![call.sock] = @ \o buf]
  /\ Return(Len(buf))
  /\ buf' = <<>>
  /\ UNCHANGED <<lineVars, espVars, drvVars, live, call, val, want>>

(* A slip in getDataBuf: after a timeout of timedRead the loop goes on. *)
BufTimeout_GoesOn == pc = "fill" /\ want > 0 /\ Silent /\ UNCHANGED vars

(* -1, whatever is in the buffer; _bufPos stays. *)
BufTimeout ==
  /\ pc = "fill" /\ want > 0 /\ Silent
  /\ Return(None)
  /\ want' = 0 /\ buf' = <<>>
  /\ UNCHANGED <<lineVars, espVars, drvVars, live, call, val, got>>

-----------------------------------------------------------------------------
(* Commands: what is in the UART's buffer is thrown away, then everything  *)
(* up to the answer (espEmptyBuf and readUntil).                           *)

CmdSend ==
  /\ pc = "cmd"
  /\ line' = SubSeq(line, here + 1, Len(line)) /\ here' = 0
  /\ asked' = TRUE
  /\ pc' = "answer"
  /\ UNCHANGED <<open, sent, ends, lost, drvVars, live, call, locals, got, ret>>

CmdSkip ==
  /\ pc = "answer" /\ here > 0 /\ Head(line).kind # "answer"
  /\ Pop
  /\ UNCHANGED <<espVars, drvVars, live, pc, call, locals, got, ret>>

(* A slip in getClientState: any answer counts. *)
CmdDone_AnyAnswer(isOpen) ==
  IF call.op = "status" THEN Return("established") /\ UNCHANGED <<live, call>>
  ELSE /\ live' = IF call.op = "stop" THEN live \ {call.sock} ELSE live
       /\ Return(1)
       /\ UNCHANGED call

(* stop gives the socket back whatever the answer; so does status when the *)
(* link is not found to be open.  A write that fails goes on with a stop;  *)
(* that of a UDP object only says so.                                      *)
CmdDone(isOpen) ==
  \/ /\ call.op = "write" /\ ~isOpen
     /\ pc' = "cmd"
     /\ call' = [call EXCEPT !.op = "stop"]
     /\ UNCHANGED <<live, ret>>
  \/ call.op = "write" /\ isOpen /\ Return(1) /\ UNCHANGED <<live, call>>
  \/ /\ call.op = "send" /\ Return(IF isOpen THEN 1 ELSE 0)
     /\ UNCHANGED <<live, call>>
  \/ call.op = "status" /\ isOpen /\ Return("established") /\ UNCHANGED <<live, call>>
  \/ /\ call.op = "stop" \/ (call.op = "status" /\ ~isOpen)
     /\ live' = live \ {call.sock}
     /\ Return("closed")
     /\ UNCHANGED call

CmdAnswered ==
  /\ pc = "answer" /\ here > 0 /\ Head(line).kind = "answer"
  /\ Pop
  /\ CmdDone(Head(line).n = 1)
  /\ UNCHANGED <<espVars, drvVars, locals, got>>

CmdTimeout ==
  /\ pc = "answer" /\ Silent
  /\ CmdDone(FALSE)
  /\ UNCHANGED <<lineVars, espVars, drvVars, locals, got>>

-----------------------------------------------------------------------------
Init ==
  /\ line = <<>> /\ here = 0
  /\ open = Links /\ sent = [l \in Links |-> 0] /\ ends = {}
  /\ asked = FALSE /\ lost = FALSE
  /\ connId = 0 /\ bufPos = 0 /\ remote = <<0, 0>>
  /\ live = Links
  /\ pc = "idle" /\ call = [op |-> "available", sock |-> 0]
  /\ val = NoByte /\ want = 0 /\ buf = <<>>
  /\ got = [l \in Links |-> <<>>]
  /\ ret = NoRet

Sketch == \/ \E op \in Ops \ {"accept"}, l \in Links : Call(op, l)
          \/ "accept" \in Ops /\ Accept

Driver ==
  \/ AvailBuffered \/ AvailNothing \/ FindSkip \/ FindHeader \/ FindTimeout
  \/ DataMismatch \/ DataPeek \/ DataByte \/ DataTimeout
  \/ NotClosing \/ IsClosing \/ NoticeSkip \/ NoticeFound \/ NoticeTimeout
  \/ BufMismatch \/ (\E size \in 1 .. MaxLen : BufStart(size))
  \/ BufByte \/ BufDone \/ BufTimeout
  \/ CmdSend \/ CmdSkip \/ CmdAnswered \/ CmdTimeout

Module == \/ \E l \in Links : PeerCloses(l) \/ (\E n \in 1 .. MaxLen : Packet(l, n))
          \/ Answer

Next == Sketch \/ Driver \/ Module \/ Arrive

Spec == Init /\ [][Next]_vars

(* The processor runs, the line carries what was sent, the module answers  *)
(* a command.  Nothing makes a peer send or the sketch call.               *)
Fairness == WF_vars(Driver) /\ WF_vars(Arrive) /\ WF_vars(Answer)

FairSpec == Spec /\ Fairness

-----------------------------------------------------------------------------
(* What may be on the line: only of a packet there is more to come. *)
Tokens ==
  {t \in [kind : {"hdr", "byte", "closed", "answer", "text"}, link : Links,
          n : Nat, rest : Nat] :
     /\ t.kind = "hdr" => t.rest \in 1 .. MaxLen
     /\ t.kind \notin {"hdr", "byte"} => t.rest = 0}

TypeOK ==
  /\ line \in Seq(Tokens)
  /\ here \in 0 .. Len(line) /\ here <= RxSize
  /\ open \subseteq Links /\ live \subseteq Links
  /\ sent \in [Links -> Nat] /\ ends \subseteq Links \X Nat
  /\ asked \in BOOLEAN /\ lost \in BOOLEAN
  /\ connId \in Links \cup {0} /\ bufPos \in 0 .. MaxLen
  /\ remote \in (Links \cup {0}) \X Nat
  /\ pc \in {"idle", "avail", "find", "data", "closing", "notice", "buf", "fill",
             "cmd", "answer"}
  /\ call \in [op : AllOps, sock : Links \cup {0}]
  /\ want \in 0 .. bufPos /\ val \in Int \X Int /\ buf \in Seq(Int \X Int)
  /\ got \in [Links -> Seq(Int \X Int)]

(* What may come after a token of link l with `rest` bytes still to come.  *)
Follows(l, rest, t) ==
  IF rest > 0 THEN t.kind = "byte" /\ t.link = l /\ t.rest = rest - 1
  ELSE t.kind # "byte"

(* _connId and _bufPos always say what the next characters of the line     *)
(* are: the rest of one packet, followed by whole messages.  It takes a    *)
(* sketch that drains a packet first, and a UART that loses nothing; only  *)
(* while a command runs is the reading position inside a packet it throws  *)
(* away (availData, getData, getDataBuf).                                  *)
Framed ==
  (~lost /\ pc # "answer") =>
    /\ line # <<>> => Follows(connId, bufPos, line[1])
    /\ \A i \in 1 .. Len(line) - 1 :
         Follows(line[i].link, line[i].rest, line[i + 1])
    /\ IF line = <<>> THEN bufPos = 0 ELSE line[Len(line)].rest = 0

(* What the sketch has of link l, with what the running call holds. *)
Delivered(l) ==
  got[l] \o (IF call.sock = l /\ pc \in {"closing", "notice"} THEN <<val>>
             ELSE <<>>)
         \o (IF call.sock = l THEN buf ELSE <<>>)

(* Every byte a peer sent is read by the client of its link, once and in   *)
(* order, or is still on the line: nothing of another link, nothing made   *)
(* up (read, flush, read(buf)).  Without commands, which throw data away.  *)
ExactlyOnce ==
  ~lost =>
    \A l \in Links :
      /\ \A i \in 1 .. Len(Delivered(l)) : Delivered(l)[i] = Byte(l, i)
      /\ \A n \in Len(Delivered(l)) + 1 .. sent[l] :
           \E i \in 1 .. Len(line) :
             line[i].kind = "byte" /\ line[i].link = l /\ line[i].n = n

(* Without commands and losses the driver implements the streams of        *)
(* LinkStreams: what it delivers, link by link, is what was sent, in order,*)
(* and a client loses its socket only after the close and the last byte    *)
(* (availData, getData, getDataBuf and the client's read, peek and flush). *)
LS == INSTANCE LinkStreams WITH received <- [l \in Links |-> Delivered(l)]

ImplementsStreams == LS!Spec

(* Where a packet begins and ends: its bytes from the a-th of link l on    *)
(* reach up to the b-th, its last.                                         *)
StartsPacket(l, a) == a = 1 \/ Byte(l, a - 1) \in ends

EndsPacket(b) == b[2] = 0 \/ b \in ends

UpToEnd(l, a, b) ==
  /\ Byte(l, b) \in ends /\ a <= b
  /\ \A e \in ends : e[1] = l /\ a <= e[2] => b <= e[2]

(* b can be the next byte that is read of link l after p. *)
Continues(l, p, b) ==
  /\ b[1] = l /\ b[2] > p[2]
  /\ b[2] = p[2] + 1 \/ (StartsPacket(l, b[2]) /\ EndsPacket(p))

(* The j-th is the last byte among the first i results d of reads, or there*)
(* is none.                                                                *)
IsLast(d, i, j) == /\ j = 0 \/ d[j] # Unset
                   /\ \A k \in j + 1 .. i : d[k] = Unset

ByteAt(l, d, j) == IF j = 0 THEN Byte(l, 0) ELSE d[j]

InPackets(l, d) ==
  \A i \in 1 .. Len(d), j \in 0 .. Len(d) :
    (d[i] # Unset /\ j < i /\ IsLast(d, i - 1, j)) => Continues(l, ByteAt(l, d, j), d[i])

(* Commands lose packets that arrive while they run, but only whole ones:  *)
(* what a client reads are whole packets in the order sent, with gaps      *)
(* between them.  On link 0 there may be bytes in between that no read set:*)
(* _connId = 0 also means no packet.  Nothing else gets between two bytes  *)
(* of a packet (getData, getDataBuf, espEmptyBuf).                         *)
WholePackets == ~lost => \A l \in Links : InPackets(l, Delivered(l))

(* How many bytes the last call has read: those at the end of got. *)
Taken ==
  CASE ret.op = "read" /\ ret.value \notin {NoByte, Unset, Zero} -> 1
    [] ret.op = "readBuf" /\ ret.value # None -> ret.value
    [] OTHER -> 0

(* b is a byte of link l, and of the packet whose sender is remembered. *)
OfRemote(l, b) == remote[1] = l /\ UpToEnd(l, b[2], remote[2])

(* When a UDP object has just read, remoteIP and remotePort are those of   *)
(* the datagram that was read from, and all that one read returned is of   *)
(* that datagram, whichever socket's poll has found its header             *)
(* (WiFiEspUDP::read, remoteIP).                                           *)
RemoteIsSender ==
  (pc = "idle" /\ ret.sock \in UdpLinks /\ ~lost) =>
    \A i \in Len(got[ret.sock]) - Taken + 1 .. Len(got[ret.sock]) :
      OfRemote(ret.sock, got[ret.sock][i])

(* Every call of the sketch comes back, whatever the peers, the order of   *)
(* the calls, a stale _bufPos or an overflowing UART do (the loops of find,*)
(* getData, flush and readUntil).  For links other than 0.                 *)
CallsReturn == pc # "idle" ~> pc = "idle"

-----------------------------------------------------------------------------
(* Why these hold.                                                         *)

(* Which call is where, and what its locals are. *)
Calling ==
  /\ pc # "idle" =>
       /\ call.sock \in Links \/ (call.op = "accept" /\ call.sock = 0)
       /\ call.op \in Ops \/ (call.op = "stop" /\ "write" \in Ops)
  /\ pc \in {"avail", "find"} => call.op \in ReadOps \cup {"accept", "status", "udpPeek"}
  /\ pc = "data" => call.op \in {"read", "peek", "flush"} /\ bufPos > 0
  /\ pc \in {"closing", "notice"} => call.op \in {"read", "flush"}
  /\ pc \in {"buf", "fill"} => call.op = "readBuf"
  /\ pc \in {"cmd", "answer"} => call.op \in {"write", "stop", "send", "status"}
  /\ pc # "fill" => want = 0 /\ buf = <<>>
  /\ bufPos > 0 => connId \in Links

(* The module answers once, while the driver waits. *)
AnswersOnce ==
  /\ asked => pc = "answer"
  /\ \A i \in 1 .. Len(line) :
       line[i].kind = "answer" =>
         pc = "answer" /\ ~asked /\ \A j \in 1 .. Len(line) : line[j].kind = "answer" => i = j

(* What holds of every sketch and of a UART that loses tokens. *)
Base == TypeOK /\ Calling /\ AnswersOnce

(* The sketches that keep the driver in step with the line: they drain a   *)
(* packet first; status, which may take the header of another link and then*)
(* throw the packet away, is not among their calls, nor, on link 0, flush, *)
(* which goes round its loop when it has got another link's packet.        *)
KeepsStep == DrainFirst /\ "status" \notin Ops /\ ("flush" \in Ops => 0 \notin Links)

Chained == \A i \in 1 .. Len(line) - 1 : Follows(line[i].link, line[i].rest, line[i + 1])

(* The messages on the line are whole, but for the one that is being read. *)
Whole == /\ Chained
         /\ line # <<>> => line[Len(line)].rest = 0
         /\ \A i \in 1 .. Len(line) : line[i].kind # "text"

(* What _connId and _bufPos say of the line. *)
InStep == IF line = <<>> THEN bufPos = 0 ELSE Follows(connId, bufPos, line[1])

(* Where in a packet a call may be. *)
Placed ==
  /\ pc = "avail" => bufPos = 0 \/ connId = call.sock
  /\ pc \in {"find", "closing", "notice", "cmd", "answer"} => bufPos = 0
  /\ pc \in {"data", "buf"} => connId = call.sock \/ call.sock = 0
  /\ pc = "fill" => connId = call.sock

(* The inductive invariant for Framed. *)
Framing ==
  /\ Placed
  /\ ~lost => /\ Whole
              /\ pc # "answer" => InStep
              /\ pc = "notice" => here > 0 /\ IsNotice(line[1])

(* The sketches that get all the bytes: they give no command.              *)
Drains == KeepsStep /\ 0 \notin Links /\ Ops \cap {"write", "stop", "send"} = {}

(* What is on the line of link l is what it has yet to get, in order; after*)
(* its notice there is nothing, and a client without its socket has got    *)
(* everything.                                                             *)
IsByte(t, l) == t.kind = "byte" /\ t.link = l
OfPacket(t, l) == t.kind \in {"hdr", "byte"} /\ t.link = l

Stream(l) ==
  LET have == Len(Delivered(l))
  IN  /\ have <= sent[l] /\ \A i \in 1 .. have : Delivered(l)[i] = Byte(l, i)
      /\ \A n \in have + 1 .. sent[l] :
           \E i \in 1 .. Len(line) : IsByte(line[i], l) /\ line[i].n = n
      /\ \A i \in 1 .. Len(line) : IsByte(line[i], l) =>
           /\ line[i].n \in have + 1 .. sent[l]
           /\ \A j \in 1 .. i - 1 : IsByte(line[j], l) => line[j].n < line[i].n
      /\ \A i \in 1 .. Len(line) : line[i].kind = "closed" /\ line[i].link = l =>
           l \notin open /\ \A j \in i .. Len(line) : ~OfPacket(line[j], l)
      /\ l \notin live => l \notin open /\ \A i \in 1 .. Len(line) : ~OfPacket(line[i], l)

Streaming == ~lost => \A l \in Links : Stream(l)

Delivering == Base /\ Framing /\ Streaming
=============================================================================
