------------------------ MODULE WebServerSketchProofs ------------------------
(* The web server examples: what they take for a request is one.  The loop *)
(* keeps the driver in step although it calls status: it reads each packet *)
(* it has found to its end, and asks for the status only in a packet.      *)
EXTENDS WebServerSketch, EspReceiveProofs

-----------------------------------------------------------------------------
(* Why it holds.                                                           *)

(* What d has after its s-th is the first part of a packet of link l, of   *)
(* sender rem, whose last pos bytes are still to come.                     *)
Part(rem, pos, E, l, s, d) ==
  LET first == rem[2] - pos - (Len(d) - s) + 1
  IN  /\ s <= Len(d)
      /\ first = 1 \/ Byte(l, first - 1) \in E
      /\ From(rem, E, l, Byte(l, first))
      /\ \A i \in s + 1 .. Len(d) : d[i] = Byte(l, first + i - s - 1)

Begun(l, s, d) == Part(remote, bufPos, ends, l, s, d)

(* The request of the client, as far as it has been read. *)
Had == IF pc \in {"closing", "notice"} THEN Append(got[cl], val) ELSE got[cl]
Request == Begun(cl, start, Had)
More == bufPos > 0 /\ connId = cl /\ cl \in live

Calls(op, places) == pc \in places /\ call = [op |-> op, sock |-> cl]

(* What accept has found and the sketch has not yet looked at. *)
Accepted ==
  /\ Returned = connId /\ connId \in live /\ bufPos > 0
  /\ Begun(connId, Len(got[connId]), got[connId])

Reading ==
  /\ start <= Len(got[cl])
  /\ \/ Calls("read", {"avail", "data"}) /\ More
     \/ Calls("read", {"closing", "notice"}) /\ bufPos = 0
     \/ /\ pc = "idle" /\ start < Len(got[cl]) /\ Returned = got[cl][Len(got[cl])]
        /\ bufPos > 0 => More

(* Where the driver is, seen from the sketch, while nothing is lost. *)
Serving ==
  /\ place \in {"listen", "respond", "stop"} =>
       pc \in {"idle", "cmd", "answer"} /\ bufPos = 0
  /\ place = "accepted" =>
       \/ pc \in {"avail", "find"} /\ bufPos = 0
       \/ pc = "idle" /\ Returned = None /\ bufPos = 0
       \/ pc = "idle" /\ Accepted
  /\ place \in {"while", "connected", "available", "read"} => Request
  /\ place = "while" => pc = "idle" /\ More
  /\ place = "connected" =>
       (Calls("status", {"avail"}) \/ (pc = "idle" /\ Returned = "established")) /\ More
  /\ place = "available" =>
       (Calls("available", {"avail"}) \/ (pc = "idle" /\ Returned = bufPos)) /\ More
  /\ place = "read" => Reading
  /\ place = "respond" /\ printed = 0 => pc = "idle" /\ Request /\ start < Len(got[cl])

(* The sketch's own state, also when the UART has lost something. *)
Sketched ==
  /\ place = "accepted" =>
       \/ pc \in {"avail", "find"} /\ call = [op |-> "accept", sock |-> 0]
       \/ pc = "idle" /\ Returned \in Links \cup {None}
  /\ place \in {"while", "connected", "available", "read"} => printed = 0
  /\ place = "respond" => printed < MaxPrints
  /\ place \notin {"listen", "accepted"} => cl \in Links

(* The inductive invariant for WTypeOK and WholeRequest. *)
Served ==
  /\ Base /\ Numbered /\ WTypeOK /\ Sketched
  /\ ~lost => Framing /\ Connected /\ Serving

-----------------------------------------------------------------------------
(* A sketch of EspReceive.                                                 *)

(* What the loop does to the driver is to call it, or nothing. *)
LEMMA LoopCalls ==
  ASSUME Base, Loop
  PROVE  Sketch \/ UNCHANGED vars
  <1>1. \A op \in {"status", "available", "read", "write", "stop"} : Call(op, cl) => Sketch
    BY CallsAssumption DEF Base, TypeOK, Call, Sketch
  <1>2. Accept => Sketch
    BY CallsAssumption DEF Sketch
  <1> QED BY <1>1, <1>2 DEF Loop, listen, noClient, newClient, connected, available,
          read, look, respond, stop

LEMMA IsSketch ==
  ASSUME Base, [WNext]_allVars
  PROVE  [Next]_vars
  BY LoopCalls DEF WNext, Around, Next, allVars

(* The module and the line do not touch the driver. *)
LEMMA Elsewhere ==
  ASSUME Module \/ Arrive \/ UNCHANGED vars
  PROVE  UNCHANGED <<connId, bufPos, remote, live, pc, call, val, got, ret>>
  <1>1. CASE Module
    BY <1>1 DEF Module, PeerCloses, Packet, Answer, drvVars, locals
  <1>2. CASE Arrive \/ UNCHANGED vars
    BY <1>2 DEF Arrive, vars, drvVars, locals
  <1> QED BY <1>1, <1>2

LEMMA EndsGrow ==
  ASSUME Base, Base', [Next]_vars
  PROVE  ends \subseteq ends'
  <1>1. CASE \A l \in Links, n \in 1 .. MaxLen : ~Packet(l, n)
    BY <1>1, LineThins
  <1>2. ASSUME NEW l \in Links, NEW n \in 1 .. MaxLen, Packet(l, n)
        PROVE  ends \subseteq ends'
    BY <1>2 DEF Packet
  <1> QED BY <1>1, <1>2

(* A part of a packet that has been read stays one. *)
LEMMA PartStays ==
  ASSUME Base, Base', Numbered, [Next]_vars, UNCHANGED <<remote, bufPos>>,
         NEW l, NEW s, NEW d, Part(remote, bufPos, ends, l, s, d)
  PROVE  Part(remote', bufPos', ends', l, s, d)
  <1> DEFINE first == remote[2] - bufPos - (Len(d) - s) + 1
  <1>1. /\ s <= Len(d) /\ (first = 1 \/ Byte(l, first - 1) \in ends)
        /\ From(remote, ends, l, Byte(l, first))
        /\ \A i \in s + 1 .. Len(d) : d[i] = Byte(l, first + i - s - 1)
    BY DEF Part
  <1>2. first = remote'[2] - bufPos' - (Len(d) - s) + 1
    OBVIOUS
  <1> HIDE DEF first
  <1>3. From(remote', ends', l, Byte(l, first))
    BY <1>1, FromStays
  <1>4. first = 1 \/ Byte(l, first - 1) \in ends'
    BY <1>1, EndsGrow
  <1> QED BY <1>1, <1>2, <1>3, <1>4 DEF Part

(* The next byte of the packet is read. *)
LEMMA PartGrows ==
  ASSUME NEW rem \in Int \X Nat, NEW pos \in Nat, NEW E, NEW l, NEW s \in Nat,
         NEW d \in Seq(Int \X Int), Part(rem, pos, E, l, s, d),
         NEW e \in Int \X Int, e = Byte(l, rem[2] - pos + 1)
  PROVE  Part(rem, pos - 1, E, l, s, Append(d, e))
  <1> DEFINE first == rem[2] - pos - (Len(d) - s) + 1
             c == Append(d, e)
  <1>1. /\ s <= Len(d) /\ (first = 1 \/ Byte(l, first - 1) \in E)
        /\ From(rem, E, l, Byte(l, first))
        /\ \A i \in s + 1 .. Len(d) : d[i] = Byte(l, first + i - s - 1)
    BY DEF Part
  <1>2. /\ Len(c) = Len(d) + 1 /\ Len(d) \in Nat /\ c[Len(d) + 1] = e
        /\ \A i \in 1 .. Len(d) : c[i] = d[i]
    BY AppendProperties, LenProperties
  <1> HIDE DEF c
  <1>3. rem[2] \in Int /\ first = rem[2] - (pos - 1) - (Len(c) - s) + 1
    BY <1>2
  <1>4. first + (Len(d) + 1) - s - 1 = rem[2] - pos + 1
    BY <1>2, <1>3
  <1> HIDE DEF first
  <1>5. \A i \in s + 1 .. Len(c) : i = Len(d) + 1 \/ (i \in s + 1 .. Len(d) /\ i \in 1 .. Len(d))
    <2> SUFFICES ASSUME NEW i \in s + 1 .. Len(c), i # Len(d) + 1
                 PROVE  i \in s + 1 .. Len(d) /\ i \in 1 .. Len(d)
      OBVIOUS
    <2> QED BY <1>2
  <1>6. \A i \in s + 1 .. Len(c) : c[i] = Byte(l, first + i - s - 1)
    <2>1. c[Len(d) + 1] = Byte(l, first + (Len(d) + 1) - s - 1)
      BY <1>2, <1>4
    <2> QED BY <1>1, <1>2, <1>5, <2>1
  <1>7. s <= Len(c)
    BY <1>1, <1>2
  <1> QED BY <1>1, <1>3, <1>6, <1>7 DEF Part, c

-----------------------------------------------------------------------------
(* The sketch's own state.                                                 *)

(* What the driver does next, by where it is. *)
LEMMA DriverAt ==
  ASSUME Driver
  PROVE  /\ pc # "idle"
         /\ pc \in {"avail", "find"} =>
              AvailBuffered \/ AvailNothing \/ FindSkip \/ FindHeader \/ FindTimeout
         /\ pc = "data" => DataMismatch \/ DataPeek \/ DataByte \/ DataTimeout
         /\ pc = "closing" => NotClosing \/ IsClosing
         /\ pc = "notice" => NoticeSkip \/ NoticeFound \/ NoticeTimeout
         /\ pc \in {"cmd", "answer"} => CmdSend \/ CmdSkip \/ CmdAnswered \/ CmdTimeout
  BY DEF Driver, AvailBuffered, AvailNothing, FindSkip, FindHeader, FindTimeout, DataMismatch,
     DataPeek, DataByte, DataTimeout, NotClosing, IsClosing, NoticeSkip, NoticeFound, NoticeTimeout,
     BufMismatch, BufStart, BufByte, BufDone, BufTimeout, CmdSend, CmdSkip, CmdAnswered, CmdTimeout

(* accept goes on looking for a header, or returns a link or none. *)
LEMMA AcceptReturns ==
  ASSUME Base, Driver, pc \in {"avail", "find"}, call = [op |-> "accept", sock |-> 0]
  PROVE  \/ pc' = "find" /\ call' = call
         \/ pc' = "idle" /\ Returned' \in Links \cup {None}
  <1>1. AvailBuffered \/ AvailNothing \/ FindSkip \/ FindHeader \/ FindTimeout
    BY DriverAt
  <1>2. CASE FindSkip
    BY <1>2 DEF FindSkip
  <1>3. CASE AvailBuffered
    <2>1. AvailDone(bufPos, connId) /\ connId \in Links
      BY <1>3 DEF AvailBuffered, Buffered, Base, Calling
    <2> QED BY <2>1 DEF AvailDone, Return, Returned
  <1>4. CASE AvailNothing \/ FindTimeout
    <2>1. AvailDone(0, connId)
      BY <1>4 DEF AvailNothing, FindTimeout
    <2> QED BY <2>1 DEF AvailDone, Return, Returned
  <1>5. CASE FindHeader
    <2>1. here > 0 /\ Pop /\ \E n : AvailDone(n, Head(line).link)
      BY <1>5 DEF FindHeader
    <2>2. Head(line).link \in Links
      BY <2>1, PopLine, Fields DEF Base
    <2> QED BY <2>1, <2>2 DEF AvailDone, Return, Returned
  <1> QED BY <1>1, <1>2, <1>3, <1>4, <1>5

LEMMA NextSketched ==
  ASSUME Base, Base', WTypeOK, Sketched, [WNext]_allVars
  PROVE  WTypeOK' /\ Sketched'
  <1>0. MaxPrints \in Nat /\ MaxPrints > 0 /\ printed \in Nat
    BY MaxPrintsAssumption DEF WTypeOK
  <1>1. TypeOK'
    BY DEF Base
  <1>2. CASE listen
    BY <1>1, <1>2 DEF listen, Accept, Goto, WTypeOK, Sketched
  <1>3. CASE newClient
    <2>1. /\ Returned \in Links /\ place' = "while" /\ cl' = Returned /\ printed' = 0
          /\ start' = Len(got[Returned])
      BY <1>3 DEF newClient, At, Sketched
    <2>2. Len(got[Returned]) \in Nat
      BY <2>1, LenProperties DEF Base, TypeOK
    <2> QED BY <1>0, <1>1, <2>1, <2>2 DEF WTypeOK, Sketched
  <1>4. CASE noClient \/ connected \/ available \/ read \/ look \/ stop
    <2>1. /\ place' \in {"listen", "connected", "stop", "available", "while", "read", "respond"}
          /\ place' \in {"while", "connected", "available", "read", "respond"} => printed = 0
          /\ place' = "listen" \/ place \notin {"listen", "accepted"}
          /\ UNCHANGED <<cl, start, printed>>
      BY <1>4 DEF noClient, connected, available, read, look, stop, Goto, At, Sketched
    <2> QED BY <1>0, <1>1, <2>1 DEF WTypeOK, Sketched
  <1>5. CASE respond
    <2>1. /\ printed < MaxPrints /\ printed' = printed + 1 /\ UNCHANGED <<cl, start>>
          /\ place' = IF printed + 1 = MaxPrints THEN "stop" ELSE "respond"
          /\ cl \in Links
      BY <1>5 DEF respond, At, Sketched
    <2> QED BY <1>0, <1>1, <2>1 DEF WTypeOK, Sketched
  <1>6. CASE UNCHANGED sketchVars /\ UNCHANGED <<pc, call, ret>>
    BY <1>1, <1>6 DEF WTypeOK, Sketched, sketchVars, Returned
  <1>7. CASE UNCHANGED sketchVars /\ Driver
    <2>1. place = "accepted" =>
            \/ pc' \in {"avail", "find"} /\ call' = [op |-> "accept", sock |-> 0]
            \/ pc' = "idle" /\ Returned' \in Links \cup {None}
      BY <1>7, AcceptReturns, DriverAt DEF Sketched
    <2> QED BY <1>1, <1>7, <2>1 DEF WTypeOK, Sketched, sketchVars
  <1>8. (Module \/ Arrive \/ UNCHANGED vars) => UNCHANGED <<pc, call, ret>>
    BY Elsewhere
  <1> QED BY <1>2, <1>3, <1>4, <1>5, <1>6, <1>7, <1>8 DEF WNext, Loop, Around, allVars

-----------------------------------------------------------------------------
(* Where the driver is.                                                    *)

(* While nothing is lost the loop keeps the driver in step with the line.  *)
LEMMA Kept ==
  ASSUME Base, WTypeOK, Sketched, Serving, [WNext]_allVars
  PROVE  Heeding /\ Turning
  <1>1. Heeding
    <2>1. CASE place \in {"listen", "respond", "stop"}
      <3>1. pc \in {"idle", "cmd", "answer"}
        BY <2>1 DEF Serving
      <3>2. pc # "idle" => call.op \in {"write", "stop", "send", "status"}
        BY <3>1 DEF Base, Calling
      <3> QED BY <3>1, <3>2 DEF Heeding
    <2>2. CASE place = "accepted"
      <3>1. pc # "idle" => call.op = "accept"
        BY <2>2 DEF Sketched
      <3> QED BY <3>1 DEF Heeding
    <2>3. CASE place \in {"while", "connected", "available", "read"}
      <3>1. pc # "idle" =>
              call.op \in {"status", "available", "read"} /\ (call.op = "status" => pc = "avail" /\ Buffered)
        BY <2>3 DEF Serving, Reading, Calls, More, Buffered
      <3> QED BY <3>1 DEF Heeding
    <2> QED BY <2>1, <2>2, <2>3 DEF WTypeOK
  <1>2. ASSUME Sketch PROVE bufPos = 0 \/ (connId = call'.sock /\ pc' = "avail")
    <2>1. pc = "idle" /\ pc' \in {"avail", "cmd"}
      BY <1>2 DEF Sketch, Call, Accept
    <2>2. ~Driver /\ ~(Module \/ Arrive \/ UNCHANGED vars)
      BY <2>1, DriverAt, Elsewhere
    <2>3. Loop
      BY <2>2 DEF WNext, Around, allVars
    <2>4. CASE listen \/ respond \/ stop
      BY <2>4 DEF listen, respond, stop, At, Serving
    <2>5. CASE noClient \/ newClient \/ look
      BY <2>1, <2>5 DEF noClient, newClient, look, vars
    <2>6. CASE connected \/ available \/ read
      <3>1. More
        BY <2>6 DEF connected, available, read, At, Serving, Calls
      <3>2. pc' # pc
        BY <2>1
      <3>3. call'.sock = cl /\ pc' = "avail"
        BY <2>6, <3>2 DEF connected, available, read, Call, vars
      <3> QED BY <3>1, <3>3 DEF More
    <2> QED BY <2>3, <2>4, <2>5, <2>6 DEF Loop
  <1> QED BY <1>1, <1>2 DEF Turning

LEMMA ServingAround ==
  ASSUME Base, Base', Numbered, Serving, [WNext]_allVars,
         Module \/ Arrive \/ UNCHANGED vars, UNCHANGED sketchVars
  PROVE  Serving'
  <1>1. UNCHANGED <<connId, bufPos, remote, live, pc, call, val, got, ret, place, cl, start, printed>>
    BY Elsewhere DEF sketchVars
  <1>2. Request => Request'
    BY <1>1, IsSketch, PartStays DEF Request, Begun, Had
  <1>3. Accepted => Accepted'
    BY <1>1, IsSketch, PartStays DEF Accepted, Begun, Returned
  <1>4. Reading => Reading'
    BY <1>1 DEF Reading, More, Calls, Returned
  <1> QED BY <1>1, <1>2, <1>3, <1>4 DEF Serving, More, Calls, Returned

(* The driver answers accept: with the link of a packet that begins, or    *)
(* with none.                                                              *)
LEMMA ServingAccept ==
  ASSUME Base, Base', Numbered, Sketched, Serving, Driver, UNCHANGED sketchVars, place = "accepted"
  PROVE  Serving'
  <1>1. pc \in {"avail", "find"} /\ bufPos = 0 /\ call = [op |-> "accept", sock |-> 0]
    BY DriverAt DEF Serving, Sketched
  <1>2. SUFFICES \/ pc' \in {"avail", "find"} /\ bufPos' = 0
                 \/ pc' = "idle" /\ Returned' = None /\ bufPos' = 0
                 \/ pc' = "idle" /\ Accepted'
    BY DEF Serving, sketchVars
  <1>3. ~AvailBuffered
    BY <1>1 DEF AvailBuffered, Buffered
  <1>4. CASE FindSkip
    BY <1>1, <1>4 DEF FindSkip, drvVars
  <1>5. CASE AvailNothing \/ FindTimeout
    <2>1. AvailDone(0, connId) /\ bufPos' = 0
      BY <1>1, <1>5 DEF AvailNothing, FindTimeout, drvVars
    <2> QED BY <1>1, <2>1 DEF AvailDone, Return, Returned
  <1>6. CASE FindHeader
    <2> DEFINE t == line[1]
    <2>1. /\ here > 0 /\ Pop /\ Head(line).kind = "hdr" /\ connId' = Head(line).link
          /\ bufPos' = Head(line).rest /\ remote' = <<Head(line).link, Head(line).n>>
          /\ AvailDone(IF Head(line).link = call.sock \/ call.sock = 0 THEN Head(line).rest ELSE 0,
                       Head(line).link)
          /\ UNCHANGED <<got, ends>>
      BY <1>6 DEF FindHeader, espVars
    <2>2. Head(line) = t /\ t \in Tokens /\ 1 \in 1 .. Len(line)
      BY <2>1, PopLine DEF Base
    <2>3. t.kind = "hdr" /\ t.link \in Links /\ t.rest \in Nat /\ t.rest > 0 /\ t.n \in Nat
      <3>1. t.kind = "hdr"
        BY <2>1, <2>2
      <3>2. t.link \in Links /\ t.rest \in 1 .. MaxLen /\ t.n \in Nat
        BY <2>2, <3>1, Fields
      <3> QED BY <3>1, <3>2, BoundsAssumption
    <2>4. /\ FirstOf(t) = t.n - t.rest + 1 /\ LastOf(t) = t.n
          /\ UpToEnd(t.link, FirstOf(t), LastOf(t)) /\ StartsPacket(t.link, FirstOf(t))
      <3>1. UpToEnd(t.link, FirstOf(t), LastOf(t)) /\ StartsPacket(t.link, FirstOf(t))
        BY <2>2, <2>3 DEF Numbered, InPacket
      <3> QED BY <2>3, <3>1 DEF FirstOf, LastOf
    <2> HIDE DEF t
    <2>5. /\ pc' = "idle" /\ Returned' = t.link /\ live' = live \cup {t.link}
          /\ bufPos' = t.rest /\ connId' = t.link /\ remote' = <<t.link, t.n>>
      <3>1. AvailDone(t.rest, t.link)
        BY <1>1, <2>1, <2>2
      <3> QED BY <1>1, <2>1, <2>2, <2>3, <3>1 DEF AvailDone, Return, Returned
    <2>6. Part(remote', bufPos', ends', t.link, Len(got[t.link]), got[t.link])
      <3>1. got[t.link] \in Seq(Int \X Int) /\ Len(got[t.link]) \in Nat
        BY <2>3, LenProperties DEF Base, TypeOK
      <3>2. remote'[2] - bufPos' - (Len(got[t.link]) - Len(got[t.link])) + 1 = FirstOf(t)
        BY <2>3, <2>4, <2>5, <3>1
      <3>3. From(remote', ends', t.link, Byte(t.link, FirstOf(t)))
        BY <2>1, <2>4, <2>5 DEF UpToEnd, From, Reaches, Byte
      <3>4. FirstOf(t) = 1 \/ Byte(t.link, FirstOf(t) - 1) \in ends'
        BY <2>1, <2>4 DEF StartsPacket
      <3>5. \A i \in Len(got[t.link]) + 1 .. Len(got[t.link]) : FALSE
        BY <3>1
      <3> QED BY <3>1, <3>2, <3>3, <3>4, <3>5 DEF Part
    <2>7. got' = got
      BY <2>1
    <2> QED BY <2>3, <2>5, <2>6, <2>7 DEF Accepted, Begun
  <1> QED BY <1>1, <1>3, <1>4, <1>5, <1>6, DriverAt

(* The driver answers status and available from _bufPos. *)
LEMMA ServingAsked ==
  ASSUME Base, Base', Numbered, Serving, Driver, UNCHANGED sketchVars,
         place \in {"connected", "available"}
  PROVE  Serving'
  <1>1. /\ pc = "avail" /\ More /\ Request /\ call.sock = cl
        /\ call.op = IF place = "connected" THEN "status" ELSE "available"
    BY DriverAt DEF Serving, Calls
  <1>2. Buffered
    BY <1>1 DEF More, Buffered
  <1>3. AvailBuffered
    BY <1>1, <1>2, DriverAt DEF AvailNothing, FindSkip, FindHeader, FindTimeout
  <1>4. /\ UNCHANGED <<bufPos, connId, remote, call, got, val>> /\ AvailDone(bufPos, connId)
        /\ bufPos > 0 /\ bufPos # 0
    BY <1>1, <1>3 DEF AvailBuffered, drvVars, locals, More
  <1>5. /\ pc' = "idle" /\ live' = live
        /\ Returned' = IF place = "connected" THEN "established" ELSE bufPos
    BY <1>1, <1>4 DEF AvailDone, Return, Returned
  <1>6. More'
    BY <1>1, <1>4, <1>5 DEF More, sketchVars
  <1>7. Request'
    <2>1. [Next]_vars
      BY DEF Next
    <2>2. Had' = Had /\ Had = got[cl] /\ UNCHANGED <<cl, start>>
      BY <1>1, <1>4, <1>5 DEF Had, sketchVars
    <2> QED BY <1>1, <1>4, <2>1, <2>2, PartStays DEF Request, Begun
  <1> QED BY <1>4, <1>5, <1>6, <1>7 DEF Serving, sketchVars

(* The driver answers read: it takes the next byte of the packet, and goes *)
(* on to look for a closing notice after the last.                         *)
LEMMA ServingRead ==
  ASSUME Base, Base', Framing, Numbered, Connected, ~lost, ~lost', WTypeOK, Sketched, Serving,
         Driver, UNCHANGED sketchVars, place = "read"
  PROVE  Serving'
  <1>1. /\ call = [op |-> "read", sock |-> cl] /\ Request /\ start <= Len(got[cl]) /\ cl \in Links
        /\ (pc \in {"avail", "data"} /\ More) \/ (pc \in {"closing", "notice"} /\ bufPos = 0)
    BY DriverAt DEF Serving, Reading, Calls, Sketched
  <1>2. /\ got \in [Links -> Seq(Int \X Int)] /\ got[cl] \in Seq(Int \X Int) /\ Len(got[cl]) \in Nat
        /\ bufPos \in Nat /\ val \in Int \X Int /\ remote \in Int \X Nat /\ cl \in Int /\ start \in Nat
    <2>1. got \in [Links -> Seq(Int \X Int)] /\ got[cl] \in Seq(Int \X Int)
      BY <1>1 DEF Base, TypeOK
    <2>2. \A l \in Links : l \in Int
      BY LinksAssumption
    <2>3. remote \in Int \X Nat
      BY <2>2 DEF Base, TypeOK
    <2> QED BY <1>1, <2>1, <2>2, <2>3, LenProperties, BoundsAssumption DEF Base, TypeOK, WTypeOK
  <1>3. SUFFICES Reading' /\ Request'
    BY DEF Serving, sketchVars
  <1>4. [Next]_vars /\ UNCHANGED <<cl, start>>
    BY DEF Next, sketchVars
  <1>5. ASSUME UNCHANGED <<bufPos, remote>>, Had' = Had PROVE Request'
    BY <1>1, <1>4, <1>5, PartStays DEF Request, Begun
  (* A byte has been read, and the call is over. *)
  <1>6. ASSUME NEW v \in Int \X Int, got' = [got EXCEPT ![call.sock] = Append(@, v)]
        PROVE  /\ got'[cl] = Append(got[cl], v) /\ start < Len(got'[cl])
               /\ got'[cl][Len(got'[cl])] = v
    <2>1. got'[cl] = Append(got[cl], v)
      BY <1>1, <1>2, <1>6
    <2>2. Len(got'[cl]) = Len(got[cl]) + 1 /\ got'[cl][Len(got[cl]) + 1] = v
      BY <1>2, <2>1, AppendProperties
    <2> QED BY <1>1, <1>2, <2>1, <2>2
  <1>7. CASE pc = "avail"
    <2>1. AvailBuffered /\ More
      BY <1>1, <1>7, DriverAt DEF AvailNothing, FindSkip, FindHeader, FindTimeout, Buffered, More
    <2>2. UNCHANGED <<bufPos, connId, remote, call, got, val>> /\ AvailDone(bufPos, connId) /\ bufPos > 0
      BY <2>1 DEF AvailBuffered, drvVars, locals, More
    <2>3. pc' = "data" /\ live' = live
      BY <1>1, <1>2, <2>2 DEF AvailDone
    <2>4. Had' = Had
      BY <1>4, <1>7, <2>2, <2>3 DEF Had
    <2>5. Reading'
      BY <1>1, <1>4, <2>1, <2>2, <2>3 DEF Reading, Calls, More
    <2> QED BY <1>5, <2>2, <2>4, <2>5
  <1>8. CASE pc = "data"
    <2>1. DataByte /\ More
      BY <1>1, <1>8, DriverAt, NothingAwaited DEF DataMismatch, DataPeek, More
    <2>2. /\ here > 0 /\ line[1].kind = "byte" /\ HeadChar = Byte(connId, line[1].n)
          /\ line[1].rest = bufPos - 1 /\ bufPos > 0 /\ line[1] \in Tokens
          /\ UNCHANGED <<connId, remote, call, live, ends>> /\ bufPos' = bufPos - 1
      <3>1. here > 0 /\ bufPos' = bufPos - 1 /\ UNCHANGED <<connId, remote, call, live, ends>> /\ PopChar
        BY <2>1 DEF DataByte, espVars
      <3>2. /\ line[1].kind = "byte" /\ line[1].rest = bufPos - 1 /\ line[1].link = connId
            /\ bufPos > 0 /\ Head(line) = line[1] /\ line[1] \in Tokens
        BY <1>8, <2>1, <3>1, AtHead DEF More
      <3> QED BY <3>1, <3>2 DEF HeadChar
    <2>3. HeadChar = Byte(cl, remote[2] - bufPos + 1) /\ HeadChar \in Int \X Int
      <3>1. line[1].n \in Nat
        BY <2>2, Fields
      <3>2. remote = Byte(connId, line[1].n + line[1].rest)
        BY <1>2, <2>2 DEF Connected, LastOf
      <3>3. remote[2] = line[1].n + line[1].rest
        BY <3>2 DEF Byte
      <3>4. line[1].n = remote[2] - bufPos + 1
        BY <1>2, <2>2, <3>1, <3>3
      <3> QED BY <1>2, <2>1, <2>2, <3>1, <3>4 DEF More, Byte
    <2> DEFINE c == HeadChar
    <2>4. \/ bufPos = 1 /\ pc' = "closing" /\ val' = c /\ got' = got
          \/ /\ bufPos # 1 /\ pc' = "idle" /\ Returned' = c
             /\ got' = [got EXCEPT ![call.sock] = Append(@, c)]
      BY <1>1, <2>1 DEF DataByte, DataDone, Return, Returned
    <2> HIDE DEF c
    <2>5. Had = got[cl] /\ Part(remote, bufPos, ends, cl, start, got[cl])
      BY <1>1, <1>8 DEF Request, Begun, Had
    <2>6. Part(remote, bufPos - 1, ends, cl, start, Append(got[cl], c))
      BY <1>2, <2>3, <2>5, PartGrows DEF c
    <2>7. Had' = Append(got[cl], c)
      BY <1>4, <1>6, <2>3, <2>4 DEF Had, c
    <2>8. Request'
      BY <1>4, <2>2, <2>6, <2>7 DEF Request, Begun
    <2>9. CASE bufPos = 1
      <3>1. bufPos' = 0
        BY <2>2, <2>9
      <3> QED BY <1>1, <1>4, <2>2, <2>4, <2>8, <2>9, <3>1 DEF Reading, Calls
    <2>10. CASE bufPos # 1
      <3>1. More'
        BY <1>2, <1>4, <2>1, <2>2, <2>10 DEF More
      <3>2. /\ pc' = "idle" /\ Returned' = c /\ start < Len(got'[cl]) /\ got'[cl][Len(got'[cl])] = c
            /\ Len(got'[cl]) \in Nat
        <4>1. c \in Int \X Int
          BY <2>3 DEF c
        <4>2. got'[cl] \in Seq(Int \X Int)
          BY <1>1 DEF Base, TypeOK
        <4> QED BY <1>6, <2>4, <2>10, <4>1, <4>2, LenProperties
      <3>3. start <= Len(got'[cl])
        BY <1>2, <3>2
      <3>4. Reading'
        BY <1>4, <3>1, <3>2, <3>3 DEF Reading
      <3> QED BY <2>8, <3>4
    <2> QED BY <2>9, <2>10
  <1>9. CASE IsClosing
    <2>1. pc = "closing" /\ pc' = "notice" /\ UNCHANGED <<bufPos, remote, got, val, call>>
      BY <1>9 DEF IsClosing, drvVars, locals
    <2>2. Had' = Had
      BY <1>4, <2>1 DEF Had
    <2>3. bufPos' = 0
      BY <1>1, <2>1
    <2> QED BY <1>1, <1>4, <1>5, <2>1, <2>2, <2>3 DEF Reading, Calls
  <1>10. CASE pc \in {"closing", "notice"} /\ ~IsClosing
    <2>1. NotClosing \/ NoticeFound
      BY <1>10, DriverAt, NothingAwaited
    <2>2. /\ pc' = "idle" /\ Returned' = val /\ UNCHANGED <<bufPos, remote>>
          /\ got' = [got EXCEPT ![call.sock] = Append(@, val)]
      BY <1>1, <2>1 DEF NotClosing, NoticeFound, CloseDone, DataDone, Return, Returned, drvVars
    <2>3. /\ got'[cl] = Append(got[cl], val) /\ start < Len(got'[cl])
          /\ got'[cl][Len(got'[cl])] = val
      BY <1>2, <1>6, <2>2
    <2>4. Had' = Had
      BY <1>4, <1>10, <2>2, <2>3 DEF Had
    <2>5. bufPos' = 0 /\ ~(bufPos' > 0)
      BY <1>1, <1>10, <2>2
    <2>6. start <= Len(got'[cl])
      <3>1. got'[cl] \in Seq(Int \X Int)
        BY <1>1 DEF Base, TypeOK
      <3>2. Len(got'[cl]) \in Nat
        BY <3>1, LenProperties
      <3> QED BY <1>2, <2>3, <3>2
    <2>7. Reading'
      BY <1>4, <2>2, <2>3, <2>5, <2>6 DEF Reading
    <2>8. bufPos' = bufPos /\ remote' = remote
      BY <2>2
    <2>9. Request'
      BY <1>5, <2>4, <2>8
    <2> QED BY <2>7, <2>9
  <1> QED BY <1>1, <1>7, <1>8, <1>9, <1>10

(* A command loses no part of a packet: it is given when none is begun. *)
LEMMA ServingCommand ==
  ASSUME Base, Serving, Driver, UNCHANGED sketchVars, place \in {"listen", "respond", "stop"}
  PROVE  Serving'
  <1>1. pc \in {"cmd", "answer"} /\ bufPos = 0
    BY DriverAt DEF Serving
  <1>2. CmdSend \/ CmdSkip \/ CmdAnswered \/ CmdTimeout
    BY <1>1, DriverAt
  <1>3. bufPos' = 0
    BY <1>1, <1>2 DEF CmdSend, CmdSkip, CmdAnswered, CmdTimeout, drvVars
  <1>4. pc' \in {"idle", "cmd", "answer"}
    BY <1>1, <1>2 DEF CmdSend, CmdSkip, CmdAnswered, CmdTimeout, CmdDone, Return
  <1>5. ~(place = "respond" /\ printed = 0)
    BY <1>1 DEF Serving
  <1> QED BY <1>3, <1>4, <1>5 DEF Serving, sketchVars

(* The end of a packet is the end of a request. *)
LEMMA LastIsEnd ==
  ASSUME NEW rem \in Int \X Nat, NEW pos \in Nat, NEW E, NEW l, NEW s \in Nat,
         NEW d \in Seq(Int \X Int), s < Len(d), Part(rem, pos, E, l, s, d)
  PROVE  d[Len(d)] \in E <=> pos = 0
  <1> DEFINE first == rem[2] - pos - (Len(d) - s) + 1
  <1>1. /\ From(rem, E, l, Byte(l, first))
        /\ \A i \in s + 1 .. Len(d) : d[i] = Byte(l, first + i - s - 1)
    BY DEF Part
  <1>2. Len(d) \in Nat /\ rem[2] \in Nat /\ first \in Int /\ first <= rem[2] - pos
    BY LenProperties
  <1>3. d[Len(d)] = Byte(l, rem[2] - pos)
    <2>1. Len(d) \in s + 1 .. Len(d) /\ first + Len(d) - s - 1 = rem[2] - pos
      <3>1. PICK n : n = Len(d)
        OBVIOUS
      <3>2. PICK b : b = rem[2]
        OBVIOUS
      <3>3. n \in Nat /\ b \in Nat /\ s < n /\ first = b - pos - (n - s) + 1
        BY <1>2, <3>1, <3>2
      <3> HIDE DEF first
      <3>4. n \in s + 1 .. n
        BY <3>3
      <3>5. first + n - s - 1 = b - pos
        BY <3>3
      <3> QED BY <3>1, <3>2, <3>4, <3>5
    <2> QED BY <1>1, <2>1
  <1> HIDE DEF first
  <1>4. Byte(l, rem[2]) \in E /\ \A e \in E : e[1] = l /\ first <= e[2] => rem[2] <= e[2]
    BY <1>1 DEF From, Reaches, Byte
  <1>5. ASSUME d[Len(d)] \in E PROVE pos = 0
    <2>1. Byte(l, rem[2] - pos)[1] = l /\ Byte(l, rem[2] - pos)[2] = rem[2] - pos
      BY DEF Byte
    <2>2. rem[2] <= rem[2] - pos
      BY <1>2, <1>3, <1>4, <1>5, <2>1
    <2> QED BY <1>2, <2>2
  <1>6. ASSUME pos = 0 PROVE d[Len(d)] \in E
    BY <1>2, <1>3, <1>4, <1>6
  <1> QED BY <1>5, <1>6

(* What the loop does next fits what the driver has returned. *)
LEMMA ServingLoop ==
  ASSUME Base, WTypeOK, Sketched, Serving, Loop
  PROVE  Serving'
  <1>1. CASE listen
    BY <1>1 DEF listen, Accept, Goto, At, Serving, drvVars
  <1>2. CASE noClient
    <2>1. bufPos = 0 /\ pc = "idle" /\ place' = "listen" /\ UNCHANGED vars
      <3>1. \A l \in Links : l # None
        BY LinksAssumption DEF None
      <3>2. live \subseteq Links
        BY DEF Base, TypeOK
      <3> QED BY <1>2, <3>1, <3>2 DEF noClient, At, Serving, Accepted, Goto
    <2>2. bufPos' = 0 /\ pc' = "idle"
      BY <2>1 DEF vars, drvVars
    <2> QED BY <2>1, <2>2 DEF Serving
  <1>3. CASE newClient
    <2>1. /\ pc = "idle" /\ Accepted /\ place' = "while" /\ cl' = connId
          /\ start' = Len(got[connId]) /\ UNCHANGED vars
      BY <1>3 DEF newClient, At, Serving, Accepted
    <2>2. UNCHANGED <<pc, connId, bufPos, live, remote, ends, got, val>>
      BY <2>1 DEF vars, drvVars, espVars, locals
    <2>3. More'
      BY <2>1, <2>2 DEF More, Accepted
    <2>4. Had' = got[connId]
      BY <2>1, <2>2 DEF Had
    <2>5. Request'
      BY <2>1, <2>2, <2>4 DEF Request, Begun, Accepted
    <2> QED BY <2>1, <2>2, <2>3, <2>5 DEF Serving
  <1>4. ASSUME NEW op \in {"status", "available", "read"}, pc = "idle", More, Request, Call(op, cl),
               UNCHANGED <<cl, start>>
        PROVE  More' /\ Request' /\ Calls(op, {"avail"})'
    <2>1. /\ UNCHANGED <<connId, bufPos, live, remote, ends, got, val>>
          /\ pc' = "avail" /\ call' = [op |-> op, sock |-> cl]
      BY <1>4 DEF Call, drvVars, espVars, locals
    <2>2. Had' = Had
      BY <1>4, <2>1 DEF Had
    <2> QED BY <1>4, <2>1, <2>2 DEF More, Request, Begun, Calls
  <1>5. CASE connected
    <2>1. pc = "idle" /\ More /\ Request /\ HasSocket
      BY <1>5 DEF connected, At, Serving, More, HasSocket
    <2>2. Call("status", cl) /\ place' = "connected" /\ UNCHANGED <<cl, start>>
      BY <1>5, <2>1 DEF connected, Goto
    <2>3. More' /\ Request' /\ Calls("status", {"avail"})'
      BY <1>4, <2>1, <2>2
    <2> QED BY <2>2, <2>3 DEF Serving
  <1>6. CASE available
    <2>1. pc = "idle" /\ More /\ Request /\ Returned = "established"
      BY <1>6 DEF available, At, Serving, Calls
    <2>2. Call("available", cl) /\ place' = "available" /\ UNCHANGED <<cl, start>>
      BY <1>6, <2>1 DEF available, Goto
    <2>3. More' /\ Request' /\ Calls("available", {"avail"})'
      BY <1>4, <2>1, <2>2
    <2> QED BY <2>2, <2>3 DEF Serving
  <1>7. CASE read
    <2>1. pc = "idle" /\ More /\ Request /\ Returned > 0
      BY <1>7 DEF read, At, Serving, Calls, More
    <2>2. Call("read", cl) /\ place' = "read" /\ UNCHANGED <<cl, start>>
      BY <1>7, <2>1 DEF read, Goto
    <2>3. More' /\ Request' /\ Calls("read", {"avail"})'
      BY <1>4, <2>1, <2>2
    <2>4. start' <= Len(got'[cl'])
      BY <2>3, <2>1 DEF Request, Begun, Part, Had, Calls
    <2>5. Reading'
      BY <2>3, <2>4 DEF Reading, Calls
    <2> QED BY <2>2, <2>3, <2>5 DEF Serving
  <1>8. CASE look
    <2>1. /\ pc = "idle" /\ Request /\ start < Len(got[cl]) /\ Returned = got[cl][Len(got[cl])]
          /\ bufPos > 0 => More
          /\ place' = (IF Returned \in ends THEN "respond" ELSE "while")
          /\ UNCHANGED vars /\ UNCHANGED <<cl, start, printed>> /\ printed = 0
      BY <1>8 DEF look, At, Goto, Serving, Reading, Calls, RequestEnds, Sketched
    <2>2. Returned \in ends <=> bufPos = 0
      <3>1. Part(remote, bufPos, ends, cl, start, got[cl])
        BY <2>1 DEF Request, Begun, Had
      <3>2. remote \in Int \X Nat /\ bufPos \in Nat /\ got[cl] \in Seq(Int \X Int) /\ start \in Nat
        <4>1. \A l \in Links : l \in Int
          BY LinksAssumption
        <4>2. got[cl] \in Seq(Int \X Int)
          BY <1>8 DEF Base, TypeOK, Sketched, look, At
        <4>3. remote \in Int \X Nat
          BY <4>1 DEF Base, TypeOK
        <4> QED BY <4>2, <4>3, BoundsAssumption DEF Base, TypeOK, WTypeOK
      <3> QED BY <2>1, <3>1, <3>2, LastIsEnd
    <2>3. UNCHANGED <<pc, connId, bufPos, live, remote, ends, got, val>>
      BY <2>1 DEF vars, drvVars, espVars, locals
    <2>4. Request'
      BY <2>1, <2>3 DEF Request, Begun, Had
    <2>5. CASE Returned \in ends
      BY <2>1, <2>2, <2>3, <2>4, <2>5 DEF Serving
    <2>6. CASE Returned \notin ends
      <3>1. bufPos > 0
        BY <2>2, <2>6, BoundsAssumption DEF Base, TypeOK
      <3>2. More'
        BY <2>1, <2>3, <3>1 DEF More
      <3> QED BY <2>1, <2>3, <2>4, <2>6, <3>2 DEF Serving
    <2> QED BY <2>5, <2>6
  <1>9. CASE respond
    <2>1. /\ bufPos = 0 /\ pc = "idle" /\ place' \in {"respond", "stop"} /\ printed' # 0
          /\ Call("write", cl) \/ UNCHANGED vars
      <3>1. printed \in Nat /\ printed' = printed + 1
        BY <1>9 DEF respond, WTypeOK
      <3> QED BY <1>9, <3>1 DEF respond, At, Serving
    <2>2. bufPos' = 0 /\ pc' \in {"idle", "cmd"}
      BY <2>1 DEF Call, vars, drvVars
    <2> QED BY <2>1, <2>2 DEF Serving
  <1>10. CASE stop
    <2>1. bufPos = 0 /\ pc = "idle" /\ place' = "listen" /\ (Call("stop", cl) \/ UNCHANGED vars)
      BY <1>10 DEF stop, At, Serving, Goto
    <2>2. bufPos' = 0 /\ pc' \in {"idle", "cmd"}
      BY <2>1 DEF Call, vars, drvVars
    <2> QED BY <2>1, <2>2 DEF Serving
  <1> QED BY <1>1, <1>2, <1>3, <1>5, <1>6, <1>7, <1>8, <1>9, <1>10 DEF Loop

LEMMA NextServing ==
  ASSUME Base, Base', Framing, Numbered, Connected, ~lost, ~lost', WTypeOK, Sketched, Serving,
         [WNext]_allVars
  PROVE  Serving'
  <1>1. CASE Loop
    BY <1>1, ServingLoop
  <1>2. CASE Driver /\ UNCHANGED sketchVars
    <2>1. place # "while"
      BY <1>2, DriverAt DEF Serving
    <2> QED BY <1>2, <2>1, ServingCommand, ServingAccept, ServingAsked, ServingRead DEF WTypeOK
  <1>3. CASE (Module \/ Arrive \/ UNCHANGED vars) /\ UNCHANGED sketchVars
    BY <1>3, ServingAround
  <1> QED BY <1>1, <1>2, <1>3 DEF WNext, Around, allVars

-----------------------------------------------------------------------------
(* The theorems.                                                           *)

LEMMA InitServed == WInit => Served
  <1> SUFFICES ASSUME WInit PROVE Served
    OBVIOUS
  <1>1. Init /\ place = "listen" /\ cl = 0 /\ start = 0 /\ printed = 0
    BY DEF WInit
  <1>2. Base /\ Framing /\ Numbered /\ TypeOK /\ (~lost => Connected)
    BY <1>1, InitBase, InitFraming, InitTracing DEF Tracing, Base
  <1>3. WTypeOK
    BY <1>1, <1>2, MaxPrintsAssumption DEF WTypeOK
  <1>4. Sketched /\ Serving
    BY <1>1 DEF Init, Sketched, Serving
  <1> QED BY <1>2, <1>3, <1>4 DEF Served

LEMMA NextServed ==
  ASSUME Served, [WNext]_allVars
  PROVE  Served'
  <1>1. Base /\ Numbered /\ WTypeOK /\ Sketched /\ [Next]_vars
    BY IsSketch DEF Served
  <1>2. Base' /\ Numbered'
    BY <1>1, NextBase, NextNumbered
  <1>3. WTypeOK' /\ Sketched'
    BY <1>1, <1>2, NextSketched
  <1>4. ASSUME ~lost' PROVE Framing' /\ Connected' /\ Serving'
    <2>1. ~lost
      BY <1>1, <1>4, LostStays
    <2>2. Framing /\ Connected /\ Serving
      BY <2>1 DEF Served
    <2>3. Framing'
      BY <1>1, <2>2, Kept, NextFraming
    <2>4. Connected'
      BY <1>1, <1>2, <1>4, <2>1, <2>2, NextConnected
    <2> QED BY <1>1, <1>2, <1>4, <2>1, <2>2, <2>3, <2>4, NextServing
  <1> QED BY <1>2, <1>3, <1>4 DEF Served

(* The inductive invariant behind the next two: whatever the browsers send *)
(* or close, wherever the loop of WebServer.ino is, what the driver has    *)
(* told it, _connId, _bufPos and what it has read of its client fit        *)
(* together, until the UART loses something.                               *)
THEOREM ServedHolds == WSpec => []Served
  <1> QED BY InitServed, NextServed, PTL DEF WSpec

(* The loop of the web server is where it can be, with a client of a link  *)
(* and no more prints than a response has (WebServer.ino, loop).           *)
THEOREM WTypes == WSpec => []WTypeOK
  <1>1. Served => WTypeOK
    BY DEF Served
  <1> QED BY <1>1, ServedHolds, PTL

(* What Served says when the loop begins to respond. *)
LEMMA ServedWhole ==
  ASSUME Served
  PROVE  WholeRequest
  <1> SUFFICES ASSUME At("respond"), printed = 0, ~lost
               PROVE  LET r == SubSeq(got[cl], start + 1, Len(got[cl]))
                      IN  /\ r # <<>> /\ r[Len(r)] \in ends
                          /\ \A i \in DOMAIN r : r[i] = Byte(cl, r[1][2] + i - 1)
                          /\ \A i \in 1 .. Len(r) - 1 : r[i] \notin ends
                          /\ r[1][2] = 1 \/ Byte(cl, r[1][2] - 1) \in ends
    BY DEF WholeRequest
  <1> DEFINE d == got[cl]
             r == SubSeq(d, start + 1, Len(d))
             first == remote[2] - (Len(d) - start) + 1
  <1>1. /\ bufPos = 0 /\ start < Len(d) /\ d \in Seq(Int \X Int) /\ Len(d) \in Nat /\ start \in Nat
        /\ remote[2] \in Nat /\ Part(remote, 0, ends, cl, start, d)
    <2>1. Base /\ Serving /\ WTypeOK /\ Sketched
      BY DEF Served
    <2>2. bufPos = 0 /\ pc = "idle" /\ Request /\ start < Len(d) /\ cl \in Links
      BY <2>1 DEF Serving, Sketched, At
    <2>3. d \in Seq(Int \X Int) /\ start \in Nat /\ remote[2] \in Nat
      BY <2>1, <2>2 DEF Base, TypeOK, WTypeOK
    <2> QED BY <2>2, <2>3, LenProperties DEF Request, Begun, Had
  <1>2. remote[2] - 0 - (Len(d) - start) + 1 = first /\ first \in Int
    BY <1>1
  <1>3. /\ first = 1 \/ Byte(cl, first - 1) \in ends
        /\ From(remote, ends, cl, Byte(cl, first))
        /\ \A i \in start + 1 .. Len(d) : d[i] = Byte(cl, first + i - start - 1)
    BY <1>1, <1>2 DEF Part
  <1>4. Byte(cl, remote[2]) \in ends /\ \A e \in ends : e[1] = cl /\ first <= e[2] => remote[2] <= e[2]
    BY <1>3 DEF From, Reaches, Byte
  <1>5. /\ r \in Seq(Int \X Int) /\ Len(r) = Len(d) - start /\ Len(r) > 0
        /\ \A i \in 1 .. Len(r) : r[i] = d[start + i]
    <2>1. \A i \in start + 1 .. Len(d) : d[i] \in Int \X Int
      BY <1>1, ElementOfSeq
    <2>2. /\ r \in Seq(Int \X Int)
          /\ Len(r) = IF start + 1 <= Len(d) THEN Len(d) - (start + 1) + 1 ELSE 0
          /\ \A i \in 1 .. Len(d) - (start + 1) + 1 : r[i] = d[(start + 1) + i - 1]
      BY <1>1, <2>1, SubSeqProperties
    <2> HIDE DEF r, d
    <2>3. Len(r) = Len(d) - start /\ Len(r) > 0
      BY <1>1, <2>2
    <2>4. \A i \in 1 .. Len(r) :
            i \in 1 .. Len(d) - (start + 1) + 1 /\ (start + 1) + i - 1 = start + i
      BY <1>1, <2>3
    <2> QED BY <2>2, <2>3, <2>4
  <1>10. first + Len(r) - 1 = remote[2]
    <2>1. Len(d) \in Nat /\ start \in Nat /\ remote[2] \in Nat
      BY <1>1
    <2>2. Len(r) = Len(d) - start
      BY <1>5
    <2> HIDE DEF r, d
    <2> QED BY <2>1, <2>2 DEF first
  <1> HIDE DEF r, first
  <1>6. \A i \in 1 .. Len(r) : r[i] = Byte(cl, first + i - 1)
    <2> SUFFICES ASSUME NEW i \in 1 .. Len(r) PROVE r[i] = Byte(cl, first + i - 1)
      OBVIOUS
    <2>1. start + i \in start + 1 .. Len(d) /\ first + (start + i) - start - 1 = first + i - 1
      BY <1>1, <1>2, <1>5
    <2> QED BY <1>3, <1>5, <2>1
  <1>7. r[1][2] = first /\ Len(r) \in Nat /\ first + Len(r) - 1 = remote[2]
    <2>1. Len(r) \in Nat /\ first + Len(r) - 1 = remote[2]
      BY <1>1, <1>5, <1>10
    <2>2. 1 \in 1 .. Len(r) /\ first + 1 - 1 = first
      BY <1>2, <1>5, <2>1
    <2>3. r[1] = Byte(cl, first)
      BY <1>6, <2>2
    <2> QED BY <2>1, <2>3 DEF Byte
  <1>8. r[Len(r)] \in ends /\ r # <<>> /\ DOMAIN r = 1 .. Len(r)
    <2>1. Len(r) \in 1 .. Len(r)
      BY <1>5, <1>7
    <2>2. r[Len(r)] = Byte(cl, remote[2])
      BY <1>6, <1>7, <2>1
    <2> QED BY <1>4, <1>5, <2>2, EmptySeq, LenProperties
  <1>9. ASSUME NEW i \in 1 .. Len(r) - 1 PROVE r[i] \notin ends
    <2>1. i \in 1 .. Len(r) /\ first + i - 1 < remote[2] /\ first <= first + i - 1
      BY <1>2, <1>7
    <2>4. r[i] = Byte(cl, first + i - 1)
      BY <1>6, <2>1
    <2>2. Byte(cl, first + i - 1)[1] = cl /\ Byte(cl, first + i - 1)[2] = first + i - 1
      BY DEF Byte
    <2>3. ~(remote[2] <= first + i - 1)
      BY <1>1, <1>2, <2>1
    <2> QED BY <1>4, <2>1, <2>2, <2>3, <2>4
  <1> QED BY <1>3, <1>6, <1>7, <1>8, <1>9 DEF r

(* The server begins to respond only to a whole request: what it has read  *)
(* of a client since it accepted it is one packet of that link, from its   *)
(* first byte to its last, nothing missing, repeated or of another browser,*)
(* for any number of browsers, requests, sizes and prints (WebServer.ino,  *)
(* loop; availData, getData).                                              *)
THEOREM RequestsAreWhole == WSpec => []WholeRequest
  <1>1. Served => WholeRequest
    BY ServedWhole
  <1> QED BY <1>1, ServedHolds, PTL
==============================================================================
