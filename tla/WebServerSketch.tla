--------------------------- MODULE WebServerSketch ---------------------------
(***************************************************************************)
(* The web server examples on the receive path of EspReceive: the loop of  *)
(* WebServer.ino, that of WebServerAP and WebServerLed but for how they    *)
(* look for the end of the request.  The browsers send requests of one     *)
(* packet whose last byte completes the blank line, at any moment, one or  *)
(* more on a link.                                                         *)
(*                                                                         *)
(* EspReceive leaves the order of the calls open (DrainFirst = FALSE); it  *)
(* is the sketch that decides here, by what the last call returned.        *)
(***************************************************************************)
EXTENDS EspReceive

CONSTANT MaxPrints    \* prints of a response, 11 in the code

ASSUME MaxPrintsAssumption == MaxPrints \in Nat \ {0}
ASSUME CallsAssumption ==
  {"accept", "status", "available", "read", "write", "stop"} \subseteq Ops

VARIABLES place,      \* where loop is
          cl,         \* the link of client
          start,      \* history: what was read of that link before
          printed     \* prints of this response so far

sketchVars == <<place, cl, start, printed>>
allVars == <<vars, sketchVars>>

(* The call of the last step has returned, and the sketch is at p. *)
At(p) == pc = "idle" /\ place = p

Goto(p) == place' = p /\ UNCHANGED <<cl, start, printed>>

(* A client without socket answers by itself. *)
HasSocket == cl \in live

-----------------------------------------------------------------------------
listen == At("listen") /\ Accept /\ Goto("accepted")

(* if (client) *)
noClient ==
  /\ At("accepted") /\ Returned = None
  /\ Goto("listen")
  /\ UNCHANGED vars

newClient ==
  /\ At("accepted") /\ Returned # None
  /\ place' = "while" /\ cl' = Returned /\ start' = Len(got[Returned]) /\ printed' = 0
  /\ UNCHANGED vars

(* while (client.connected()) *)
connected ==
  /\ At("while")
  /\ IF HasSocket THEN Call("status", cl) /\ Goto("connected")
     ELSE Goto("stop") /\ UNCHANGED vars

(* if (client.available()), but the loop ends when it is not connected. *)
available ==
  /\ At("connected")
  /\ IF Returned = "established" THEN Call("available", cl) /\ Goto("available")
     ELSE Goto("stop") /\ UNCHANGED vars

read ==
  /\ At("available")
  /\ IF Returned > 0 THEN Call("read", cl) /\ Goto("read")
     ELSE Goto("while") /\ UNCHANGED vars

(* A slip in the loop: it does not wait for the blank line. *)
RequestEnds_AnyByte(c) == c # NoByte

(* The end of the request is the last byte of a packet. *)
RequestEnds(c) == c \in ends

look ==
  /\ At("read")
  /\ Goto(IF RequestEnds(Returned) THEN "respond" ELSE "while")
  /\ UNCHANGED vars

(* A slip in the loop: the response does not end. *)
respond_NoEnd ==
  /\ At("respond")
  /\ printed' = printed + 1
  /\ place' = "respond"
  /\ IF HasSocket THEN Call("write", cl) ELSE UNCHANGED vars
  /\ UNCHANGED <<cl, start>>

(* client.print, again and again; nothing is sent without a socket. *)
respond ==
  /\ At("respond")
  /\ printed' = printed + 1
  /\ place' = IF printed + 1 = MaxPrints THEN "stop" ELSE "respond"
  /\ IF HasSocket THEN Call("write", cl) ELSE UNCHANGED vars
  /\ UNCHANGED <<cl, start>>

stop ==
  /\ At("stop")
  /\ IF HasSocket THEN Call("stop", cl) ELSE UNCHANGED vars
  /\ Goto("listen")

Loop == \/ listen \/ noClient \/ newClient \/ connected \/ available
        \/ read \/ look \/ respond \/ stop

-----------------------------------------------------------------------------
WInit == Init /\ place = "listen" /\ cl = 0 /\ start = 0 /\ printed = 0

Around == (Driver \/ Module \/ Arrive) /\ UNCHANGED sketchVars

WNext == Loop \/ Around

WSpec == /\ WInit /\ [][WNext]_allVars
         /\ WF_allVars(Loop)
         /\ WF_allVars(Driver /\ UNCHANGED sketchVars)
         /\ WF_allVars(Arrive /\ UNCHANGED sketchVars)
         /\ WF_allVars(Answer /\ UNCHANGED sketchVars)

-----------------------------------------------------------------------------
WTypeOK ==
  /\ TypeOK
  /\ place \in {"listen", "accepted", "while", "connected", "available", "read",
                "respond", "stop"}
  /\ cl \in Links \cup {0} /\ start \in Nat /\ printed \in 0 .. MaxPrints

(* What the server takes for a request is one: the bytes read since the    *)
(* client was accepted are those of one packet of its link, from the first *)
(* to the last, none missing, repeated or of another browser, when it      *)
(* begins to respond.                                                      *)
WholeRequest ==
  (At("respond") /\ printed = 0 /\ ~lost) =>
    LET r == SubSeq(got[cl], start + 1, Len(got[cl]))
    IN  /\ r # <<>> /\ r[Len(r)] \in ends
        /\ \A i \in DOMAIN r : r[i] = Byte(cl, r[1][2] + i - 1)
        /\ \A i \in 1 .. Len(r) - 1 : r[i] \notin ends
        /\ r[1][2] = 1 \/ Byte(cl, r[1][2] - 1) \in ends

(* The header of a packet of link 0 has been taken while the client is of  *)
(* another link.  Now availData answers for every link from that packet,   *)
(* and getData gives it to link 0 only.                                    *)
Wedged == cl # 0 /\ connId = 0 /\ bufPos > 0

(* Until the UART loses something, a client the server has accepted is     *)
(* answered and let go, whatever the browsers send or close meanwhile, and *)
(* the server listens again.  When a part of the request is lost it waits  *)
(* for the rest, and then until the browser closes the connection; only a  *)
(* header of link 0 that is taken while it waits keeps it from noticing.   *)
ListensAgain ==
  /\ place = "while" ~> (place = "listen" \/ lost)
  /\ (place = "while" /\ cl \notin open) ~> (place = "listen" \/ Wedged)
=============================================================================
