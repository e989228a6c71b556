---------------------------- MODULE WiFiEspSockets ----------------------------
(***************************************************************************)
(* The socket table of the library, the links of the ESP module, and the   *)
(* client, server and UDP objects that use both (WiFiEsp.cpp 209-230,      *)
(* WiFiEspClient.cpp, WiFiEspServer.cpp, WiFiEspUdp.cpp).                  *)
(*                                                                         *)
(* The table and the links are two accounts of the same thing, kept by two *)
(* machines: the library allocates a socket number when a call succeeded,  *)
(* the module opens and closes links on its own.  A call is one step here; *)
(* the serial line below it is the subject of EspCommand and EspReceive.   *)
(* Of what EspReceive is about there remains here whose packet comes next, *)
(* and the packet whose header has been taken (EspDrv::_connId), for       *)
(* availData answers for it, and not only to its owner.                    *)
(* Connections are numbered, so that a link that was closed and taken by   *)
(* another connection can be told from the first.                          *)
(***************************************************************************)
EXTENDS Integers, FiniteSets

CONSTANTS Clients,      \* the WiFiEspClient objects of the sketch
          Udps,         \* its WiFiEspUDP objects
          MaxSock,      \* MAX_SOCK_NUM, 4 in the code
          MaxLink,      \* the module's last link, 4 in the code
          MaxConns,     \* bound: connections made
          Careful       \* the sketch stops a client before it connects it again,
                        \* and begins a UDP object only once between stops

NA_STATE == -1
NO_SOCKET_AVAIL == 255
NoPacket == -1

ASSUME SizesAssumption ==
  /\ MaxSock \in Nat \ {0} /\ MaxLink \in Nat
  /\ MaxSock <= MaxLink + 1 /\ MaxLink < NO_SOCKET_AVAIL
ASSUME ObjectsAssumption == Clients \cap Udps = {}
ASSUME CarefulAssumption == Careful \in BOOLEAN
ASSUME MaxConnsAssumption == MaxConns \in Nat

VARIABLES state,        \* WiFiEspClass::_state, and the memory behind it
          sock,         \* _sock of every object
          conn,         \* history: the connection an object was given, or 0
          failed,       \* history: clients whose last connect failed
          link,         \* the module: the connection on each link, or 0
          unread,       \* the connection whose packet waits on a link, or 0
          taken, body,  \* the link whose packet's header has been taken and
                        \* is not read to its end (_connId), or NoPacket, and
                        \* the connection its bytes are of: 0 if they are gone
          listening,    \* the module: the server is on
          conns,        \* connections made so far
          told,         \* history: what a client was told last
          past          \* history: "clean" until a command times out or stray
                        \* bytes are read as data ("disturbed"), or until the
                        \* sketch begins a server ("served")

line == <<unread, taken, body>>
vars == <<state, sock, conn, failed, link, line, listening, conns, told, past>>

Objects == Clients \cup Udps
Socks == 0 .. MaxSock - 1
Links == 0 .. MaxLink

(* A client is told that it is connected, for what was found on connection *)
(* on: data, or the module's answer.                                       *)
Tell(c, by, on) == [obj |-> c, by |-> by, on |-> on]
Nothing == Tell("none", "none", 0)

Disturbed(b) == IF b /\ past = "clean" THEN "disturbed" ELSE past

-----------------------------------------------------------------------------
(* The table.                                                              *)

Free == {s \in Socks : state[s] = NA_STATE}

(* From the highest down: the module numbers incoming connections from 0 up*)
getFreeSocket == IF Free = {} THEN NO_SOCKET_AVAIL
                 ELSE CHOOSE s \in Free : \A t \in Free : s >= t

allocated(s) == [state EXCEPT ![s] = s]

(* A slip in releaseSocket: 0 for free, as WiFiEspServer::write has it. *)
released_Zero(s) == [state EXCEPT ![s] = 0]

released(s) == [state EXCEPT ![s] = NA_STATE]

(* An object gives up its socket. *)
Forget(o) == /\ sock' = [sock EXCEPT ![o] = NO_SOCKET_AVAIL]
             /\ conn' = [conn EXCEPT ![o] = 0]
             /\ failed' = failed \ {o}

-----------------------------------------------------------------------------
(* The module and the line.                                                *)

(* A peer connects to the server; the module takes its lowest free link. *)
Inbound ==
  LET idle == {l \in Links : link[l] = 0}
  IN  /\ listening /\ idle # {} /\ conns < MaxConns
      /\ conns' = conns + 1
      /\ link' = [link EXCEPT ![CHOOSE l \in idle : \A k \in idle : l <= k] = conns + 1]
      /\ UNCHANGED <<state, sock, conn, failed, line, listening, told, past>>

PeerSends(l) ==
  /\ link[l] # 0 /\ unread[l] = 0
  /\ unread' = [unread EXCEPT ![l] = link[l]]
  /\ UNCHANGED <<state, sock, conn, failed, link, taken, body, listening, conns, told, past>>

PeerCloses(l) ==
  /\ link[l] # 0
  /\ link' = [link EXCEPT ![l] = 0]
  /\ UNCHANGED <<state, sock, conn, failed, line, listening, conns, told, past>>

(* availData(s): the header that has been taken is enough if it is that of *)
(* s or of link 0; otherwise what waits is skipped up to the next header,  *)
(* whichever link's it is, and that is enough if it is that of s or if s   *)
(* is 0.                                                                   *)
Polls(s) ==
  IF taken \in {s, 0}
    THEN {[found |-> TRUE, unread |-> unread, taken |-> taken, body |-> body]}
  ELSE IF \A l \in Links : unread[l] = 0
    THEN {[found |-> FALSE, unread |-> unread, taken |-> taken, body |-> 0]}
  ELSE {[found |-> s \in {l, 0}, unread |-> [unread EXCEPT ![l] = 0],
         taken |-> l, body |-> unread[l]] : l \in {k \in Links : unread[k] # 0}}

(* Every command throws away what has been received and not read, but not  *)
(* what the driver remembers of it.                                        *)
Discard == unread' = [l \in Links |-> 0] /\ body' = 0

(* AT+CIPSTART on link s: done, refused, or done after the driver stopped  *)
(* waiting.                                                                *)
Start(s, result) ==
  /\ Discard /\ UNCHANGED taken
  /\ past' = Disturbed(result = "late")
  /\ \/ /\ result \in {"done", "late"}
        /\ link[s] = 0 /\ conns < MaxConns
        /\ conns' = conns + 1
        /\ link' = [link EXCEPT ![s] = conns + 1]
     \/ result = "refused" /\ UNCHANGED <<link, conns>>

(* AT+CIPCLOSE; its result is ignored, so it may not have happened. *)
Close(s) ==
  /\ Discard
  /\ link' \in {link, [link EXCEPT ![s] = 0]}

-----------------------------------------------------------------------------
(* WiFiEspClient.                                                          *)

(* A careful sketch stops a client whose connect failed before it goes on. *)
MayCall(o) == Careful => failed \subseteq {o}
MayUse == Careful => failed = {}

(* A slip in connect: the socket is not allocated. *)
connect_NoAllocate(c) ==
  LET s == getFreeSocket
  IN  /\ MayUse /\ (Careful => sock[c] = NO_SOCKET_AVAIL)
      /\ sock' = [sock EXCEPT ![c] = s]
      /\ s # NO_SOCKET_AVAIL
      /\ \E result \in {"done", "late", "refused"} :
           /\ Start(s, result)
           /\ conn' = [conn EXCEPT ![c] = IF result = "done" THEN conns + 1 ELSE 0]
           /\ failed' = IF result = "done" THEN failed \ {c} ELSE failed \cup {c}
      /\ told' = Nothing
      /\ UNCHANGED <<state, listening>>

connect(c) ==
  LET s == getFreeSocket
  IN  /\ MayUse /\ (Careful => sock[c] = NO_SOCKET_AVAIL)
      /\ sock' = [sock EXCEPT ![c] = s]
      /\ \/ /\ s = NO_SOCKET_AVAIL
            /\ conn' = [conn EXCEPT ![c] = 0] /\ failed' = failed \ {c}
            /\ UNCHANGED <<state, link, line, conns, past>>
         \/ /\ s # NO_SOCKET_AVAIL
            /\ \E result \in {"done", "late", "refused"} :
                 /\ Start(s, result)
                 /\ state' = IF result = "done" THEN allocated(s) ELSE state
                 /\ conn' = [conn EXCEPT ![c] = IF result = "done" THEN conns + 1 ELSE 0]
                 /\ failed' = IF result = "done" THEN failed \ {c} ELSE failed \cup {c}
      /\ told' = Nothing
      /\ UNCHANGED listening

(* A UDP object reads as many bytes as it finds before it stops: those of  *)
(* its packet, or others, or none.                                         *)
Flush(o, strays) ==
  IF o \notin Udps THEN taken' = taken /\ ~strays
  ELSE \E p \in Polls(sock[o]) :
         IF p.found /\ p.taken = sock[o]
           THEN IF p.body # 0 THEN taken' = NoPacket /\ ~strays
                ELSE /\ strays
                     /\ taken' \in {NoPacket, p.taken} \cup {l \in Links : p.unread[l] # 0}
           ELSE taken' = p.taken /\ ~strays

(* A slip in stop: the socket is not released. *)
stop_NoRelease(o) ==
  /\ MayCall(o) /\ sock[o] # NO_SOCKET_AVAIL
  /\ \E strays \in BOOLEAN :
       /\ Flush(o, strays)
       /\ Close(sock[o])
       /\ past' = Disturbed(strays \/ link'[sock[o]] # 0)
  /\ Forget(o)
  /\ told' = Nothing
  /\ UNCHANGED <<state, listening, conns>>

(* A slip in stop: the link is not closed. *)
stop_NoClose(o) ==
  /\ MayCall(o) /\ sock[o] # NO_SOCKET_AVAIL
  /\ \E strays \in BOOLEAN : Flush(o, strays) /\ past' = Disturbed(strays)
  /\ state' = released(sock[o])
  /\ Forget(o)
  /\ told' = Nothing
  /\ UNCHANGED <<listening, conns, link, unread, body>>

stop(o) ==
  /\ MayCall(o) /\ sock[o] # NO_SOCKET_AVAIL
  /\ \E strays \in BOOLEAN :
       /\ Flush(o, strays)
       /\ Close(sock[o])
       /\ past' = Disturbed(strays \/ link'[sock[o]] # 0)
  /\ state' = released(sock[o])
  /\ Forget(o)
  /\ told' = Nothing
  /\ UNCHANGED <<listening, conns>>

(* A slip in status: the socket of a client found closed is not released. *)
status_NoRelease(c) ==
  LET s == sock[c]
  IN  /\ MayUse /\ s # NO_SOCKET_AVAIL
      /\ \E p \in Polls(s) :
           /\ ~p.found /\ taken' = p.taken /\ Discard
           /\ told' = Nothing
           /\ past' = Disturbed(link[s] # 0)
           /\ Forget(c)
      /\ UNCHANGED <<state, link, listening, conns>>

(* connected() and status(): data; or else the module is asked, and a      *)
(* client not found connected gives its socket up.                         *)
status(c) ==
  LET s == sock[c]
  IN  /\ MayUse /\ s # NO_SOCKET_AVAIL
      /\ \E p \in Polls(s) :
           \/ /\ p.found
              /\ unread' = p.unread /\ taken' = p.taken /\ body' = p.body
              /\ told' = Tell(c, "data", p.body)
              /\ UNCHANGED <<state, sock, conn, failed, past>>
           \/ /\ ~p.found /\ taken' = p.taken /\ Discard
              /\ \/ /\ link[s] # 0
                    /\ told' = Tell(c, "answer", link[s])
                    /\ UNCHANGED <<state, sock, conn, failed, past>>
                 \/ /\ told' = Nothing
                    /\ past' = Disturbed(link[s] # 0)
                    /\ state' = released(s)
                    /\ Forget(c)
      /\ UNCHANGED <<link, listening, conns>>

(* available and parsePacket, and read to the end of the packet found.     *)
(* getData refuses another link's packet.  If the closing notice follows a *)
(* client's at once, the client is released.  If the packet's bytes are    *)
(* gone, what comes next is read for them, or nothing in time.             *)
read(o) ==
  LET s == sock[o]
  IN  /\ MayUse /\ s # NO_SOCKET_AVAIL
      /\ \E p \in Polls(s) :
           \/ /\ unread' = p.unread /\ taken' = p.taken /\ body' = p.body
              /\ UNCHANGED <<state, sock, conn, failed, past>>
           \/ /\ p.found /\ p.taken = s /\ p.body # 0
              /\ unread' = p.unread /\ taken' = NoPacket /\ body' = 0
              /\ UNCHANGED past
              /\ \/ UNCHANGED <<state, sock, conn, failed>>
                 \/ /\ o \in Clients /\ p.body \notin {link[s], p.unread[s]}
                    /\ state' = released(s) /\ Forget(o)
           \/ /\ p.found /\ p.taken = s /\ p.body = 0
              /\ \E eaten \in SUBSET {l \in Links : p.unread[l] # 0} :
                   unread' = [l \in Links |-> IF l \in eaten THEN 0 ELSE p.unread[l]]
              /\ taken' \in {NoPacket, s} /\ body' = 0
              /\ past' = Disturbed(TRUE)
              /\ \/ UNCHANGED <<state, sock, conn, failed>>
                 \/ o \in Clients /\ state' = released(s) /\ Forget(o)
      /\ told' = Nothing
      /\ UNCHANGED <<link, listening, conns>>

(* write: sockets past the table are refused; a write that fails stops. *)
write(c) ==
  LET s == sock[c]
  IN  /\ MayUse /\ s < MaxSock
      /\ \/ /\ link[s] # 0 /\ Discard
            /\ UNCHANGED <<state, sock, conn, failed, link, past>>
         \/ /\ Close(s)
            /\ past' = Disturbed(link[s] # 0)
            /\ state' = released(s)
            /\ Forget(c)
      /\ told' = Nothing
      /\ UNCHANGED <<taken, listening, conns>>

-----------------------------------------------------------------------------
(* WiFiEspServer.                                                          *)

(* begin: socket 1, whatever its state and whatever the module answers. *)
serverBegin ==
  /\ past' = "served"
  /\ state' = allocated(1)
  /\ listening' \in {TRUE, listening}
  /\ Discard
  /\ told' = Nothing
  /\ UNCHANGED <<sock, conn, failed, link, taken, conns>>

(* available: a client object for the link whose data come first, or one   *)
(* without a socket.                                                       *)
available(c) ==
  /\ past = "served" /\ MayUse /\ (Careful => sock[c] = NO_SOCKET_AVAIL)
  /\ \E p \in Polls(0) :
       /\ unread' = p.unread /\ taken' = p.taken /\ body' = p.body
       /\ \/ /\ p.found
             /\ state' = allocated(p.taken)
             /\ sock' = [sock EXCEPT ![c] = p.taken]
             /\ conn' = [conn EXCEPT ![c] = p.body]
             /\ failed' = failed \ {c}
          \/ ~p.found /\ Forget(c) /\ UNCHANGED state
  /\ told' = Nothing
  /\ UNCHANGED <<link, listening, conns, past>>

(* write to every socket whose state is not 0, through a temporary client  *)
(* that stops when the write fails.                                        *)
serverWrite ==
  LET written == {s \in Socks : state[s] # 0}
  IN  /\ past = "served"
      /\ \E stopped \in SUBSET written :
           /\ {s \in written : link[s] = 0} \subseteq stopped
           /\ state' = [s \in Links |-> IF s \in stopped THEN NA_STATE ELSE state[s]]
           /\ \E closed \in SUBSET stopped :
                link' = [s \in Links |-> IF s \in closed THEN 0 ELSE link[s]]
      /\ Discard
      /\ told' = Nothing
      /\ UNCHANGED <<sock, conn, failed, taken, listening, conns, past>>

-----------------------------------------------------------------------------
(* WiFiEspUDP.                                                             *)

(* begin: what startClient returns is not looked at. *)
udpBegin(u) ==
  LET s == getFreeSocket
  IN  /\ MayUse /\ (Careful => sock[u] = NO_SOCKET_AVAIL)
      /\ s # NO_SOCKET_AVAIL
      /\ \E result \in {"done", "late", "refused"} :
           /\ Start(s, result)
           /\ conn' = [conn EXCEPT ![u] = IF result = "refused" THEN 0 ELSE conns + 1]
      /\ state' = allocated(s)
      /\ sock' = [sock EXCEPT ![u] = s]
      /\ told' = Nothing
      /\ UNCHANGED <<failed, listening>>

(* beginPacket without begin: a socket is allocated, no link is opened. *)
beginPacket(u) ==
  LET s == getFreeSocket
  IN  /\ MayUse /\ sock[u] = NO_SOCKET_AVAIL /\ s # NO_SOCKET_AVAIL
      /\ state' = allocated(s)
      /\ sock' = [sock EXCEPT ![u] = s]
      /\ told' = Nothing
      /\ UNCHANGED <<conn, failed, link, line, listening, conns, past>>

(* write: whether it fails or not, what waits is gone. *)
udpWrite(u) ==
  /\ MayUse
  /\ Discard
  /\ told' = Nothing
  /\ UNCHANGED <<state, sock, conn, failed, link, taken, listening, conns, past>>

-----------------------------------------------------------------------------
(* WiFi.reset(): the module forgets its links, the library does not. *)
reset ==
  /\ MayUse
  /\ link' = [l \in Links |-> 0] /\ Discard
  /\ listening' = FALSE
  /\ told' = Nothing
  /\ UNCHANGED <<state, sock, conn, failed, taken, conns, past>>

Init ==
  /\ state = [l \in Links |-> NA_STATE]
  /\ sock = [o \in Objects |-> NO_SOCKET_AVAIL]
  /\ conn = [o \in Objects |-> 0]
  /\ failed = {}
  /\ link = [l \in Links |-> 0] /\ unread = [l \in Links |-> 0]
  /\ taken = NoPacket /\ body = 0
  /\ listening = FALSE /\ conns = 0 /\ told = Nothing /\ past = "clean"

Next ==
  \/ \E c \in Clients : connect(c) \/ status(c) \/ write(c) \/ available(c)
  \/ \E o \in Objects : stop(o) \/ read(o)
  \/ \E u \in Udps : udpBegin(u) \/ beginPacket(u) \/ udpWrite(u)
  \/ serverBegin \/ serverWrite \/ reset
  \/ Inbound \/ \E l \in Links : PeerSends(l) \/ PeerCloses(l)

Spec == Init /\ [][Next]_vars

-----------------------------------------------------------------------------
TypeOK ==
  /\ state \in [Links -> Int] /\ \A l \in Links : state[l] \in {NA_STATE, l}
  /\ sock \in [Objects -> Links \cup {NO_SOCKET_AVAIL}]
  /\ conn \in [Objects -> 0 .. conns]
  /\ failed \subseteq Clients
  /\ link \in [Links -> 0 .. conns] /\ unread \in [Links -> 0 .. conns]
  /\ taken \in Links \cup {NoPacket} /\ body \in 0 .. conns
  /\ listening \in BOOLEAN /\ conns \in 0 .. MaxConns
  /\ past \in {"clean", "disturbed", "served"}

(* Without a server no two objects have the same socket: what one of them  *)
(* stops is never the other's (getFreeSocket, allocateSocket,              *)
(* releaseSocket).                                                         *)
OneOwner ==
  past # "served" =>
    \A o, p \in Objects : (sock[o] = sock[p] /\ sock[o] # NO_SOCKET_AVAIL) => o = p

(* Without a server the table is exact: a socket is allocated just when an *)
(* object has it, unless that object's connect failed.  None leaks, over   *)
(* any number of connections, closed by either side, whatever commands     *)
(* time out.                                                               *)
NoSocketLeaks ==
  past # "served" =>
    \A s \in Socks :
      state[s] # NA_STATE <=> \E o \in Objects \ failed : sock[o] = s

(* Whatever commands fail and whatever connections come in: every socket   *)
(* in the table, but the server's, is held by an object that can give it   *)
(* back (read, status, write, stop and server.available).                  *)
TableIsHeld ==
  \A s \in Socks \ {1} : state[s] # NA_STATE => \E o \in Objects : sock[o] = s

(* Until a command times out or stray bytes are read, or a server begins,  *)
(* the module has no link open that no object of the sketch can close.     *)
NoOrphanLink ==
  past = "clean" => \A l \in Links : link[l] # 0 => \E o \in Objects : sock[o] = l

(* Without a server, the connection on the socket of a client whose connect*)
(* succeeded, and the data that wait there, are those the client was given,*)
(* whatever commands time out; those of a UDP object, until one does.      *)
Own(o) ==
  sock[o] # NO_SOCKET_AVAIL =>
    /\ link[sock[o]] \in {0, conn[o]} /\ unread[sock[o]] \in {0, conn[o]}
    /\ taken = sock[o] => body \in {0, conn[o]}

OwnConnection ==
  /\ past # "served" => \A c \in Clients \ failed : Own(c)
  /\ past = "clean" => \A u \in Udps : Own(u)

-----------------------------------------------------------------------------
(* What docs and comments of the code say.                                 *)

(* connected() returns true if the client is connected, or if there is     *)
(* still unread data (WiFiEspClient.h), and that of the peer it connected  *)
(* to.  Without a server it always is so by the module's answer, whatever  *)
(* commands time out.  By data it is so unless the client has socket 0,    *)
(* for which any link's data do, or the header that was taken is link 0's, *)
(* which does for any client, or the bytes behind that header were thrown  *)
(* away by a command.                                                      *)
ConnectedIsOwn ==
  (past # "served" /\ told # Nothing) =>
    \/ told.on = conn[told.obj]
    \/ told.by = "data" /\ (0 \in {sock[told.obj], taken} \/ body = 0)

(* The table has MAX_SOCK_NUM entries (EspDrv.h 42), and no entry past its *)
(* end is written: links are numbered 0 to 4 (EspDrv.cpp 339).             *)
InsideTable == \A l \in Links \ Socks : state[l] = NA_STATE

-----------------------------------------------------------------------------
(* Why these hold.                                                         *)

(* What waits on a link waits for an object. *)
DataAreHeld ==
  past = "clean" =>
    /\ \A l \in Links : unread[l] # 0 => \E o \in Objects : sock[o] = l
    /\ body # 0 => \E o \in Objects : sock[o] = taken

(* The inductive invariant, for a careful sketch: the two accounts agree.  *)
(* A socket that is free in the table has neither a link nor data behind   *)
(* it, so an object that takes it meets nothing of an earlier one's.       *)
Accounts ==
  /\ TypeOK /\ OneOwner /\ NoSocketLeaks
  /\ NoOrphanLink /\ DataAreHeld /\ OwnConnection
  /\ (listening => past = "served")
  /\ ConnectedIsOwn
=============================================================================
