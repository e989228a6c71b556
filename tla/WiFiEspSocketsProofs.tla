------------------------- MODULE WiFiEspSocketsProofs -------------------------
(* What holds of the socket table for any number of sockets, links, objects*)
(* and connections: its types; for a careful sketch, that without a server *)
(* no socket has two owners or leaks and a client meets its own connection *)
(* only, whatever fails, and that with one the table holds nothing that no *)
(* object can give back.                                                   *)
EXTENDS WiFiEspSockets, WellFoundedInduction, TLAPS

(* A set of naturals that is not empty has a least element. *)
LEMMA LeastNat ==
  ASSUME NEW T, T \subseteq Nat, T # {}
  PROVE  \E x \in T : \A y \in T : x <= y
  <1>1. PICK x \in T : \A y \in T : ~(<<y, x>> \in OpToRel(<, Nat))
    BY WFMin, NatLessThanWellFounded
  <1>2. \A y \in T : ~(y < x)
    BY <1>1 DEF OpToRel
  <1> QED BY <1>2

(* getFreeSocket returns a socket whose state is NA_STATE if there is one. *)
LEMMA FreeSocketIsFree ==
  ASSUME getFreeSocket # NO_SOCKET_AVAIL
  PROVE  /\ getFreeSocket \in Socks
         /\ state[getFreeSocket] = NA_STATE
  <1> DEFINE T == {MaxSock - s : s \in Free}
  <1>1. Free # {} /\ Free \subseteq Socks
    BY DEF getFreeSocket, Free
  <1>2. T \subseteq Nat /\ T # {}
    <2>1. \A s \in Free : MaxSock - s \in Nat
      BY <1>1, SizesAssumption DEF Socks
    <2>2. T \subseteq Nat
      BY <2>1
    <2>3. T # {}
      BY <1>1
    <2> QED BY <2>2, <2>3
  <1>3. PICK x \in T : \A y \in T : x <= y
    BY <1>2, LeastNat
  <1>4. PICK s \in Free : x = MaxSock - s
    OBVIOUS
  <1>5. \A t \in Free : s >= t
    <2> SUFFICES ASSUME NEW t \in Free PROVE s >= t
      OBVIOUS
    <2>1. MaxSock - s <= MaxSock - t
      BY <1>3, <1>4
    <2> QED BY <2>1, <1>1, SizesAssumption DEF Socks
  <1>6. getFreeSocket \in Free
    BY <1>1, <1>5 DEF getFreeSocket
  <1> QED BY <1>6 DEF Free

(* The table's numbers are links, and none of them is NO_SOCKET_AVAIL. *)
LEMMA Numbers == /\ Socks \subseteq Links
                 /\ NO_SOCKET_AVAIL \notin Links
                 /\ NA_STATE \notin Links
                 /\ NoPacket \notin Links
                 /\ NoPacket # NO_SOCKET_AVAIL
                 /\ Links \subseteq Int
                 /\ 0 \in Links
  BY SizesAssumption DEF Socks, Links, NO_SOCKET_AVAIL, NA_STATE, NoPacket

-----------------------------------------------------------------------------
(* What the parts of the actions do.                                       *)

LEMMA DiscardEffect ==
  ASSUME TypeOK, Discard
  PROVE  /\ unread' \in [Links -> 0 .. conns] /\ body' \in 0 .. conns
         /\ body' = 0 /\ \A l \in Links : unread'[l] = 0
  BY DEF TypeOK, Discard

LEMMA CloseEffect ==
  ASSUME TypeOK, NEW s \in Links, Close(s)
  PROVE  /\ link' \in [Links -> 0 .. conns] /\ Discard
         /\ \A l \in Links : link'[l] \in {0, link[l]}
  BY DEF TypeOK, Close

LEMMA AllocateTypes ==
  ASSUME TypeOK, NEW s \in Links, state' = allocated(s)
  PROVE  state' \in [Links -> Int] /\ \A l \in Links : state'[l] \in {NA_STATE, l}
  BY DEF TypeOK, allocated, Links

LEMMA ReleaseTypes ==
  ASSUME TypeOK, NEW o \in Objects, NEW s \in Links, Forget(o),
         state' = released(s)
  PROVE  /\ state' \in [Links -> Int] /\ \A l \in Links : state'[l] \in {NA_STATE, l}
         /\ sock' \in [Objects -> Links \cup {NO_SOCKET_AVAIL}]
         /\ conn' \in [Objects -> 0 .. conns]
         /\ failed' \subseteq Clients
  BY DEF TypeOK, Forget, released, NA_STATE

(* What availData finds: the packet whose header was taken, with its bytes *)
(* or without, or one that waited.                                         *)
LEMMA PollEffect ==
  ASSUME TypeOK, NEW s \in Links, NEW p \in Polls(s)
  PROVE  /\ p.unread \in [Links -> 0 .. conns]
         /\ p.taken \in Links \cup {NoPacket} /\ p.body \in 0 .. conns
         /\ \A l \in Links : p.unread[l] \in {0, unread[l]}
         /\ \/ p.taken = taken /\ p.body \in {0, body}
            \/ p.taken \in Links /\ p.body = unread[p.taken]
         /\ p.found => p.taken \in Links /\ (p.taken = s \/ 0 \in {s, p.taken})
<1> USE Numbers
<1>1. CASE taken \in {s, 0}
  <2>1. p = [found |-> TRUE, unread |-> unread, taken |-> taken, body |-> body]
    BY <1>1 DEF Polls
  <2> QED BY <1>1, <2>1 DEF TypeOK, Links
<1>2. CASE taken \notin {s, 0} /\ \A l \in Links : unread[l] = 0
  <2>1. p = [found |-> FALSE, unread |-> unread, taken |-> taken, body |-> 0]
    BY <1>2 DEF Polls
  <2> QED BY <2>1 DEF TypeOK
<1>3. CASE taken \notin {s, 0} /\ \E l \in Links : unread[l] # 0
  <2>1. PICK l \in {k \in Links : unread[k] # 0} :
          p = [found |-> s \in {l, 0}, unread |-> [unread EXCEPT ![l] = 0],
               taken |-> l, body |-> unread[l]]
    BY <1>3 DEF Polls
  <2>2. p.unread = [unread EXCEPT ![l] = 0] /\ p.taken = l /\ p.body = unread[l]
    BY <2>1
  <2>3. p.found => s \in {l, 0}
    BY <2>1
  <2>4. p.unread \in [Links -> 0 .. conns] /\ \A k \in Links : p.unread[k] \in {0, unread[k]}
    BY <2>2 DEF TypeOK
  <2> QED BY <2>2, <2>3, <2>4 DEF TypeOK, Links
<1> QED BY <1>1, <1>2, <1>3

LEMMA FlushEffect ==
  ASSUME TypeOK, NEW o \in Objects, sock[o] \in Links, NEW strays, Flush(o, strays)
  PROVE  taken' \in Links \cup {NoPacket}
<1>1. CASE o \notin Udps
  BY <1>1 DEF Flush, TypeOK
<1>2. CASE o \in Udps
  <2>1. PICK p \in Polls(sock[o]) :
          \/ taken' \in {NoPacket, p.taken} \cup {l \in Links : p.unread[l] # 0}
    BY <1>2 DEF Flush
  <2>2. p.taken \in Links \cup {NoPacket}
    BY PollEffect
  <2> QED BY <2>1, <2>2
<1> QED BY <1>1, <1>2

-----------------------------------------------------------------------------
(* The calls of an object that has a socket.                               *)

Calling(o) == \/ stop(o) \/ read(o)
              \/ o \in Clients /\ (status(o) \/ write(o))

(* No link opens and nothing new waits. *)
Fewer ==
  /\ \A l \in Links : link'[l] \in {0, link[l]} /\ unread'[l] \in {0, unread[l]}
  /\ \/ body' = 0
     \/ taken' = taken /\ body' = body
     \/ taken' \in Links /\ body' = unread[taken']

LineType ==
  /\ link' \in [Links -> 0 .. conns] /\ unread' \in [Links -> 0 .. conns]
  /\ taken' \in Links \cup {NoPacket} /\ body' \in 0 .. conns

PastKept == past' = past \/ (past = "clean" /\ past' = "disturbed")

(* Such a call keeps the object's socket or gives it back. *)
LEMMA CallEffect ==
  ASSUME TypeOK, NEW o \in Objects, Calling(o)
  PROVE  /\ sock[o] \in Links /\ Fewer /\ LineType /\ PastKept
         /\ UNCHANGED <<conns, listening>>
         /\ \/ UNCHANGED <<state, sock, conn, failed>>
            \/ state' = released(sock[o]) /\ Forget(o)
<1> USE Numbers
<1>1. CASE stop(o)
  <2>1. sock[o] \in Links
    BY <1>1 DEF stop, TypeOK
  <2>2. PICK strays \in BOOLEAN : /\ Flush(o, strays) /\ Close(sock[o])
                                  /\ past' = Disturbed(strays \/ link'[sock[o]] # 0)
    BY <1>1 DEF stop
  <2>3. taken' \in Links \cup {NoPacket}
    BY <2>1, <2>2, FlushEffect
  <2>4. /\ link' \in [Links -> 0 .. conns] /\ Discard
        /\ \A l \in Links : link'[l] \in {0, link[l]}
    BY <2>1, <2>2, CloseEffect
  <2>5. Fewer /\ LineType
    BY <2>3, <2>4, DiscardEffect DEF Fewer, LineType
  <2>6. PastKept
    BY <2>2 DEF PastKept, Disturbed
  <2> QED BY <1>1, <2>1, <2>5, <2>6 DEF stop
<1>2. CASE read(o)
  <2>1. sock[o] \in Links
    BY <1>2 DEF read, TypeOK
  <2>2. PICK p \in Polls(sock[o]) :
          /\ \/ unread' = p.unread /\ taken' = p.taken /\ body' = p.body
             \/ unread' = p.unread /\ taken' = NoPacket /\ body' = 0
             \/ /\ \E eaten \in SUBSET Links :
                      unread' = [l \in Links |-> IF l \in eaten THEN 0 ELSE p.unread[l]]
                /\ taken' \in {NoPacket, sock[o]} /\ body' = 0
    BY <1>2 DEF read
  <2>3. /\ p.unread \in [Links -> 0 .. conns]
        /\ p.taken \in Links \cup {NoPacket} /\ p.body \in 0 .. conns
        /\ \A l \in Links : p.unread[l] \in {0, unread[l]}
        /\ \/ p.taken = taken /\ p.body \in {0, body}
           \/ p.taken \in Links /\ p.body = unread[p.taken]
    BY <2>1, PollEffect
  <2>4. unread' \in [Links -> 0 .. conns] /\ \A l \in Links : unread'[l] \in {0, unread[l]}
    BY <2>2, <2>3 DEF TypeOK
  <2>5. link' = link /\ UNCHANGED <<conns, listening>>
    BY <1>2 DEF read
  <2>6. body' \in 0 .. conns /\ taken' \in Links \cup {NoPacket}
    BY <2>1, <2>2, <2>3 DEF TypeOK
  <2>7. Fewer /\ LineType
    BY <2>2, <2>3, <2>4, <2>5, <2>6 DEF Fewer, LineType, TypeOK
  <2>8. PastKept /\ (\/ UNCHANGED <<state, sock, conn, failed>>
                     \/ state' = released(sock[o]) /\ Forget(o))
    <3>1. past' = past \/ past' = Disturbed(TRUE)
      BY <1>2 DEF read
    <3>2. \/ UNCHANGED <<state, sock, conn, failed>>
          \/ state' = released(sock[o]) /\ Forget(o)
      BY <1>2 DEF read
    <3> QED BY <3>1, <3>2 DEF PastKept, Disturbed
  <2> QED BY <2>1, <2>5, <2>7, <2>8
<1>3. CASE o \in Clients /\ status(o)
  <2>1. sock[o] \in Links
    BY <1>3 DEF status, TypeOK
  <2>2. PICK p \in Polls(sock[o]) :
          /\ taken' = p.taken
          /\ (unread' = p.unread /\ body' = p.body) \/ Discard
    BY <1>3 DEF status
  <2>3. /\ p.unread \in [Links -> 0 .. conns]
        /\ p.taken \in Links \cup {NoPacket} /\ p.body \in 0 .. conns
        /\ \A l \in Links : p.unread[l] \in {0, unread[l]}
        /\ \/ p.taken = taken /\ p.body \in {0, body}
           \/ p.taken \in Links /\ p.body = unread[p.taken]
    BY <2>1, PollEffect
  <2>4. link' = link /\ UNCHANGED <<conns, listening>>
    BY <1>3 DEF status
  <2>5. Fewer /\ LineType
    <3>1. CASE Discard
      BY <2>2, <2>3, <2>4, <3>1, DiscardEffect DEF Fewer, LineType, TypeOK
    <3>2. CASE unread' = p.unread /\ body' = p.body
      BY <2>2, <2>3, <2>4, <3>2 DEF Fewer, LineType, TypeOK
    <3> QED BY <2>2, <3>1, <3>2
  <2>6. PastKept
    BY <1>3 DEF status, PastKept, Disturbed
  <2>7. \/ UNCHANGED <<state, sock, conn, failed>>
        \/ state' = released(sock[o]) /\ Forget(o)
    BY <1>3 DEF status
  <2> QED BY <2>1, <2>4, <2>5, <2>6, <2>7
<1>4. CASE o \in Clients /\ write(o)
  <2>1. sock[o] \in Links
    BY <1>4, SizesAssumption DEF write, TypeOK, Socks, NO_SOCKET_AVAIL
  <2>2. Discard /\ UNCHANGED <<taken, conns, listening>>
    BY <1>4 DEF write, Close
  <2>3. link' \in [Links -> 0 .. conns] /\ \A l \in Links : link'[l] \in {0, link[l]}
    BY <1>4, <2>1, CloseEffect DEF write, TypeOK
  <2>4. Fewer /\ LineType
    BY <2>2, <2>3, DiscardEffect DEF Fewer, LineType, TypeOK
  <2>5. PastKept
    BY <1>4 DEF write, PastKept, Disturbed
  <2>6. \/ UNCHANGED <<state, sock, conn, failed>>
        \/ state' = released(sock[o]) /\ Forget(o)
    BY <1>4 DEF write
  <2> QED BY <2>1, <2>2, <2>4, <2>5, <2>6
<1> QED BY <1>1, <1>2, <1>3, <1>4 DEF Calling

(* AT+CIPSTART. *)
LEMMA StartEffect ==
  ASSUME TypeOK, NEW s \in Links, NEW result \in {"done", "late", "refused"},
         Start(s, result)
  PROVE  /\ Discard /\ taken' = taken
         /\ link' \in [Links -> 0 .. conns'] /\ unread' \in [Links -> 0 .. conns']
         /\ body' \in 0 .. conns'
         /\ conns' \in 0 .. MaxConns /\ conns <= conns'
         /\ result # "refused" => conns' = conns + 1 /\ link[s] = 0 /\ link'[s] = conns + 1
         /\ result = "refused" => link' = link
         /\ \A l \in Links : l # s => link'[l] = link[l]
         /\ PastKept /\ (past' = "clean" => result # "late")
<1>1. PastKept /\ (past' = "clean" => result # "late")
  BY DEF Start, PastKept, Disturbed
<1>2. /\ Discard /\ taken' = taken
      /\ \/ /\ result # "refused" /\ link[s] = 0 /\ conns < MaxConns
            /\ conns' = conns + 1 /\ link' = [link EXCEPT ![s] = conns + 1]
         \/ result = "refused" /\ UNCHANGED <<link, conns>>
  BY DEF Start
<1>3. conns' \in 0 .. MaxConns /\ conns <= conns'
  BY <1>2, MaxConnsAssumption DEF TypeOK
<1>4. unread' \in [Links -> 0 .. conns'] /\ body' \in 0 .. conns'
  BY <1>2, <1>3 DEF Discard, TypeOK
<1>5. link' \in [Links -> 0 .. conns']
  BY <1>2, <1>3 DEF TypeOK
<1> QED BY <1>1, <1>2, <1>3, <1>4, <1>5 DEF TypeOK

(* The state space is closed under every action. *)
LEMMA TypeStep == TypeOK /\ [Next]_vars => TypeOK'
  <1> SUFFICES ASSUME TypeOK, [Next]_vars PROVE TypeOK'
    OBVIOUS
  <1> USE Numbers
  <1>0. Clients \subseteq Objects /\ Udps \subseteq Objects
    BY DEF Objects
  <1>1. ASSUME NEW c \in Clients, connect(c) PROVE TypeOK'
    <2> DEFINE s == getFreeSocket
    <2>1. CASE s = NO_SOCKET_AVAIL
      <3>1. /\ sock' = [sock EXCEPT ![c] = s] /\ conn' = [conn EXCEPT ![c] = 0]
            /\ failed' = failed \ {c}
            /\ UNCHANGED <<state, link, unread, taken, body, conns, past, listening>>
        BY <1>1, <2>1, FreeSocketIsFree DEF connect, line
      <3> QED BY <1>0, <2>1, <3>1 DEF TypeOK
    <2>2. CASE s # NO_SOCKET_AVAIL
      <3>1. s \in Links
        BY <2>2, FreeSocketIsFree
      <3>2. PICK result \in {"done", "late", "refused"} :
              /\ Start(s, result)
              /\ state' = IF result = "done" THEN allocated(s) ELSE state
              /\ conn' = [conn EXCEPT ![c] = IF result = "done" THEN conns + 1 ELSE 0]
              /\ failed' = IF result = "done" THEN failed \ {c} ELSE failed \cup {c}
        BY <1>1, <2>2 DEF connect
      <3>3. /\ sock' = [sock EXCEPT ![c] = s] /\ listening' = listening
        BY <1>1 DEF connect
      <3>4. /\ taken' = taken
            /\ link' \in [Links -> 0 .. conns'] /\ unread' \in [Links -> 0 .. conns']
            /\ body' \in 0 .. conns'
            /\ conns' \in 0 .. MaxConns /\ conns <= conns'
            /\ result # "refused" => conns' = conns + 1
            /\ PastKept
        BY <3>1, <3>2, StartEffect
      <3>5. state' \in [Links -> Int] /\ \A l \in Links : state'[l] \in {NA_STATE, l}
        BY <3>1, <3>2, AllocateTypes DEF TypeOK
      <3>6. conn' \in [Objects -> 0 .. conns']
        BY <1>0, <3>2, <3>4 DEF TypeOK
      <3>7. past' \in {"clean", "disturbed", "served"}
        BY <3>4 DEF PastKept, TypeOK
      <3> QED BY <1>0, <3>1, <3>2, <3>3, <3>4, <3>5, <3>6, <3>7 DEF TypeOK
    <2> QED BY <2>1, <2>2
  <1>2. ASSUME NEW o \in Objects, Calling(o) PROVE TypeOK'
    <2>1. /\ sock[o] \in Links /\ LineType /\ PastKept
          /\ UNCHANGED <<conns, listening>>
          /\ \/ UNCHANGED <<state, sock, conn, failed>>
             \/ state' = released(sock[o]) /\ Forget(o)
      BY <1>2, CallEffect
    <2>2. past' \in {"clean", "disturbed", "served"}
      BY <2>1 DEF PastKept, TypeOK
    <2>3. /\ state' \in [Links -> Int] /\ \A l \in Links : state'[l] \in {NA_STATE, l}
          /\ sock' \in [Objects -> Links \cup {NO_SOCKET_AVAIL}]
          /\ conn' \in [Objects -> 0 .. conns]
          /\ failed' \subseteq Clients
      <3>1. CASE UNCHANGED <<state, sock, conn, failed>>
        BY <3>1 DEF TypeOK
      <3>2. CASE state' = released(sock[o]) /\ Forget(o)
        BY <2>1, <3>2, ReleaseTypes
      <3> QED BY <2>1, <3>1, <3>2
    <2> QED BY <2>1, <2>2, <2>3 DEF LineType, TypeOK
  <1>3. ASSUME NEW c \in Clients, available(c) PROVE TypeOK'
    <2>1. PICK p \in Polls(0) :
            /\ unread' = p.unread /\ taken' = p.taken /\ body' = p.body
            /\ \/ /\ p.found
                  /\ state' = allocated(p.taken)
                  /\ sock' = [sock EXCEPT ![c] = p.taken]
                  /\ conn' = [conn EXCEPT ![c] = p.body]
                  /\ failed' = failed \ {c}
               \/ ~p.found /\ Forget(c) /\ UNCHANGED state
      BY <1>3 DEF available
    <2>2. UNCHANGED <<link, listening, conns, past>>
      BY <1>3 DEF available
    <2>3. /\ p.unread \in [Links -> 0 .. conns]
          /\ p.taken \in Links \cup {NoPacket} /\ p.body \in 0 .. conns
          /\ p.found => p.taken \in Links
      BY PollEffect
    <2>4. CASE /\ p.found
               /\ state' = allocated(p.taken)
               /\ sock' = [sock EXCEPT ![c] = p.taken]
               /\ conn' = [conn EXCEPT ![c] = p.body]
               /\ failed' = failed \ {c}
      <3>1. state' \in [Links -> Int] /\ \A l \in Links : state'[l] \in {NA_STATE, l}
        BY <2>3, <2>4, AllocateTypes
      <3> QED BY <1>0, <2>1, <2>2, <2>3, <2>4, <3>1 DEF TypeOK
    <2>5. CASE Forget(c) /\ UNCHANGED state
      <3>1. sock' \in [Objects -> Links \cup {NO_SOCKET_AVAIL}]
        BY <2>5 DEF Forget, TypeOK
      <3>2. conn' \in [Objects -> 0 .. conns]
        <4>1. 0 \in 0 .. conns /\ conn \in [Objects -> 0 .. conns]
          BY DEF TypeOK
        <4>2. conn' = [conn EXCEPT ![c] = 0]
          BY <2>5 DEF Forget
        <4> QED BY <4>1, <4>2
      <3>3. failed' \subseteq Clients
        BY <2>5 DEF Forget, TypeOK
      <3> QED BY <2>1, <2>2, <2>3, <2>5, <3>1, <3>2, <3>3 DEF TypeOK
    <2> QED BY <2>1, <2>4, <2>5
  <1>4. CASE serverBegin
    <2>1. state' \in [Links -> Int] /\ \A l \in Links : state'[l] \in {NA_STATE, l}
      BY <1>4 DEF serverBegin, allocated, TypeOK
    <2>2. unread' \in [Links -> 0 .. conns] /\ body' \in 0 .. conns
      BY <1>4, DiscardEffect DEF serverBegin
    <2> QED BY <1>4, <2>1, <2>2 DEF serverBegin, TypeOK
  <1>5. CASE serverWrite
    <2>1. /\ \E stopped \in SUBSET Socks :
                state' = [s \in Links |-> IF s \in stopped THEN NA_STATE ELSE state[s]]
          /\ \E closed \in SUBSET Socks :
                link' = [s \in Links |-> IF s \in closed THEN 0 ELSE link[s]]
      BY <1>5 DEF serverWrite
    <2>2. state' \in [Links -> Int] /\ \A l \in Links : state'[l] \in {NA_STATE, l}
      BY <2>1 DEF TypeOK, NA_STATE
    <2>3. link' \in [Links -> 0 .. conns]
      BY <2>1 DEF TypeOK
    <2>4. unread' \in [Links -> 0 .. conns] /\ body' \in 0 .. conns
      BY <1>5, DiscardEffect DEF serverWrite
    <2> QED BY <1>5, <2>2, <2>3, <2>4 DEF serverWrite, TypeOK
  <1>6. CASE reset
    <2>1. /\ link' \in [Links -> 0 .. conns] /\ unread' \in [Links -> 0 .. conns]
          /\ body' \in 0 .. conns
      BY <1>6, DiscardEffect DEF reset, TypeOK
    <2> QED BY <1>6, <2>1 DEF reset, TypeOK
  <1>7. ASSUME NEW u \in Udps, udpBegin(u) PROVE TypeOK'
    <2> DEFINE s == getFreeSocket
    <2>1. s \in Links
      BY <1>7, FreeSocketIsFree DEF udpBegin
    <2>2. PICK result \in {"done", "late", "refused"} :
            /\ Start(s, result)
            /\ conn' = [conn EXCEPT ![u] = IF result = "refused" THEN 0 ELSE conns + 1]
      BY <1>7 DEF udpBegin
    <2>3. /\ taken' = taken
          /\ link' \in [Links -> 0 .. conns'] /\ unread' \in [Links -> 0 .. conns']
          /\ body' \in 0 .. conns'
          /\ conns' \in 0 .. MaxConns /\ conns <= conns'
          /\ result # "refused" => conns' = conns + 1
          /\ PastKept
      BY <2>1, <2>2, StartEffect
    <2>4. conn' \in [Objects -> 0 .. conns']
      BY <1>0, <2>2, <2>3 DEF TypeOK
    <2>5. state' \in [Links -> Int] /\ \A l \in Links : state'[l] \in {NA_STATE, l}
      BY <1>7, <2>1, AllocateTypes DEF udpBegin
    <2>6. past' \in {"clean", "disturbed", "served"}
      BY <2>3 DEF PastKept, TypeOK
    <2> QED BY <1>0, <1>7, <2>1, <2>3, <2>4, <2>5, <2>6 DEF udpBegin, TypeOK
  <1>8. ASSUME NEW u \in Udps, beginPacket(u) PROVE TypeOK'
    <2>1. getFreeSocket \in Links
      BY <1>8, FreeSocketIsFree DEF beginPacket
    <2>2. state' \in [Links -> Int] /\ \A l \in Links : state'[l] \in {NA_STATE, l}
      BY <1>8, <2>1, AllocateTypes DEF beginPacket
    <2> QED BY <1>0, <1>8, <2>1, <2>2 DEF beginPacket, line, TypeOK
  <1>9. ASSUME NEW u \in Udps, udpWrite(u) PROVE TypeOK'
    <2>1. unread' \in [Links -> 0 .. conns] /\ body' \in 0 .. conns
      BY <1>9, DiscardEffect DEF udpWrite
    <2> QED BY <1>9, <2>1 DEF udpWrite, TypeOK
  <1>10. CASE Inbound
    <2>1. PICK l : link' = [link EXCEPT ![l] = conns + 1]
      BY <1>10 DEF Inbound
    <2>2. conns' = conns + 1 /\ conns < MaxConns /\ conns \in 0 .. MaxConns
      BY <1>10 DEF Inbound, TypeOK
    <2>3. conns' \in 0 .. MaxConns
      BY <2>2, MaxConnsAssumption
    <2>4. UNCHANGED <<state, sock, conn, failed, unread, taken, body, listening, past>>
      BY <1>10 DEF Inbound, line
    <2>5. link' \in [Links -> 0 .. conns']
      <3>1. \A k \in Links : link[k] \in 0 .. conns' /\ conns + 1 \in 0 .. conns'
        BY <2>2 DEF TypeOK
      <3>2. link' = [k \in Links |-> IF k = l THEN conns + 1 ELSE link[k]]
        BY <2>1 DEF TypeOK
      <3> QED BY <3>1, <3>2
    <2>6. /\ conn' \in [Objects -> 0 .. conns'] /\ unread' \in [Links -> 0 .. conns']
          /\ body' \in 0 .. conns'
      BY <2>2, <2>4 DEF TypeOK
    <2> QED BY <2>5, <2>6, <2>3, <2>4 DEF TypeOK
  <1>11. ASSUME NEW l \in Links, PeerSends(l) \/ PeerCloses(l) PROVE TypeOK'
    BY <1>11 DEF PeerSends, PeerCloses, line, TypeOK
  <1>12. CASE UNCHANGED vars
    BY <1>12 DEF vars, line, TypeOK
  <1> QED BY <1>0, <1>1, <1>2, <1>3, <1>4, <1>5, <1>6, <1>7, <1>8, <1>9, <1>10, <1>11,
             <1>12 DEF Next, Calling

(* Every table starts out empty, every object without a socket. *)
LEMMA InitTypes == Init => TypeOK
  <1> SUFFICES ASSUME Init PROVE TypeOK
    OBVIOUS
  <1>1. state \in [Links -> Int] /\ \A l \in Links : state[l] \in {NA_STATE, l}
    BY DEF Init, NA_STATE
  <1>2. /\ conn \in [Objects -> 0 .. conns] /\ body \in 0 .. conns
        /\ link \in [Links -> 0 .. conns] /\ unread \in [Links -> 0 .. conns]
    BY DEF Init
  <1>3. sock \in [Objects -> Links \cup {NO_SOCKET_AVAIL}] /\ failed \subseteq Clients
    BY DEF Init
  <1>4. conns \in 0 .. MaxConns
    BY MaxConnsAssumption DEF Init
  <1>5. listening \in BOOLEAN /\ taken \in Links \cup {NoPacket}
        /\ past \in {"clean", "disturbed", "served"}
    BY DEF Init
  <1> QED BY <1>1, <1>2, <1>3, <1>4, <1>5 DEF TypeOK

(* The types of the table, the objects and the links hold with and without *)
(* a server, for any sketch.                                               *)
THEOREM TypeCorrectness == Spec => []TypeOK
  BY InitTypes, TypeStep, PTL DEF Spec

-----------------------------------------------------------------------------
(* A careful sketch without a server.                                      *)

Owned == TypeOK /\ OneOwner /\ NoSocketLeaks

(* An object without a socket takes a free one: allocated, or, when its    *)
(* connect failed, not.                                                    *)
LEMMA TakeSocket ==
  ASSUME Owned, past # "served", failed = {}, NEW o \in Objects, sock[o] = NO_SOCKET_AVAIL,
         NEW s \in Socks, state[s] = NA_STATE,
         sock' = [sock EXCEPT ![o] = s],
         \/ state' = allocated(s) /\ failed' = {}
         \/ state' = state /\ failed' = {o}
  PROVE  OneOwner' /\ NoSocketLeaks'
  <1> USE Numbers DEF Owned, TypeOK
  <1>1. \A p \in Objects : sock[p] # s
    BY DEF NoSocketLeaks
  <1>2. \A p \in Objects : sock'[p] = IF p = o THEN s ELSE sock[p]
    OBVIOUS
  <1>3. OneOwner'
    BY <1>1, <1>2 DEF OneOwner
  <1>4. ASSUME NEW t \in Socks
        PROVE  state'[t] # NA_STATE <=> \E p \in Objects \ failed' : sock'[p] = t
    <2>1. state[t] # NA_STATE <=> \E p \in Objects : sock[p] = t
      BY DEF NoSocketLeaks
    <2>2. t # s => state'[t] = state[t]
      BY DEF allocated
    <2>3. CASE t = s
      <3>1. CASE state' = allocated(s) /\ failed' = {}
        <4>1. state'[t] = s
          BY <2>3, <3>1 DEF allocated
        <4> QED BY <1>2, <2>3, <3>1, <4>1
      <3>2. CASE state' = state /\ failed' = {o}
        BY <1>1, <1>2, <2>3, <3>2
      <3> QED BY <3>1, <3>2
    <2>4. CASE t # s
      BY <1>2, <2>1, <2>2, <2>4
    <2> QED BY <2>3, <2>4
  <1> QED BY <1>3, <1>4 DEF NoSocketLeaks

(* An object gives its socket back: no other object had it. *)
LEMMA GiveSocket ==
  ASSUME Owned, past # "served", NEW o \in Objects, failed \subseteq {o}, sock[o] # NO_SOCKET_AVAIL,
         state' = released(sock[o]), Forget(o)
  PROVE  OneOwner' /\ NoSocketLeaks'
  <1> USE Numbers DEF Owned, TypeOK
  <1>1. sock[o] \in Links /\ failed' = {}
    BY DEF Forget
  <1>2. \A p \in Objects : sock'[p] = IF p = o THEN NO_SOCKET_AVAIL ELSE sock[p]
    BY DEF Forget
  <1>3. OneOwner'
    BY <1>2 DEF OneOwner
  <1>4. ASSUME NEW t \in Socks
        PROVE  state'[t] # NA_STATE <=> \E p \in Objects : sock'[p] = t
    <2>1. CASE t = sock[o]
      <3>1. state'[t] = NA_STATE
        BY <1>1, <2>1 DEF released
      <3>2. \A p \in Objects : sock'[p] # t
        BY <1>1, <1>2, <2>1 DEF OneOwner
      <3> QED BY <3>1, <3>2
    <2>2. CASE t # sock[o]
      <3>1. state'[t] = state[t]
        BY <1>1, <2>2 DEF released
      <3>2. (\E p \in Objects : sock'[p] = t) <=> \E p \in Objects \ failed : sock[p] = t
        BY <1>2, <2>2
      <3> QED BY <3>1, <3>2 DEF NoSocketLeaks
    <2> QED BY <2>1, <2>2
  <1> QED BY <1>1, <1>3, <1>4 DEF NoSocketLeaks

(* What does not touch the table, the sockets or the failed clients. *)
LEMMA KeepSockets ==
  ASSUME Owned, past # "served", UNCHANGED <<state, sock, failed>>
  PROVE  OneOwner' /\ NoSocketLeaks'
  BY DEF Owned, OneOwner, NoSocketLeaks

(* No step takes the server back. *)
LEMMA PastStep ==
  ASSUME TypeOK, [Next]_vars
  PROVE  /\ past = "served" => past' = "served"
         /\ past' = "clean" => past = "clean"
  <1>1. ASSUME NEW c \in Clients, connect(c)
        PROVE  past' = past \/ \E b \in BOOLEAN : past' = Disturbed(b)
    BY <1>1 DEF connect, Start
  <1>2. ASSUME NEW u \in Udps, udpBegin(u)
        PROVE  past' = past \/ \E b \in BOOLEAN : past' = Disturbed(b)
    BY <1>2 DEF udpBegin, Start
  <1>3. ASSUME NEW o \in Objects, Calling(o) PROVE PastKept
    BY <1>3, CallEffect
  <1>4. ASSUME NEW c \in Clients, available(c) PROVE past' = past
    BY <1>4 DEF available
  <1>5. CASE serverBegin
    BY <1>5 DEF serverBegin
  <1>6. CASE \/ serverWrite \/ reset \/ Inbound \/ UNCHANGED vars
             \/ \E u \in Udps : beginPacket(u) \/ udpWrite(u)
             \/ \E l \in Links : PeerSends(l) \/ PeerCloses(l)
    BY <1>6 DEF serverWrite, reset, Inbound, vars, beginPacket, udpWrite, PeerSends,
                PeerCloses
  <1> QED BY <1>1, <1>2, <1>3, <1>4, <1>5, <1>6
          DEF Next, Calling, Objects, Disturbed, PastKept

LEMMA OwnedStep ==
  ASSUME Careful, Owned, [Next]_vars
  PROVE  OneOwner' /\ NoSocketLeaks'
  <1> USE Numbers
  <1> SUFFICES ASSUME past' # "served" PROVE OneOwner' /\ NoSocketLeaks'
    BY DEF OneOwner, NoSocketLeaks
  <1>0. TypeOK /\ past # "served"
    BY PastStep DEF Owned
  <1>1. ASSUME NEW c \in Clients, connect(c) PROVE OneOwner' /\ NoSocketLeaks'
    <2> DEFINE s == getFreeSocket
    <2>1. /\ failed = {} /\ sock[c] = NO_SOCKET_AVAIL /\ c \in Objects
          /\ sock' = [sock EXCEPT ![c] = s]
      BY <1>1 DEF connect, MayUse, Objects
    <2>2. CASE s = NO_SOCKET_AVAIL
      <3>1. state' = state /\ failed' = {}
        BY <1>1, <2>1, <2>2, FreeSocketIsFree DEF connect
      <3>2. sock' = sock
        BY <2>1, <2>2 DEF Owned, TypeOK
      <3> QED BY <1>0, <2>1, <3>1, <3>2, KeepSockets
    <2>3. CASE s # NO_SOCKET_AVAIL
      <3>1. \/ state' = allocated(s) /\ failed' = {}
            \/ state' = state /\ failed' = {c}
        BY <1>1, <2>1, <2>3 DEF connect
      <3> QED BY <1>0, <2>1, <2>3, <3>1, FreeSocketIsFree, TakeSocket
    <2> QED BY <2>2, <2>3
  <1>2. ASSUME NEW o \in Objects, Calling(o) PROVE OneOwner' /\ NoSocketLeaks'
    <2>1. failed \subseteq {o}
      BY <1>2 DEF Calling, stop, read, status, write, MayCall, MayUse
    <2>2. /\ sock[o] \in Links
          /\ \/ UNCHANGED <<state, sock, conn, failed>>
             \/ state' = released(sock[o]) /\ Forget(o)
      BY <1>0, <1>2, CallEffect
    <2>3. sock[o] # NO_SOCKET_AVAIL
      BY <2>2
    <2> QED BY <1>0, <2>1, <2>2, <2>3, GiveSocket, KeepSockets
  <1>3. ASSUME NEW u \in Udps, udpBegin(u) \/ beginPacket(u)
        PROVE  OneOwner' /\ NoSocketLeaks'
    <2>1. /\ failed = {} /\ sock[u] = NO_SOCKET_AVAIL /\ u \in Objects
          /\ getFreeSocket # NO_SOCKET_AVAIL
          /\ sock' = [sock EXCEPT ![u] = getFreeSocket]
          /\ state' = allocated(getFreeSocket) /\ failed' = {}
      BY <1>3 DEF udpBegin, beginPacket, MayUse, Objects
    <2> QED BY <1>0, <2>1, FreeSocketIsFree, TakeSocket
  <1>4. CASE \/ reset \/ Inbound \/ UNCHANGED vars
             \/ \E u \in Udps : udpWrite(u)
             \/ \E l \in Links : PeerSends(l) \/ PeerCloses(l)
    <2>1. UNCHANGED <<state, sock, failed>>
      BY <1>4 DEF reset, Inbound, vars, udpWrite, PeerSends, PeerCloses
    <2> QED BY <1>0, <2>1, KeepSockets
  <1>5. ~serverBegin /\ ~serverWrite /\ \A c \in Clients : ~available(c)
    BY <1>0 DEF serverBegin, serverWrite, available
  <1>6. Udps \subseteq Objects /\ Clients \subseteq Objects
    BY DEF Objects
  <1> QED BY <1>1, <1>2, <1>3, <1>4, <1>5, <1>6 DEF Next, Calling

(* For a careful sketch no socket has two owners and none leaks, over any  *)
(* number of connections, whatever peers close and commands time out       *)
(* (connect, status, read, write, stop and the UDP calls), until it begins *)
(* a server.                                                               *)
THEOREM Ownership ==
  ASSUME Careful
  PROVE  Spec => [](OneOwner /\ NoSocketLeaks)
  <1>1. Init => Owned
    <2>1. Init => TypeOK
      BY InitTypes
    <2>2. Init => OneOwner /\ NoSocketLeaks
      BY Numbers DEF Init, OneOwner, NoSocketLeaks, Socks
    <2> QED BY <2>1, <2>2 DEF Owned
  <1>2. Owned /\ [Next]_vars => Owned'
    BY OwnedStep, TypeStep DEF Owned
  <1>3. Owned => OneOwner /\ NoSocketLeaks
    BY DEF Owned
  <1> QED BY <1>1, <1>2, <1>3, PTL DEF Spec

-----------------------------------------------------------------------------
(* With a server.                                                          *)

LEMMA HeldStep ==
  ASSUME Careful, TypeOK, TableIsHeld, [Next]_vars
  PROVE  TableIsHeld'
  <1> USE Numbers DEF TypeOK
  <1> DEFINE Takes(o, s) == /\ sock[o] = NO_SOCKET_AVAIL
                            /\ sock' = [sock EXCEPT ![o] = s]
                            /\ state' = state \/ state' = allocated(s)
             Gives(o) == state' = released(sock[o]) /\ Forget(o)
  <1>1. ASSUME NEW o \in Objects, NEW s \in Links, Takes(o, s)
        PROVE  TableIsHeld'
    <2> SUFFICES ASSUME NEW t \in Socks \ {1}, state'[t] # NA_STATE
                 PROVE  \E p \in Objects : sock'[p] = t
      BY DEF TableIsHeld
    <2>1. CASE t = s
      BY <1>1, <2>1
    <2>2. CASE t # s
      <3>1. state[t] # NA_STATE
        BY <1>1, <2>2 DEF allocated
      <3>2. PICK p \in Objects : sock[p] = t
        BY <3>1 DEF TableIsHeld
      <3>3. p # o
        BY <1>1, <3>2
      <3> QED BY <1>1, <3>2, <3>3
    <2> QED BY <2>1, <2>2
  <1>2. ASSUME NEW o \in Objects, sock[o] \in Links, Gives(o)
        PROVE  TableIsHeld'
    <2> SUFFICES ASSUME NEW t \in Socks \ {1}, state'[t] # NA_STATE
                 PROVE  \E p \in Objects : sock'[p] = t
      BY DEF TableIsHeld
    <2>1. t # sock[o] /\ state[t] # NA_STATE
      BY <1>2 DEF released
    <2>2. PICK p \in Objects : sock[p] = t
      BY <2>1 DEF TableIsHeld
    <2> QED BY <1>2, <2>1, <2>2 DEF Forget
  <1>3. ASSUME sock' = sock, \A t \in Socks \ {1} : state'[t] \in {state[t], NA_STATE}
        PROVE  TableIsHeld'
    BY <1>3 DEF TableIsHeld
  <1>4. ASSUME NEW c \in Clients, connect(c) PROVE TableIsHeld'
    <2> DEFINE s == getFreeSocket
    <2>1. /\ sock[c] = NO_SOCKET_AVAIL /\ c \in Objects
          /\ sock' = [sock EXCEPT ![c] = s]
      BY <1>4 DEF connect, Objects
    <2>2. CASE s = NO_SOCKET_AVAIL
      BY <1>3, <1>4, <2>1, <2>2 DEF connect
    <2>3. CASE s # NO_SOCKET_AVAIL
      <3>1. s \in Links
        BY <2>3, FreeSocketIsFree
      <3>2. state' = state \/ state' = allocated(s)
        BY <1>4, <2>3 DEF connect
      <3> QED BY <1>1, <2>1, <3>1, <3>2
    <2> QED BY <2>2, <2>3
  <1>5. ASSUME NEW o \in Objects, Calling(o) PROVE TableIsHeld'
    <2>1. /\ sock[o] \in Links
          /\ \/ UNCHANGED <<state, sock>>
             \/ Gives(o)
      BY <1>5, CallEffect
    <2> QED BY <1>2, <1>3, <2>1
  <1>6. ASSUME NEW u \in Udps, udpBegin(u) \/ beginPacket(u) PROVE TableIsHeld'
    <2>1. /\ u \in Objects /\ getFreeSocket # NO_SOCKET_AVAIL
          /\ Takes(u, getFreeSocket)
      BY <1>6 DEF udpBegin, beginPacket, Objects
    <2> QED BY <1>1, <2>1, FreeSocketIsFree
  <1>7. ASSUME NEW c \in Clients, available(c) PROVE TableIsHeld'
    <2>1. c \in Objects /\ sock[c] = NO_SOCKET_AVAIL
      BY <1>7 DEF available, Objects
    <2>2. PICK p \in Polls(0) :
            \/ /\ p.found
               /\ state' = allocated(p.taken) /\ sock' = [sock EXCEPT ![c] = p.taken]
            \/ Forget(c) /\ UNCHANGED state
      BY <1>7 DEF available
    <2>3. CASE /\ p.found
               /\ state' = allocated(p.taken) /\ sock' = [sock EXCEPT ![c] = p.taken]
      <3>1. p.taken \in Links
        BY <2>3, PollEffect
      <3> QED BY <1>1, <2>1, <2>3, <3>1
    <2>4. CASE UNCHANGED state /\ Forget(c)
      BY <1>3, <2>1, <2>4 DEF Forget
    <2> QED BY <2>2, <2>3, <2>4
  <1>8. CASE serverBegin
    BY <1>3, <1>8 DEF serverBegin, allocated
  <1>9. CASE serverWrite
    <2>1. sock' = sock /\ \A t \in Links : state'[t] \in {state[t], NA_STATE}
      BY <1>9 DEF serverWrite
    <2> QED BY <1>3, <2>1
  <1>10. CASE \/ \E u \in Udps : udpWrite(u)
              \/ \E l \in Links : PeerSends(l) \/ PeerCloses(l)
              \/ reset \/ Inbound \/ UNCHANGED vars
    <2>1. UNCHANGED <<state, sock>>
      BY <1>10 DEF udpWrite, PeerSends, PeerCloses, reset, Inbound, vars
    <2> QED BY <1>3, <2>1
  <1>11. Udps \subseteq Objects /\ Clients \subseteq Objects
    BY DEF Objects
  <1> QED BY <1>4, <1>5, <1>6, <1>7, <1>8, <1>9, <1>10, <1>11 DEF Next, Calling

(* For a careful sketch, with a server and whatever fails, a socket in the *)
(* table other than the server's is held by an object: the table does not  *)
(* fill up with the sockets of clients that are gone.                      *)
THEOREM ServedTable ==
  ASSUME Careful
  PROVE  Spec => []TableIsHeld
  <1>1. Init => TableIsHeld
    BY Numbers DEF Init, TableIsHeld
  <1>2. Init => TypeOK
    BY InitTypes
  <1>3. TypeOK /\ TableIsHeld /\ [Next]_vars => TypeOK' /\ TableIsHeld'
    BY HeldStep, TypeStep
  <1> QED BY <1>1, <1>2, <1>3, PTL DEF Spec

-----------------------------------------------------------------------------
(* The table, the objects and the links.                                   *)

Agreed == NoOrphanLink /\ DataAreHeld /\ OwnConnection

(* On link l no connection is made, and what waits is of the one there was.*)
Kept(l) == /\ link'[l] \in {0, link[l]}
           /\ unread'[l] \in {0, unread[l], link[l]}
           /\ taken' = l => \/ body' \in {0, unread[l]}
                            \/ taken = l /\ body' = body

(* What the driver remembers, it remembered or found. *)
Found == \/ body' = 0
         \/ taken' = taken /\ body' = body
         \/ taken' \in Links /\ body' = unread[taken']

LEMMA FewerKeeps ==
  ASSUME Fewer
  PROVE  Found /\ \A l \in Links : Kept(l)
  BY DEF Fewer, Kept, Found

(* An object that keeps its socket keeps meeting its own connection. *)
LEMMA KeepOwn ==
  ASSUME TypeOK, NEW o \in Objects, Own(o),
         sock'[o] # NO_SOCKET_AVAIL =>
           sock'[o] = sock[o] /\ conn'[o] = conn[o] /\ Kept(sock[o])
  PROVE  Own(o)'
  BY DEF Own, Kept

(* In a table that is clean a free socket has no link and no data behind it.*)
LEMMA FreeIsBare ==
  ASSUME Accounts, past # "served", failed = {}, getFreeSocket # NO_SOCKET_AVAIL
  PROVE  /\ getFreeSocket \in Links /\ \A o \in Objects : sock[o] # getFreeSocket
         /\ past = "clean" => /\ link[getFreeSocket] = 0 /\ unread[getFreeSocket] = 0
                              /\ taken = getFreeSocket => body = 0
  <1>1. getFreeSocket \in Socks /\ state[getFreeSocket] = NA_STATE
    BY FreeSocketIsFree
  <1>2. \A o \in Objects : sock[o] # getFreeSocket
    BY <1>1 DEF Accounts, NoSocketLeaks
  <1>3. getFreeSocket \in Links
    BY <1>1, Numbers
  <1> QED BY <1>2, <1>3 DEF Accounts, NoOrphanLink, DataAreHeld

(* An object takes a socket that no other has, and if it counts on the     *)
(* connection there, it is the one it is given.                            *)
LEMMA TakeAgrees ==
  ASSUME Accounts, past' # "served", past # "served", past' = "clean" => past = "clean",
         NEW o \in Objects, sock[o] = NO_SOCKET_AVAIL,
         NEW s \in Links, \A p \in Objects : sock[p] # s,
         sock' = [sock EXCEPT ![o] = s],
         \A p \in Objects : p # o => conn'[p] = conn[p],
         failed \ {o} \subseteq failed', failed' \subseteq Clients,
         \A l \in Links : l # s => Kept(l),
         Found, unread'[s] \in {0, unread[s]},
         o \notin failed' /\ (o \in Clients \/ past' = "clean") =>
           link'[s] \in {0, conn'[o]} /\ unread'[s] = 0 /\ (taken' = s => body' = 0)
  PROVE  Agreed'
  <1> USE Numbers
  <1>0. TypeOK /\ NoOrphanLink /\ DataAreHeld /\ OwnConnection
    BY DEF Accounts
  <1>1. \A p \in Objects : sock'[p] = IF p = o THEN s ELSE sock[p]
    BY <1>0 DEF TypeOK
  <1>2. \A l \in Links : (\E p \in Objects : sock[p] = l) => \E p \in Objects : sock'[p] = l
    BY <1>1
  <1>3. \E p \in Objects : sock'[p] = s
    BY <1>1
  <1>4. NoOrphanLink'
    BY <1>0, <1>2, <1>3 DEF NoOrphanLink, Kept
  <1>5. DataAreHeld'
    <2> SUFFICES ASSUME past' = "clean" PROVE DataAreHeld'
      BY DEF DataAreHeld
    <2>1. ASSUME NEW l \in Links, unread'[l] # 0 PROVE \E p \in Objects : sock'[p] = l
      BY <1>0, <1>2, <1>3, <2>1 DEF DataAreHeld, NoOrphanLink, Kept
    <2>2. body' # 0 => \E p \in Objects : sock'[p] = taken'
      <3> SUFFICES ASSUME body' # 0 PROVE \E p \in Objects : sock'[p] = taken'
        OBVIOUS
      <3>1. past = "clean"
        OBVIOUS
      <3>2. \/ body # 0 /\ taken' = taken
            \/ taken' \in Links /\ unread[taken'] # 0
        BY DEF Found
      <3>3. PICK p \in Objects : sock[p] = taken'
        BY <1>0, <3>1, <3>2 DEF DataAreHeld
      <3>4. taken' # NO_SOCKET_AVAIL
        BY <1>0, <3>2 DEF TypeOK
      <3> QED BY <1>1, <3>3, <3>4
    <2> QED BY <2>1, <2>2 DEF DataAreHeld
  <1>6. ASSUME NEW p \in Objects, p # o, Own(p) PROVE Own(p)'
    <2>1. sock'[p] = sock[p] /\ conn'[p] = conn[p] /\ sock[p] # s
      BY <1>1, <1>6
    <2>2. sock'[p] # NO_SOCKET_AVAIL => Kept(sock[p])
      BY <1>0, <2>1 DEF TypeOK
    <2> QED BY <1>0, <1>6, <2>1, <2>2, KeepOwn
  <1>7. ASSUME o \notin failed', o \in Clients \/ past' = "clean" PROVE Own(o)'
    <2>1. link'[s] \in {0, conn'[o]} /\ unread'[s] = 0 /\ (taken' = s => body' = 0)
      BY <1>7
    <2>2. sock'[o] = s
      BY <1>1
    <2> QED BY <2>1, <2>2 DEF Own
  <1>8. OwnConnection'
    <2>1. ASSUME NEW c \in Clients, c \notin failed' PROVE Own(c)'
      <3>1. c # o => c \notin failed
        BY <2>1
      <3> QED BY <1>0, <1>6, <1>7, <2>1, <3>1 DEF OwnConnection, Objects
    <2>2. ASSUME NEW u \in Udps, past' = "clean" PROVE Own(u)'
      <3>1. u # o => Own(u)
        BY <1>0, <2>2 DEF OwnConnection
      <3>2. o \in Udps => o \notin failed'
        BY ObjectsAssumption
      <3> QED BY <1>6, <1>7, <2>2, <3>1, <3>2 DEF Objects
    <2> QED BY <2>1, <2>2 DEF OwnConnection
  <1> QED BY <1>4, <1>5, <1>8 DEF Agreed

(* An object gives back a socket, and if the past is clean nothing is left *)
(* on its link.                                                            *)
LEMMA GiveAgrees ==
  ASSUME Accounts, past' # "served", past # "served", past' = "clean" => past = "clean",
         NEW o \in Objects, sock[o] \in Links, failed \subseteq {o}, Forget(o), Fewer,
         past' = "clean" => /\ link'[sock[o]] = 0 /\ unread'[sock[o]] = 0
                            /\ taken' = sock[o] => body' = 0
  PROVE  Agreed'
  <1> USE Numbers
  <1>0. /\ TypeOK /\ NoOrphanLink /\ DataAreHeld /\ OwnConnection
        /\ Found /\ \A l \in Links : Kept(l)
    BY FewerKeeps DEF Accounts
  <1>1. \A p \in Objects : sock'[p] = IF p = o THEN NO_SOCKET_AVAIL ELSE sock[p]
    BY <1>0 DEF TypeOK, Forget
  <1>2. \A p \in Objects : p # o => conn'[p] = conn[p]
    BY <1>0 DEF TypeOK, Forget
  <1>3. \A l \in Links : (l # sock[o] /\ \E p \in Objects : sock[p] = l)
                            => \E p \in Objects : sock'[p] = l
    BY <1>1
  <1>4. NoOrphanLink'
    BY <1>0, <1>3 DEF NoOrphanLink, Kept
  <1>5. DataAreHeld'
    <2> SUFFICES ASSUME past' = "clean" PROVE DataAreHeld'
      BY DEF DataAreHeld
    <2>1. ASSUME NEW l \in Links, unread'[l] # 0 PROVE \E p \in Objects : sock'[p] = l
      BY <1>0, <1>3, <2>1 DEF DataAreHeld, Fewer
    <2>2. body' # 0 => \E p \in Objects : sock'[p] = taken'
      <3> SUFFICES ASSUME body' # 0 PROVE \E p \in Objects : sock'[p] = taken'
        OBVIOUS
      <3>1. past = "clean"
        OBVIOUS
      <3>2. \/ body # 0 /\ taken' = taken
            \/ taken' \in Links /\ unread[taken'] # 0
        BY <1>0 DEF Found
      <3>3. PICK p \in Objects : sock[p] = taken'
        BY <1>0, <3>1, <3>2 DEF DataAreHeld
      <3>4. p # o
        BY <3>3
      <3> QED BY <1>1, <3>3, <3>4
    <2> QED BY <2>1, <2>2 DEF DataAreHeld
  <1>6. OwnConnection'
    <2>1. ASSUME NEW p \in Objects, p \notin failed, p \in Clients \/ past' = "clean"
          PROVE  Own(p)'
      <3>1. Own(p)
        BY <1>0, <2>1 DEF OwnConnection, Objects
      <3>2. sock'[p] # NO_SOCKET_AVAIL =>
              sock'[p] = sock[p] /\ conn'[p] = conn[p] /\ Kept(sock[p])
        BY <1>0, <1>1, <1>2 DEF TypeOK
      <3> QED BY <1>0, <3>1, <3>2, KeepOwn
    <2>2. Own(o)'
      BY <1>1 DEF Own
    <2>3. \A u \in Udps : u \notin failed
      BY <1>0, ObjectsAssumption DEF TypeOK
    <2> QED BY <2>1, <2>2, <2>3 DEF OwnConnection, Objects
  <1> QED BY <1>4, <1>5, <1>6 DEF Agreed

(* What makes no connection and gives no object another socket. *)
LEMMA KeepAgrees ==
  ASSUME Accounts, past' # "served", past # "served", past' = "clean" => past = "clean",
         UNCHANGED <<sock, failed>>,
         \A p \in Objects : sock[p] # NO_SOCKET_AVAIL => conn'[p] = conn[p],
         Found, \A l \in Links : Kept(l)
  PROVE  Agreed'
  <1>0. TypeOK /\ NoOrphanLink /\ DataAreHeld /\ OwnConnection
    BY DEF Accounts
  <1>1. NoOrphanLink'
    BY <1>0 DEF NoOrphanLink, Kept
  <1>2. DataAreHeld'
    BY <1>0 DEF NoOrphanLink, DataAreHeld, Kept, Found
  <1>3. ASSUME NEW p \in Objects, Own(p) PROVE Own(p)'
    <2>1. sock'[p] # NO_SOCKET_AVAIL => conn'[p] = conn[p] /\ Kept(sock[p])
      BY <1>0 DEF TypeOK
    <2> QED BY <1>0, <1>3, <2>1, KeepOwn
  <1>4. OwnConnection'
    BY <1>0, <1>3 DEF OwnConnection, Objects
  <1> QED BY <1>1, <1>2, <1>4 DEF Agreed

(* A call that gives a socket back and leaves the past clean has left      *)
(* nothing on its link: it was closed, or had been.                        *)
LEMMA CleanCall ==
  ASSUME Careful, Accounts, past = "clean", past' = "clean",
         NEW o \in Objects, Calling(o), ~UNCHANGED <<state, sock, conn, failed>>
  PROVE  /\ link'[sock[o]] = 0 /\ unread'[sock[o]] = 0
         /\ taken' = sock[o] => body' = 0
  <1> USE Numbers
  <1>0. TypeOK /\ sock[o] \in Links
    BY CallEffect DEF Accounts
  <1>1. CASE stop(o)
    <2>1. Discard /\ link'[sock[o]] = 0
      BY <1>1 DEF stop, Close, Disturbed
    <2> QED BY <1>0, <2>1, DiscardEffect
  <1>2. CASE o \in Clients /\ status(o)
    <2>1. Discard /\ link' = link /\ link[sock[o]] = 0
      BY <1>2 DEF status, Disturbed
    <2> QED BY <1>0, <2>1, DiscardEffect
  <1>3. CASE o \in Clients /\ write(o)
    <2>1. Close(sock[o]) /\ link[sock[o]] = 0
      BY <1>3 DEF write, Disturbed
    <2>2. Discard /\ link'[sock[o]] = 0
      BY <1>0, <2>1, CloseEffect
    <2> QED BY <1>0, <2>2, DiscardEffect
  <1>4. CASE read(o)
    <2>1. PICK p \in Polls(sock[o]) :
            /\ p.taken = sock[o] /\ p.body # 0 /\ unread' = p.unread /\ body' = 0
            /\ o \in Clients /\ p.body \notin {link[sock[o]], p.unread[sock[o]]}
      BY <1>4 DEF read, Disturbed
    <2>2. link' = link /\ failed = {}
      BY <1>4 DEF read, MayUse
    <2>3. /\ link[sock[o]] \in {0, conn[o]} /\ unread[sock[o]] \in {0, conn[o]}
          /\ taken = sock[o] => body \in {0, conn[o]}
      BY <1>0, <2>1, <2>2 DEF Accounts, OwnConnection, Own
    <2>4. /\ p.unread[sock[o]] \in {0, unread[sock[o]]}
          /\ \/ p.taken = taken /\ p.body \in {0, body}
             \/ p.body = unread[p.taken]
      BY <1>0, PollEffect
    <2>5. p.body = conn[o]
      BY <2>1, <2>3, <2>4
    <2> QED BY <2>1, <2>2, <2>3, <2>4, <2>5
  <1> QED BY <1>1, <1>2, <1>3, <1>4 DEF Calling

(* What is known of AT+CIPSTART's link. *)
LEMMA StartKeeps ==
  ASSUME TypeOK, NEW s \in Links, NEW result \in {"done", "late", "refused"},
         Start(s, result)
  PROVE  /\ \A l \in Links : l # s => Kept(l)
         /\ Found /\ unread'[s] = 0 /\ body' = 0
         /\ result # "refused" => link'[s] = conns + 1
         /\ result = "refused" => link'[s] = link[s]
         /\ past' = "clean" => result # "late"
  <1>1. /\ Discard /\ \A l \in Links : l # s => link'[l] = link[l]
        /\ result # "refused" => link'[s] = conns + 1
        /\ result = "refused" => link' = link
        /\ past' = "clean" => result # "late"
    BY StartEffect
  <1>2. body' = 0 /\ \A l \in Links : unread'[l] = 0
    BY <1>1, DiscardEffect
  <1> QED BY <1>1, <1>2 DEF Kept, Found

LEMMA AgreedStep ==
  ASSUME Careful, Accounts, [Next]_vars, past' # "served"
  PROVE  Agreed'
  <1> USE Numbers
  <1>0. /\ Udps \subseteq Objects /\ Clients \subseteq Objects /\ TypeOK
        /\ past # "served" /\ (past' = "clean" => past = "clean")
    BY PastStep DEF Objects, Accounts
  <1>1. ASSUME NEW c \in Clients, connect(c) PROVE Agreed'
    <2> DEFINE s == getFreeSocket
    <2>1. /\ failed = {} /\ sock[c] = NO_SOCKET_AVAIL /\ c \in Objects
          /\ sock' = [sock EXCEPT ![c] = s]
      BY <1>0, <1>1 DEF connect, MayUse
    <2>2. CASE s = NO_SOCKET_AVAIL
      <3>1. sock' = sock
        BY <2>1, <2>2, <1>0 DEF TypeOK
      <3>2. UNCHANGED <<link, unread, taken, body>> /\ failed' = failed
        BY <1>1, <2>1, <2>2, FreeSocketIsFree DEF connect, line
      <3>3. \A p \in Objects : sock[p] # NO_SOCKET_AVAIL => conn'[p] = conn[p]
        BY <1>0, <1>1, <2>1, <2>2, FreeSocketIsFree DEF connect, TypeOK
      <3>4. Found /\ \A l \in Links : Kept(l)
        BY <3>2 DEF Found, Kept
      <3> QED BY <1>0, <3>1, <3>2, <3>3, <3>4, KeepAgrees
    <2>3. CASE s # NO_SOCKET_AVAIL
      <3>1. /\ s \in Links /\ \A o \in Objects : sock[o] # s
            /\ past = "clean" => link[s] = 0
        BY <1>0, <2>1, <2>3, FreeIsBare
      <3>2. PICK result \in {"done", "late", "refused"} :
              /\ Start(s, result)
              /\ conn' = [conn EXCEPT ![c] = IF result = "done" THEN conns + 1 ELSE 0]
              /\ failed' = IF result = "done" THEN failed \ {c} ELSE failed \cup {c}
        BY <1>1, <2>3 DEF connect
      <3>3. /\ \A l \in Links : l # s => Kept(l)
            /\ Found /\ unread'[s] = 0 /\ body' = 0
            /\ result = "done" => link'[s] = conns + 1
        BY <1>0, <3>1, <3>2, StartKeeps
      <3>4. /\ \A p \in Objects : p # c => conn'[p] = conn[p]
            /\ conn'[c] = IF result = "done" THEN conns + 1 ELSE 0
        BY <1>0, <2>1, <3>2 DEF TypeOK
      <3>5. /\ failed \ {c} \subseteq failed' /\ failed' \subseteq Clients
            /\ c \notin failed' => result = "done"
        BY <2>1, <3>2
      <3> HIDE DEF s
      <3> QED BY <1>0, <2>1, <3>1, <3>3, <3>4, <3>5, TakeAgrees
    <2> QED BY <2>2, <2>3
  <1>2. ASSUME NEW o \in Objects, Calling(o) PROVE Agreed'
    <2>1. /\ sock[o] \in Links /\ Fewer
          /\ \/ UNCHANGED <<state, sock, conn, failed>>
             \/ state' = released(sock[o]) /\ Forget(o)
      BY <1>0, <1>2, CallEffect
    <2>2. CASE UNCHANGED <<state, sock, conn, failed>>
      BY <1>0, <2>1, <2>2, FewerKeeps, KeepAgrees
    <2>3. CASE Forget(o) /\ ~UNCHANGED <<state, sock, conn, failed>>
      <3>1. failed \subseteq {o}
        BY <1>2 DEF Calling, stop, read, status, write, MayCall, MayUse
      <3>2. past' = "clean" => /\ link'[sock[o]] = 0 /\ unread'[sock[o]] = 0
                               /\ taken' = sock[o] => body' = 0
        BY <1>0, <1>2, <2>3, CleanCall
      <3> QED BY <1>0, <2>1, <2>3, <3>1, <3>2, GiveAgrees
    <2> QED BY <2>1, <2>2, <2>3
  <1>3. ASSUME NEW u \in Udps, udpBegin(u) PROVE Agreed'
    <2> DEFINE s == getFreeSocket
    <2>1. /\ failed = {} /\ sock[u] = NO_SOCKET_AVAIL /\ u \in Objects
          /\ s # NO_SOCKET_AVAIL /\ sock' = [sock EXCEPT ![u] = s]
          /\ failed' = {}
      BY <1>0, <1>3 DEF udpBegin, MayUse
    <2>2. /\ s \in Links /\ \A o \in Objects : sock[o] # s
          /\ past = "clean" => link[s] = 0
      BY <1>0, <2>1, FreeIsBare
    <2>3. PICK result \in {"done", "late", "refused"} :
            /\ Start(s, result)
            /\ conn' = [conn EXCEPT ![u] = IF result = "refused" THEN 0 ELSE conns + 1]
      BY <1>3 DEF udpBegin
    <2>4. /\ \A l \in Links : l # s => Kept(l)
          /\ Found /\ unread'[s] = 0 /\ body' = 0
          /\ result # "refused" => link'[s] = conns + 1
          /\ result = "refused" => link'[s] = link[s]
      BY <1>0, <2>2, <2>3, StartKeeps
    <2>5. /\ \A p \in Objects : p # u => conn'[p] = conn[p]
          /\ conn'[u] = IF result = "refused" THEN 0 ELSE conns + 1
      BY <1>0, <2>1, <2>3 DEF TypeOK
    <2>6. past' = "clean" => link'[s] \in {0, conn'[u]}
      BY <1>0, <2>2, <2>4, <2>5
    <2>7. u \notin Clients
      BY ObjectsAssumption
    <2> HIDE DEF s
    <2> QED BY <1>0, <2>1, <2>2, <2>4, <2>5, <2>6, <2>7, TakeAgrees
  <1>4. ASSUME NEW u \in Udps, beginPacket(u) PROVE Agreed'
    <2> DEFINE s == getFreeSocket
    <2>1. /\ failed = {} /\ sock[u] = NO_SOCKET_AVAIL /\ u \in Objects
          /\ s # NO_SOCKET_AVAIL /\ sock' = [sock EXCEPT ![u] = s]
          /\ failed' = {} /\ UNCHANGED <<conn, link, unread, taken, body>>
      BY <1>0, <1>4 DEF beginPacket, MayUse, line
    <2>2. /\ s \in Links /\ \A o \in Objects : sock[o] # s
          /\ past = "clean" => link[s] = 0 /\ unread[s] = 0 /\ (taken = s => body = 0)
      BY <1>0, <2>1, FreeIsBare
    <2>3. Found /\ \A l \in Links : Kept(l)
      BY <2>1 DEF Found, Kept
    <2>4. u \notin Clients
      BY ObjectsAssumption
    <2> HIDE DEF s
    <2> QED BY <1>0, <2>1, <2>2, <2>3, <2>4, TakeAgrees
  <1>5. ASSUME NEW u \in Udps, udpWrite(u) PROVE Agreed'
    <2>1. UNCHANGED <<sock, conn, failed, link>> /\ body' = 0 /\ \A l \in Links : unread'[l] = 0
      BY <1>0, <1>5, DiscardEffect DEF udpWrite
    <2>2. Found /\ \A l \in Links : Kept(l)
      BY <2>1 DEF Found, Kept
    <2> QED BY <1>0, <2>1, <2>2, KeepAgrees
  <1>6. CASE reset
    <2>1. /\ UNCHANGED <<sock, conn, failed>> /\ body' = 0
          /\ \A l \in Links : unread'[l] = 0 /\ link'[l] = 0
      BY <1>0, <1>6, DiscardEffect DEF reset
    <2>2. Found /\ \A l \in Links : Kept(l)
      BY <2>1 DEF Found, Kept
    <2> QED BY <1>0, <2>1, <2>2, KeepAgrees
  <1>7. ASSUME NEW l \in Links, PeerSends(l) \/ PeerCloses(l) PROVE Agreed'
    <2>1. UNCHANGED <<sock, conn, failed, taken, body>>
      BY <1>7 DEF PeerSends, PeerCloses, line
    <2>2. \A k \in Links : link'[k] \in {0, link[k]} /\ unread'[k] \in {0, unread[k], link[k]}
      BY <1>0, <1>7 DEF PeerSends, PeerCloses, line, TypeOK
    <2>3. Found /\ \A k \in Links : Kept(k)
      BY <2>1, <2>2 DEF Found, Kept
    <2> QED BY <1>0, <2>1, <2>3, KeepAgrees
  <1>8. CASE UNCHANGED vars
    <2>1. UNCHANGED <<sock, conn, failed, link, unread, taken, body>>
      BY <1>8 DEF vars, line
    <2>2. Found /\ \A k \in Links : Kept(k)
      BY <2>1 DEF Found, Kept
    <2> QED BY <1>0, <2>1, <2>2, KeepAgrees
  <1>9. ~serverBegin /\ ~serverWrite /\ ~Inbound /\ \A c \in Clients : ~available(c)
    BY <1>0 DEF serverBegin, serverWrite, available, Inbound, Accounts
  <1> QED BY <1>0, <1>1, <1>2, <1>3, <1>4, <1>5, <1>6, <1>7, <1>8, <1>9 DEF Next, Calling

(* What status reports is the caller's own, and no other call leaves it on *)
(* record: it records nothing.                                             *)
LEMMA ConnectedStep ==
  ASSUME Careful, Accounts, [Next]_vars, past' # "served"
  PROVE  ConnectedIsOwn'
  <1> USE Numbers
  <1>0. TypeOK /\ past # "served"
    BY PastStep DEF Accounts
  <1>1. ASSUME NEW c \in Clients, status(c) PROVE ConnectedIsOwn'
    <2>1. /\ c \in Objects /\ sock[c] \in Links /\ c \notin failed
      BY <1>0, <1>1 DEF status, Objects, MayUse, TypeOK
    <2>2. /\ link[sock[c]] \in {0, conn[c]} /\ unread[sock[c]] \in {0, conn[c]}
          /\ taken = sock[c] => body \in {0, conn[c]}
      BY <1>0, <2>1 DEF Accounts, OwnConnection, Own
    <2>3. CASE told' = Nothing
      BY <2>3 DEF ConnectedIsOwn
    <2>4. CASE /\ UNCHANGED <<sock, conn>>
               /\ link[sock[c]] # 0 /\ told' = Tell(c, "answer", link[sock[c]])
      <3>1. told'.obj = c /\ told'.on = link[sock[c]]
        BY <2>4 DEF Tell
      <3> QED BY <2>2, <2>4, <3>1 DEF ConnectedIsOwn
    <2>5. CASE /\ UNCHANGED <<sock, conn>>
               /\ \E p \in Polls(sock[c]) :
                    /\ p.found /\ taken' = p.taken /\ body' = p.body
                    /\ told' = Tell(c, "data", p.body)
      <3>1. PICK p \in Polls(sock[c]) :
              /\ p.found /\ taken' = p.taken /\ body' = p.body
              /\ told' = Tell(c, "data", p.body)
        BY <2>5
      <3>2. /\ p.taken = sock[c] \/ 0 \in {sock[c], p.taken}
            /\ \/ p.taken = taken /\ p.body \in {0, body}
               \/ p.body = unread[p.taken]
        BY <1>0, <2>1, <3>1, PollEffect
      <3>3. told'.obj = c /\ told'.on = p.body /\ told'.by = "data"
        BY <3>1 DEF Tell
      <3>4. CASE p.taken = sock[c]
        <4>1. p.body \in {0, conn[c]}
          BY <2>2, <3>2, <3>4
        <4> QED BY <2>5, <3>1, <3>3, <4>1 DEF ConnectedIsOwn
      <3>5. CASE 0 \in {sock[c], p.taken}
        BY <2>5, <3>1, <3>3, <3>5 DEF ConnectedIsOwn
      <3> QED BY <3>2, <3>4, <3>5
    <2>6. \/ told' = Nothing
          \/ /\ UNCHANGED <<sock, conn>>
             /\ \/ link[sock[c]] # 0 /\ told' = Tell(c, "answer", link[sock[c]])
                \/ \E p \in Polls(sock[c]) :
                     /\ p.found /\ taken' = p.taken /\ body' = p.body
                     /\ told' = Tell(c, "data", p.body)
      BY <1>1 DEF status
    <2> QED BY <2>3, <2>4, <2>5, <2>6
  <1>2. ASSUME told' = Nothing PROVE ConnectedIsOwn'
    BY <1>2 DEF ConnectedIsOwn
  <1>3. CASE UNCHANGED vars \/ \E l \in Links : PeerSends(l) \/ PeerCloses(l)
    <2>1. UNCHANGED <<told, conn, sock, taken, body>>
      BY <1>3 DEF vars, line, PeerSends, PeerCloses
    <2> QED BY <1>0, <2>1 DEF Accounts, ConnectedIsOwn
  <1>4. ASSUME NEW c \in Clients, connect(c) \/ write(c) PROVE told' = Nothing
    BY <1>4 DEF connect, write
  <1>5. ASSUME NEW o \in Objects, stop(o) \/ read(o) PROVE told' = Nothing
    BY <1>5 DEF stop, read
  <1>6. ASSUME NEW u \in Udps, udpBegin(u) \/ beginPacket(u) \/ udpWrite(u)
        PROVE  told' = Nothing
    BY <1>6 DEF udpBegin, beginPacket, udpWrite
  <1>7. CASE reset
    BY <1>2, <1>7 DEF reset
  <1>8. ~serverBegin /\ ~serverWrite /\ ~Inbound /\ \A c \in Clients : ~available(c)
    BY <1>0 DEF serverBegin, serverWrite, available, Inbound, Accounts
  <1> QED BY <1>1, <1>2, <1>3, <1>4, <1>5, <1>6, <1>7, <1>8 DEF Next

(* The module listens only for a server. *)
LEMMA ListeningStep ==
  ASSUME Accounts, [Next]_vars, listening'
  PROVE  past' = "served"
  <1>1. listening => past' = "served"
    BY PastStep DEF Accounts
  <1>2. CASE serverBegin
    BY <1>2 DEF serverBegin
  <1>3. CASE ~serverBegin
    <2>1. listening' => listening
      <3>1. ASSUME NEW o \in Objects, Calling(o) PROVE listening' = listening
        BY <3>1, CallEffect DEF Accounts
      <3>2. ASSUME NEW c \in Clients, connect(c) \/ available(c) PROVE listening' = listening
        BY <3>2 DEF connect, available
      <3>3. ASSUME NEW u \in Udps, udpBegin(u) \/ beginPacket(u) \/ udpWrite(u)
            PROVE  listening' = listening
        BY <3>3 DEF udpBegin, beginPacket, udpWrite
      <3>4. CASE \/ serverWrite \/ reset \/ Inbound \/ UNCHANGED vars
                 \/ \E l \in Links : PeerSends(l) \/ PeerCloses(l)
        BY <3>4 DEF serverWrite, reset, Inbound, vars, PeerSends, PeerCloses
      <3> QED BY <1>3, <3>1, <3>2, <3>3, <3>4 DEF Next, Calling, Objects
    <2> QED BY <1>1, <2>1
  <1> QED BY <1>2, <1>3

(* For a careful sketch the table, the objects and the links of the module *)
(* agree: until it begins a server, as far as commands that time out leave *)
(* them to.                                                                *)
THEOREM AccountsAgree ==
  ASSUME Careful
  PROVE  Spec => []Accounts
  <1>1. Init => Accounts
    <2>1. Init => TypeOK
      BY InitTypes
    <2>2. Init => OneOwner /\ NoSocketLeaks /\ NoOrphanLink /\ DataAreHeld /\ OwnConnection
      BY Numbers DEF Init, OneOwner, NoSocketLeaks, Socks, NoOrphanLink, DataAreHeld,
                     OwnConnection, Own, Objects
    <2>3. Init => ~listening /\ ConnectedIsOwn
      BY DEF Init, ConnectedIsOwn
    <2> QED BY <2>1, <2>2, <2>3 DEF Accounts
  <1>2. Accounts /\ [Next]_vars => Accounts'
    <2> SUFFICES ASSUME Accounts, [Next]_vars PROVE Accounts'
      OBVIOUS
    <2>1. Owned
      BY DEF Accounts, Owned
    <2>2. TypeOK' /\ OneOwner' /\ NoSocketLeaks' /\ (listening' => past' = "served")
      BY <2>1, TypeStep, OwnedStep, ListeningStep DEF Owned
    <2>3. CASE past' = "served"
      BY <2>2, <2>3 DEF Accounts, NoOrphanLink, DataAreHeld, OwnConnection, ConnectedIsOwn
    <2>4. CASE past' # "served"
      <3>1. Agreed' /\ ConnectedIsOwn'
        BY <2>4, AgreedStep, ConnectedStep
      <3> QED BY <2>2, <3>1 DEF Accounts, Agreed
    <2> QED BY <2>3, <2>4
  <1> QED BY <1>1, <1>2, PTL DEF Spec

(* Until a command times out or stray bytes are read, or a server begins,  *)
(* such a sketch leaves no link open that none of its objects can close    *)
(* (connect, stop, read, write and status).                                *)
THEOREM NoOrphans ==
  ASSUME Careful
  PROVE  Spec => []NoOrphanLink
  <1>1. Accounts => NoOrphanLink
    BY DEF Accounts
  <1> QED BY <1>1, AccountsAgree, PTL

(* A client of such a sketch meets only the connection it was given, also  *)
(* when commands time out; a UDP object until one does.                    *)
THEOREM OwnConnections ==
  ASSUME Careful
  PROVE  Spec => []OwnConnection
  <1>1. Accounts => OwnConnection
    BY DEF Accounts
  <1> QED BY <1>1, AccountsAgree, PTL

(* A client of such a sketch that is told it is connected is so to the peer*)
(* it connected to, or was told for data that socket 0, a packet of link 0 *)
(* or bytes thrown away account for (status).                              *)
THEOREM ConnectedOwns ==
  ASSUME Careful
  PROVE  Spec => []ConnectedIsOwn
  <1>1. Accounts => ConnectedIsOwn
    BY DEF Accounts
  <1> QED BY <1>1, AccountsAgree, PTL
=============================================================================
