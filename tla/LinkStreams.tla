------------------------------ MODULE LinkStreams ------------------------------
(***************************************************************************)
(* What the clients of the library may expect of its links: one stream of  *)
(* bytes for every link.  A peer sends and closes; the sketch receives the *)
(* bytes of each link in the order sent, none of them missing, repeated or *)
(* taken from another link; a client is released when its peer has closed  *)
(* and everything was received.  EspReceive shows that the driver, which   *)
(* has all the links on one serial line, gives them this as long as the    *)
(* sketch reads packets to their end.                                      *)
(***************************************************************************)
EXTENDS Integers, Sequences

CONSTANTS Links, MaxLen

VARIABLES open,        \* the links whose peer has not closed
          sent,        \* how many bytes were sent on each link
          received,    \* the bytes received on each link
          live         \* the links whose client is not released

vars == <<open, sent, received, live>>

(* The n-th byte of a link. *)
Item(l, n) == <<l, n>>

Init == /\ open = Links /\ live = Links
        /\ sent = [l \in Links |-> 0]
        /\ received = [l \in Links |-> <<>>]

Send(l, n) == /\ l \in open
              /\ sent' = [sent EXCEPT ![l] = @ + n]
              /\ UNCHANGED <<open, received, live>>

PeerCloses(l) == /\ l \in open
                 /\ open' = open \ {l}
                 /\ UNCHANGED <<sent, received, live>>

Receive(l) ==
  /\ Len(received[l]) < sent[l]
  /\ received' = [received EXCEPT ![l] = Append(@, Item(l, Len(@) + 1))]
  /\ UNCHANGED <<open, sent, live>>

Release(l) == /\ l \in live \ open
              /\ Len(received[l]) = sent[l]
              /\ live' = live \ {l}
              /\ UNCHANGED <<open, sent, received>>

Next == \E l \in Links : \/ PeerCloses(l) \/ Receive(l) \/ Release(l)
                         \/ \E n \in 1 .. MaxLen : Send(l, n)

Spec == Init /\ [][Next]_vars
=============================================================================
