---------------------------- MODULE EspRingBuffer ----------------------------
(***************************************************************************)
(* The ring buffer of src/utility/EspRingBuffer.cpp, in which the driver   *)
(* keeps the tail of the character stream it reads from the ESP module     *)
(* while it looks for a tag.                                               *)
(*                                                                         *)
(* The array has Size cells in use and one more for the terminator; the    *)
(* pointer ringBufP of the code is the index of the next cell to write.    *)
(* push writes and advances, reset only moves the pointer back to the      *)
(* start (the old characters stay in the cells), init also clears them.    *)
(* pushed and clean are history: the characters pushed since the pointer   *)
(* was last moved to the start, and whether the other cells are all NUL.   *)
(***************************************************************************)
EXTENDS Integers, Sequences

CONSTANTS Size,       \* the size given to the constructor (32 in EspDrv)
          Char,       \* the characters, with the terminator among them
          NUL,        \* the terminator
          MaxPushed   \* bound: characters pushed between two moves to the start

ASSUME SizeAssumption == Size \in Nat \ {0}
ASSUME CharAssumption == NUL \in Char
ASSUME MaxPushedAssumption == MaxPushed \in Nat

VARIABLES ringBuf, ringBufP, pushed, clean

ringVars == <<ringBuf, ringBufP, pushed, clean>>

Cells == 0 .. Size          \* the last one is the terminator
Letter == Char \ {NUL}

-----------------------------------------------------------------------------
(* What the buffer answers.                                                *)

(* The cell that lies n characters behind the pointer. *)
Back(n) == IF ringBufP - n < 0 THEN ringBufP - n + Size ELSE ringBufP - n

(* The cell i steps after cell b, the step from the last cell being to 0. *)
Ahead(b, i) == IF b + i >= Size THEN b + i - Size ELSE b + i

(* A slip in endsWith: the step to 0 comes one cell late, after the         *)
(* terminator has been compared.                                           *)
endsWith_LateWrap(str) ==
  \A i \in 1 .. Len(str) :
    LET b == Back(Len(str)) + i - 1
    IN  str[i] = ringBuf[IF b > Size THEN b - Size - 1 ELSE b]

(* The loop compares the cells from Back(Len(str)) on, one by one. *)
endsWith(str) ==
  \A i \in 1 .. Len(str) : str[i] = ringBuf[Ahead(Back(Len(str)), i - 1)]

(* A slip in getStrN: the end tag is copied too. *)
CopyLen_KeepTag(skipChars, num) == IF ringBufP > num THEN num ELSE ringBufP

(* The number of characters getStrN copies: what lies between the start of *)
(* the array and the pointer, less skipChars, at most num.                 *)
CopyLen(skipChars, num) ==
  LET len == IF ringBufP >= skipChars THEN ringBufP - skipChars ELSE ringBufP
  IN  IF len > num THEN num ELSE len

(* strncpy of n characters onto dest: after a NUL the rest of the n is     *)
(* NUL, and what lies beyond the n keeps its value.                        *)
Copied(dest, n) ==
  [i \in 1 .. Len(dest) |->
     CASE i > n -> dest[i]
       [] i <= n /\ (\E j \in 1 .. i : ringBuf[j - 1] = NUL) -> NUL
       [] OTHER -> ringBuf[i - 1]]

(* The value of the buffer destination after getStrN. *)
getStrN(destination, skipChars, num) ==
  Copied(destination, CopyLen(skipChars, num))

-----------------------------------------------------------------------------
(* What changes it.                                                        *)

Init == /\ ringBuf = [i \in Cells |-> NUL]
        /\ ringBufP = 0
        /\ pushed = <<>>
        /\ clean = TRUE

(* A slip in reset: the pointer stays where it is. *)
reset_NoMove == /\ pushed' = <<>>
                /\ clean' = (clean /\ pushed = <<>>)
                /\ UNCHANGED <<ringBuf, ringBufP>>

reset == /\ ringBufP' = 0
         /\ pushed' = <<>>
         /\ clean' = (clean /\ pushed = <<>>)
         /\ UNCHANGED ringBuf

(* A slip in init: the cells keep what they held. *)
init_NoClear == /\ ringBufP' = 0
                /\ pushed' = <<>>
                /\ clean' = TRUE
                /\ UNCHANGED ringBuf

init == /\ ringBufP' = 0
        /\ ringBuf' = [i \in Cells |-> NUL]
        /\ pushed' = <<>>
        /\ clean' = TRUE

(* A slip in push: the end is tested with > instead of >=. *)
push_LateWrap(c) ==
  /\ ringBuf' = [ringBuf EXCEPT ![ringBufP] = c]
  /\ ringBufP' = IF ringBufP + 1 > Size THEN 0 ELSE ringBufP + 1
  /\ pushed' = Append(pushed, c)
  /\ UNCHANGED clean

push(c) == /\ ringBuf' = [ringBuf EXCEPT ![ringBufP] = c]
           /\ ringBufP' = IF ringBufP + 1 >= Size THEN 0 ELSE ringBufP + 1
           /\ pushed' = Append(pushed, c)
           /\ UNCHANGED clean

Next == \/ reset
        \/ init
        \/ \E c \in Letter : Len(pushed) < MaxPushed /\ push(c)

Spec == Init /\ [][Next]_ringVars

-----------------------------------------------------------------------------
(* The tail of the stream, which the buffer is there to answer about.      *)

IsTail(str) ==
  /\ Len(str) <= Len(pushed)
  /\ \A i \in 1 .. Len(str) : str[i] = pushed[Len(pushed) - Len(str) + i]

(* The tags one may ask about: no longer than the buffer. *)
Tags == UNION {[1 .. n -> Letter] : n \in 1 .. Size}

(* The buffer holds characters in all its cells, the terminator cell is    *)
(* never written, and the pointer stays inside the array.                  *)
TypeOK == /\ ringBuf \in [Cells -> Char]
          /\ ringBufP \in 0 .. Size - 1
          /\ pushed \in Seq(Letter)
          /\ clean \in BOOLEAN
          /\ ringBuf[Size] = NUL

(* The last characters pushed, as many as fit, lie behind the pointer, the *)
(* newest nearest, wherever the writing has wrapped (push, lines 45-51).   *)
TailHeld ==
  \A k \in 1 .. Size :
    k <= Len(pushed) => ringBuf[Back(k)] = pushed[Len(pushed) + 1 - k]

(* Before the first wrap the pointer counts the characters pushed, so that *)
(* the array starts with them.                                             *)
PointerCounts == Len(pushed) < Size => ringBufP = Len(pushed)

(* After init, or a reset with nothing pushed, cells not yet written hold  *)
(* NUL, which no tag contains.                                             *)
RestCleared ==
  clean => \A k \in 1 .. Size : k > Len(pushed) => ringBuf[Back(k)] = NUL

(* The inductive invariant: the cells behind the pointer, followed         *)
(* backwards and around the end of the array, are the newest characters of *)
(* the stream and then what init left.                                     *)
IInv == TypeOK /\ TailHeld /\ PointerCounts /\ RestCleared

(* A tag that has just been read is recognised, whatever the buffer held   *)
(* before and wherever the writing wraps: readUntil (EspDrv.cpp 1107-1135) *)
(* asks endsWith after every push and stops at the first yes.              *)
NoTagMissed == \A t \in Tags : IsTail(t) => endsWith(t)

(* After init the answer is exact: endsWith says yes only for a tag that   *)
(* has been read.  The WebServerLed sketch relies on it for its requests;  *)
(* after reset, which is what readUntil calls, it does not hold.           *)
ExactAfterInit == clean => \A t \in Tags : endsWith(t) <=> IsTail(t)

Zeros(n) == [i \in 1 .. n |-> NUL]

(* Up to the wrap, getStrN gives a caller that cleared its buffer the text *)
(* in front of the end tag, cut to the caller's length, and nothing after  *)
(* it (EspDrv.cpp 1002).                                                   *)
ExtractsFrontOfTag ==
  \A t \in Tags, num \in 1 .. Size :
    (IsTail(t) /\ Len(pushed) < Size) =>
      \A i \in 1 .. Size :
        getStrN(Zeros(Size), Len(t), num)[i] =
          IF i <= num /\ i <= Len(pushed) - Len(t) THEN pushed[i] ELSE NUL
=============================================================================
