------------------------- MODULE EspRingBufferProofs -------------------------
(* What the ring buffer promises, for every size, alphabet and bound: IInv *)
(* is inductive, and the three answers of the buffer follow from it alone. *)
EXTENDS EspRingBuffer, TLAPS

(* Init establishes the invariant: the constructor clears the cells. *)
LEMMA InitIInv == Init => IInv
  <1> SUFFICES ASSUME Init PROVE IInv
    OBVIOUS
  <1>1. TypeOK
    BY SizeAssumption, CharAssumption DEF Init, TypeOK, Cells, Letter
  <1>2. TailHeld /\ PointerCounts
    BY DEF Init, TailHeld, PointerCounts
  <1>3. RestCleared
    BY SizeAssumption DEF Init, RestCleared, Back, Cells
  <1> QED BY <1>1, <1>2, <1>3 DEF IInv

(* init re-establishes the state of the constructor. *)
LEMMA InitStep == IInv /\ init => IInv'
  <1> SUFFICES ASSUME IInv, init PROVE IInv'
    OBVIOUS
  <1>1. TypeOK'
    BY SizeAssumption, CharAssumption DEF init, TypeOK, Cells, Letter
  <1>2. TailHeld' /\ PointerCounts'
    BY DEF init, TailHeld, PointerCounts
  <1>3. RestCleared'
    BY SizeAssumption DEF init, RestCleared, Back, Cells
  <1> QED BY <1>1, <1>2, <1>3 DEF IInv

(* reset forgets what was pushed; the cells are still all NUL only if      *)
(* nothing was.                                                            *)
LEMMA ResetStep == IInv /\ reset => IInv'
  <1> SUFFICES ASSUME IInv, reset PROVE IInv'
    OBVIOUS
  <1>1. TypeOK'
    BY SizeAssumption DEF reset, IInv, TypeOK, Letter
  <1>2. TailHeld' /\ PointerCounts'
    BY DEF reset, TailHeld, PointerCounts
  <1>3. RestCleared'
    <2> SUFFICES ASSUME clean', NEW k \in 1 .. Size, k > Len(pushed')
                 PROVE  ringBuf'[Back(k)'] = NUL
      BY DEF RestCleared
    <2>0. clean /\ pushed = <<>> /\ ringBufP' = 0
      BY ZenonT(20) DEF reset
    <2>1. Len(pushed) = 0 /\ ringBufP = 0
      BY <2>0, SizeAssumption DEF IInv, PointerCounts
    <2>2. ringBuf[Back(k)] = NUL
      BY <2>0, <2>1 DEF IInv, RestCleared
    <2> QED BY <2>0, <2>1, <2>2 DEF reset, Back
  <1> QED BY <1>1, <1>2, <1>3 DEF IInv

(* One step forward moves every cell one further behind the pointer, and   *)
(* only the oldest is overwritten.                                         *)
LEMMA BackShifts ==
  ASSUME TypeOK, NEW c \in Letter, push(c), NEW k \in 1 .. Size
  PROVE  /\ Back(k) \in 0 .. Size - 1
         /\ k = 1 => Back(k)' = ringBufP
         /\ k > 1 => Back(k)' = Back(k - 1) /\ Back(k - 1) # ringBufP
  BY SizeAssumption DEF TypeOK, push, Back

(* push keeps the newest characters behind the pointer. *)
LEMMA PushStep ==
  ASSUME IInv, NEW c \in Letter, push(c)
  PROVE  IInv'
  <1> USE SizeAssumption
  <1>0. TypeOK /\ TailHeld /\ PointerCounts /\ RestCleared
    BY DEF IInv
  <1>1. TypeOK'
    <2>1. pushed' \in Seq(Letter) /\ clean' \in BOOLEAN
      BY <1>0 DEF TypeOK, push
    <2>2. ringBufP' \in 0 .. Size - 1
      BY <1>0 DEF TypeOK, push
    <2>3. ringBuf' \in [Cells -> Char] /\ ringBuf'[Size] = NUL
      BY <1>0 DEF TypeOK, push, Cells, Letter
    <2> QED BY <2>1, <2>2, <2>3 DEF TypeOK
  <1>2. /\ Len(pushed) \in Nat
        /\ Len(pushed') = Len(pushed) + 1
        /\ pushed'[Len(pushed) + 1] = c
        /\ \A i \in 1 .. Len(pushed) : pushed'[i] = pushed[i]
    BY <1>0 DEF TypeOK, push
  <1>3. /\ ringBuf'[ringBufP] = c
        /\ \A j \in 0 .. Size - 1 : j # ringBufP => ringBuf'[j] = ringBuf[j]
    BY <1>0 DEF TypeOK, push, Cells
  <1>4. TailHeld'
    <2> SUFFICES ASSUME NEW k \in 1 .. Size, k <= Len(pushed')
                 PROVE  ringBuf'[Back(k)'] = pushed'[Len(pushed') + 1 - k]
      BY DEF TailHeld
    <2>1. CASE k = 1
      BY <2>1, <1>0, <1>2, <1>3, BackShifts
    <2>2. CASE k > 1
      <3>1. /\ k - 1 \in 1 .. Size
            /\ k - 1 <= Len(pushed)
            /\ Back(k)' = Back(k - 1)
            /\ Back(k - 1) \in 0 .. Size - 1
            /\ Back(k - 1) # ringBufP
        BY <2>2, <1>0, <1>2, BackShifts
      <3>2. ringBuf[Back(k - 1)] = pushed[Len(pushed) + 1 - (k - 1)]
        BY <3>1, <1>0 DEF TailHeld
      <3>3. ringBuf'[Back(k)'] = pushed[Len(pushed) + 2 - k]
        BY <3>1, <3>2, <1>2, <1>3
      <3> QED BY <3>1, <3>3, <1>2, <2>2
    <2> QED BY <2>1, <2>2
  <1>5. PointerCounts'
    BY <1>0, <1>2 DEF PointerCounts, TypeOK, push
  <1>6. RestCleared'
    <2> SUFFICES ASSUME clean', NEW k \in 1 .. Size, k > Len(pushed')
                 PROVE  ringBuf'[Back(k)'] = NUL
      BY DEF RestCleared
    <2>1. /\ k > 1
          /\ k - 1 \in 1 .. Size
          /\ k - 1 > Len(pushed)
          /\ Back(k)' = Back(k - 1)
          /\ Back(k - 1) \in 0 .. Size - 1
          /\ Back(k - 1) # ringBufP
      BY <1>0, <1>2, BackShifts
    <2>2. ringBuf[Back(k - 1)] = NUL
      BY <2>1, <1>0 DEF RestCleared, push
    <2> QED BY <2>1, <2>2, <1>3
  <1> QED BY <1>1, <1>4, <1>5, <1>6 DEF IInv

(* The inductive invariant holds in every reachable state. *)
THEOREM IInvariance == Spec => []IInv
  <1>1. IInv /\ [Next]_ringVars => IInv'
    <2> SUFFICES ASSUME IInv, [Next]_ringVars PROVE IInv'
      OBVIOUS
    <2>1. CASE reset
      BY <2>1, ResetStep
    <2>2. CASE init
      BY <2>2, InitStep
    <2>3. ASSUME NEW c \in Letter, push(c) PROVE IInv'
      BY <2>3, PushStep
    <2>4. CASE UNCHANGED ringVars
      BY <2>4 DEF ringVars, IInv, TypeOK, TailHeld, PointerCounts,
                  RestCleared, Back
    <2> QED BY <2>1, <2>2, <2>3, <2>4 DEF Next
  <1> QED BY <1>1, InitIInv, PTL DEF Spec

-----------------------------------------------------------------------------
(* What endsWith looks at: the i-th of the n cells it compares is the one  *)
(* n + 1 - i behind the pointer.                                           *)
LEMMA AheadOfBack ==
  ASSUME TypeOK, NEW n \in 1 .. Size, NEW i \in 1 .. n
  PROVE  Ahead(Back(n), i - 1) = Back(n + 1 - i)
  BY SizeAssumption DEF TypeOK, Ahead, Back

(* A tag is a sequence of at most Size letters. *)
LEMMA TagLen ==
  ASSUME NEW t \in Tags
  PROVE  /\ Len(t) \in 1 .. Size
         /\ \A i \in 1 .. Len(t) : t[i] \in Letter
  <1>1. PICK n \in 1 .. Size : t \in [1 .. n -> Letter]
    BY DEF Tags
  <1>2. n \in Nat /\ DOMAIN t = 1 .. n
    BY <1>1, SizeAssumption
  <1>3. t \in Seq(Letter)
    BY <1>1, <1>2
  <1>4. Len(t) = n
    BY <1>2, <1>3
  <1> QED BY <1>1, <1>4

(* The invariant yields the first promise: a tag just read is seen. *)
LEMMA NoTagMissedFromIInv == IInv => NoTagMissed
  <1> SUFFICES ASSUME IInv, NEW t \in Tags, IsTail(t),
                      NEW i \in 1 .. Len(t)
               PROVE  t[i] = ringBuf[Ahead(Back(Len(t)), i - 1)]
    BY DEF NoTagMissed, endsWith
  <1>1. Len(t) \in 1 .. Size /\ Len(pushed) \in Nat
    BY TagLen DEF IInv, TypeOK
  <1>2. Ahead(Back(Len(t)), i - 1) = Back(Len(t) + 1 - i)
    BY <1>1, AheadOfBack DEF IInv
  <1>3. Len(t) + 1 - i \in 1 .. Size /\ Len(t) + 1 - i <= Len(pushed)
    BY <1>1, SizeAssumption DEF IsTail
  <1>4. ringBuf[Back(Len(t) + 1 - i)]
          = pushed[Len(pushed) + 1 - (Len(t) + 1 - i)]
    BY <1>3 DEF IInv, TailHeld
  <1>5. Len(pushed) + 1 - (Len(t) + 1 - i) = Len(pushed) - Len(t) + i
    BY <1>1
  <1>6. t[i] = pushed[Len(pushed) - Len(t) + i]
    BY DEF IsTail
  <1> QED BY <1>2, <1>4, <1>5, <1>6

(* The second: over cleared cells endsWith says yes to nothing else,       *)
(* because a cell not yet written holds NUL and no tag does.               *)
LEMMA ExactFromIInv == IInv => ExactAfterInit
  <1> SUFFICES ASSUME IInv, clean, NEW t \in Tags, endsWith(t)
               PROVE  IsTail(t)
    BY NoTagMissedFromIInv DEF ExactAfterInit, NoTagMissed
  <1>1. /\ Len(t) \in 1 .. Size /\ Len(pushed) \in Nat
        /\ \A i \in 1 .. Len(t) : t[i] \in Letter
    BY TagLen DEF IInv, TypeOK
  <1>2. ASSUME NEW i \in 1 .. Len(t)
        PROVE  t[i] = ringBuf[Back(Len(t) + 1 - i)]
    BY <1>1, <1>2, AheadOfBack DEF IInv, endsWith
  <1>3. Len(t) <= Len(pushed)
    <2> SUFFICES ASSUME Len(t) > Len(pushed) PROVE FALSE
      BY <1>1
    <2>1. 1 \in 1 .. Len(t) /\ Len(t) + 1 - 1 = Len(t)
      BY <1>1
    <2>2. t[1] = ringBuf[Back(Len(t))]
      BY <1>2, <2>1
    <2>3. ringBuf[Back(Len(t))] = NUL
      BY <1>1 DEF IInv, RestCleared
    <2> QED BY <1>1, <2>1, <2>2, <2>3 DEF Letter
  <1>4. ASSUME NEW i \in 1 .. Len(t)
        PROVE  t[i] = pushed[Len(pushed) - Len(t) + i]
    <2>1. Len(t) + 1 - i \in 1 .. Size /\ Len(t) + 1 - i <= Len(pushed)
      BY <1>1, <1>3, <1>4, SizeAssumption
    <2>2. ringBuf[Back(Len(t) + 1 - i)]
            = pushed[Len(pushed) + 1 - (Len(t) + 1 - i)]
      BY <2>1 DEF IInv, TailHeld
    <2>3. Len(pushed) + 1 - (Len(t) + 1 - i) = Len(pushed) - Len(t) + i
      BY <1>1, <1>4
    <2> QED BY <1>2, <1>4, <2>2, <2>3
  <1> QED BY <1>3, <1>4 DEF IsTail

(* Before the wrap the array starts with the characters pushed. *)
LEMMA ArrayStartsWithPushed ==
  ASSUME IInv, Len(pushed) < Size, NEW i \in 1 .. Len(pushed)
  PROVE  ringBuf[i - 1] = pushed[i] /\ pushed[i] # NUL
  <1>1. /\ Len(pushed) \in Nat
        /\ ringBufP = Len(pushed)
        /\ pushed[i] # NUL
    BY DEF IInv, TypeOK, PointerCounts, Letter
  <1>2. Len(pushed) + 1 - i \in 1 .. Size
    BY <1>1, SizeAssumption
  <1>3. Back(Len(pushed) + 1 - i) = i - 1
    BY <1>1, SizeAssumption DEF Back
  <1>4. ringBuf[Back(Len(pushed) + 1 - i)]
          = pushed[Len(pushed) + 1 - (Len(pushed) + 1 - i)]
    BY <1>1, <1>2 DEF IInv, TailHeld
  <1>5. Len(pushed) + 1 - (Len(pushed) + 1 - i) = i
    BY <1>1
  <1> QED BY <1>1, <1>3, <1>4, <1>5

(* The third: what getStrN copies before the wrap is the front of the      *)
(* stream without the tag, and no character of it is NUL.                  *)
LEMMA ExtractsFromIInv == IInv => ExtractsFrontOfTag
  <1> SUFFICES ASSUME IInv, NEW t \in Tags, NEW num \in 1 .. Size,
                      IsTail(t), Len(pushed) < Size, NEW i \in 1 .. Size
               PROVE  getStrN(Zeros(Size), Len(t), num)[i] =
                        IF i <= num /\ i <= Len(pushed) - Len(t)
                          THEN pushed[i] ELSE NUL
    BY DEF ExtractsFrontOfTag
  <1> DEFINE n == CopyLen(Len(t), num)
  <1>1. /\ Len(t) \in 1 .. Size /\ Len(pushed) \in Nat
        /\ Len(t) <= Len(pushed) /\ ringBufP = Len(pushed)
    BY TagLen DEF IInv, TypeOK, IsTail, PointerCounts
  <1>2. /\ n \in 0 .. Len(pushed)
        /\ i <= n <=> (i <= num /\ i <= Len(pushed) - Len(t))
    BY <1>1, SizeAssumption DEF CopyLen
  <1>3. Zeros(Size) \in Seq({NUL}) /\ Len(Zeros(Size)) = Size
        /\ Zeros(Size)[i] = NUL
    BY SizeAssumption DEF Zeros
  <1>4. getStrN(Zeros(Size), Len(t), num)[i] =
          CASE i > n -> NUL
            [] i <= n /\ (\E j \in 1 .. i : ringBuf[j - 1] = NUL) -> NUL
            [] OTHER -> ringBuf[i - 1]
    BY <1>3 DEF getStrN, Copied
  <1> HIDE DEF n
  <1>5. CASE i > n
    BY <1>2, <1>4, <1>5, SizeAssumption
  <1>6. CASE i <= n
    <2>1. \A j \in 1 .. i : ringBuf[j - 1] = pushed[j] /\ pushed[j] # NUL
      BY <1>1, <1>2, <1>6, SizeAssumption, ArrayStartsWithPushed
    <2>2. i \in 1 .. i
      BY SizeAssumption
    <2>3. ringBuf[i - 1] = pushed[i]
      BY <2>1, <2>2
    <2>4. ~(i > n) /\ ~(\E j \in 1 .. i : ringBuf[j - 1] = NUL)
      BY <2>1, <1>2, <1>6, SizeAssumption
    <2>5. getStrN(Zeros(Size), Len(t), num)[i] = ringBuf[i - 1]
      BY <1>4, <2>4
    <2> QED BY <1>2, <1>6, <2>3, <2>5
  <1> QED BY <1>2, <1>5, <1>6, SizeAssumption

-----------------------------------------------------------------------------
(* The promises of the buffer, for every reachable state.                  *)

(* A tag that has just been read is recognised, whatever the size of the   *)
(* buffer and wherever the writing wraps (push and endsWith).              *)
THEOREM TagsAreSeen == Spec => []NoTagMissed
  BY IInvariance, NoTagMissedFromIInv, PTL

(* After init nothing but a tag just read is recognised (init, endsWith).  *)
THEOREM ExactnessAfterInit == Spec => []ExactAfterInit
  BY IInvariance, ExactFromIInv, PTL

(* Up to the wrap, getStrN extracts the text in front of the end tag.      *)
THEOREM Extraction == Spec => []ExtractsFrontOfTag
  BY IInvariance, ExtractsFromIInv, PTL
=============================================================================
