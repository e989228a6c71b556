-------------------------- MODULE EspReadUntilProofs --------------------------
(* readUntil and sendCmdGet for every size of the ring buffer and of the   *)
(* caller's, every set of tags and of answers: no tag goes by, and what    *)
(* lies between the tags is what a cleared buffer gets.                    *)
EXTENDS EspReadUntil, EspRingBufferProofs, SequenceTheorems, WellFoundedInduction

(* A set of naturals that is not empty has a least element. *)
LEMMA LeastNat ==
  ASSUME NEW T, T \subseteq Nat, T # {}
  PROVE  \E x \in T : \A y \in T : x <= y
  <1>1. PICK x \in T : \A y \in T : ~(<<y, x>> \in OpToRel(<, Nat))
    BY WFMin, NatLessThanWellFounded
  <1>2. \A y \in T : ~(y < x)
    BY <1>1 DEF OpToRel
  <1> QED BY <1>2

(* The tags readUntil looks for in each place. *)
Sought(p) == ESPTAGS \o tagOf(p)

(* A tag is one of those the ring buffer can be asked about. *)
LEMMA TagIsTag ==
  ASSUME NEW t, IsTag(t)
  PROVE  t \in Tags /\ Len(t) \in 1 .. Size /\ t # NoTag
  <1>1. t \in Seq(Letter) /\ Len(t) \in 1 .. Size
    BY DEF IsTag
  <1>2. t \in [1 .. Len(t) -> Letter]
    BY <1>1, LenProperties
  <1> QED BY <1>1, <1>2 DEF Tags, NoTag

LEMMA SoughtTags ==
  ASSUME NEW p
  PROVE  /\ DOMAIN Sought(p) \subseteq Nat
         /\ \A i \in DOMAIN Sought(p) : IsTag(Sought(p)[i])
         /\ \A t : tagOf(p) = <<t>> => \E i \in DOMAIN Sought(p) : Sought(p)[i] = t
  <1>1. \A i \in DOMAIN ESPTAGS : IsTag(ESPTAGS[i])
    BY TagsAssumption
  <1>2. ESPTAGS \in Seq(Seq(Letter))
    BY TagsAssumption
  <1>3. tagOf(p) \in Seq(Seq(Letter)) /\ \A i \in DOMAIN tagOf(p) : IsTag(tagOf(p)[i])
    <2>1. StartTag \in Seq(Letter) /\ EndTag \in Seq(Letter) /\ IsTag(StartTag) /\ IsTag(EndTag)
      BY TagsAssumption DEF IsTag
    <2>2. tagOf(p) \in {<<StartTag>>, <<EndTag>>, <<>>}
      BY DEF tagOf
    <2>3. ASSUME NEW s, IsTag(s), s \in Seq(Letter)
          PROVE  <<s>> \in Seq(Seq(Letter)) /\ \A i \in DOMAIN <<s>> : IsTag(<<s>>[i])
      <3>1. DOMAIN <<s>> = 1 .. 1 /\ <<s>>[1] = s
        OBVIOUS
      <3>2. \A i \in 1 .. 1 : i = 1
        OBVIOUS
      <3> QED BY <2>3, <3>1, <3>2
    <2>4. <<>> \in Seq(Seq(Letter)) /\ \A i \in DOMAIN <<>> : FALSE
      <3>1. <<>> \in Seq(Seq(Letter)) /\ Len(<<>>) = 0
        BY EmptySeq
      <3>2. DOMAIN <<>> = 1 .. 0
        OBVIOUS
      <3> QED BY <3>1, <3>2
    <2> QED BY <2>1, <2>2, <2>3, <2>4
  <1>4. /\ Sought(p) \in Seq(Seq(Letter))
        /\ Len(Sought(p)) = Len(ESPTAGS) + Len(tagOf(p))
        /\ \A i \in 1 .. Len(ESPTAGS) + Len(tagOf(p)) : Sought(p)[i] =
             IF i <= Len(ESPTAGS) THEN ESPTAGS[i] ELSE tagOf(p)[i - Len(ESPTAGS)]
    BY <1>2, <1>3, ConcatProperties DEF Sought
  <1>5. /\ DOMAIN Sought(p) = 1 .. Len(ESPTAGS) + Len(tagOf(p))
        /\ DOMAIN ESPTAGS = 1 .. Len(ESPTAGS) /\ DOMAIN tagOf(p) = 1 .. Len(tagOf(p))
        /\ Len(ESPTAGS) \in Nat /\ Len(tagOf(p)) \in Nat
    BY <1>2, <1>3, <1>4, LenProperties
  <1>6. ASSUME NEW i \in DOMAIN Sought(p) PROVE IsTag(Sought(p)[i])
    <2>1. CASE i <= Len(ESPTAGS)
      BY <1>1, <1>4, <1>5, <2>1
    <2>2. CASE i > Len(ESPTAGS)
      <3>1. i - Len(ESPTAGS) \in DOMAIN tagOf(p) /\ Sought(p)[i] = tagOf(p)[i - Len(ESPTAGS)]
        BY <1>4, <1>5, <2>2
      <3> QED BY <1>3, <3>1
    <2> QED BY <1>5, <2>1, <2>2
  <1>7. ASSUME NEW t, tagOf(p) = <<t>> PROVE \E i \in DOMAIN Sought(p) : Sought(p)[i] = t
    <2>1. Len(tagOf(p)) = 1 /\ tagOf(p)[1] = t
      BY <1>7
    <2>2. Len(ESPTAGS) + 1 \in DOMAIN Sought(p) /\ Sought(p)[Len(ESPTAGS) + 1] = tagOf(p)[1]
      BY <1>4, <1>5, <2>1
    <2> QED BY <2>1, <2>2
  <1> QED BY <1>5, <1>6, <1>7

(* Matches says NoTag only if none of the tags is at the end of the ring   *)
(* buffer, and otherwise a tag that is.                                    *)
MatchesRight ==
  \A p \in {"cmd", "start", "end", "rest"} : \A t :
    /\ (Matches(p) = NoTag /\ \E i \in DOMAIN Sought(p) : t = Sought(p)[i]) => ~endsWith(t)
    /\ (Matches(p) = t /\ t # NoTag) => endsWith(t)

LEMMA MatchesIsRight == MatchesRight
  <1> SUFFICES ASSUME NEW p \in {"cmd", "start", "end", "rest"}
               PROVE  /\ Matches(p) = NoTag => \A i \in DOMAIN Sought(p) : ~endsWith(Sought(p)[i])
                      /\ Matches(p) # NoTag => endsWith(Matches(p))
    BY DEF MatchesRight
  <1> DEFINE hits == {i \in DOMAIN Sought(p) : endsWith(Sought(p)[i])}
             best == CHOOSE i \in hits : \A j \in hits : i <= j
  <1>1. Matches(p) = IF hits = {} THEN NoTag ELSE Sought(p)[best]
    BY DEF Matches, Sought
  <1>2. CASE hits = {}
    BY <1>1, <1>2
  <1>3. CASE hits # {}
    <2>1. hits \subseteq Nat
      BY SoughtTags
    <2>2. \E x \in hits : \A y \in hits : x <= y
      <3> HIDE DEF hits
      <3> QED BY <1>3, <2>1, LeastNat
    <2>3. best \in hits
      <3> HIDE DEF hits
      <3> QED BY <2>2
    <2>4. best \in DOMAIN Sought(p) /\ endsWith(Sought(p)[best])
      <3> HIDE DEF best
      <3> QED BY <2>3
    <2>5. Matches(p) = Sought(p)[best]
      BY <1>1, <1>3
    <2>6. Sought(p)[best] # NoTag
      <3> HIDE DEF best
      <3> QED BY <2>4, SoughtTags, TagIsTag
    <2> QED BY <2>4, <2>5, <2>6
  <1> QED BY <1>2, <1>3

(* What endsWith says yes to agrees with the newest characters.            *)
AgreesWithTail ==
  \A t \in Tags : endsWith(t) =>
    \A k \in 1 .. Len(t) : k <= Len(pushed) => t[Len(t) + 1 - k] = pushed[Len(pushed) + 1 - k]

LEMMA AgreesFromIInv == IInv => AgreesWithTail
  <1> SUFFICES ASSUME IInv, NEW t \in Tags, endsWith(t),
                      NEW k \in 1 .. Len(t), k <= Len(pushed)
               PROVE  t[Len(t) + 1 - k] = pushed[Len(pushed) + 1 - k]
    BY DEF AgreesWithTail
  <1>1. Len(t) \in 1 .. Size /\ Len(pushed) \in Nat /\ TypeOK /\ TailHeld
    BY TagLen DEF IInv, TypeOK
  <1>2. Len(t) + 1 - k \in 1 .. Len(t) /\ k \in 1 .. Size
    BY <1>1, SizeAssumption
  <1>3. t[Len(t) + 1 - k] = ringBuf[Ahead(Back(Len(t)), (Len(t) + 1 - k) - 1)]
    BY <1>2 DEF endsWith
  <1>4. Ahead(Back(Len(t)), (Len(t) + 1 - k) - 1) = Back(Len(t) + 1 - (Len(t) + 1 - k))
    BY <1>1, <1>2, AheadOfBack
  <1>5. Len(t) + 1 - (Len(t) + 1 - k) = k
    BY <1>1, <1>2
  <1>6. ringBuf[Back(k)] = pushed[Len(pushed) + 1 - k]
    BY <1>1, <1>2 DEF TailHeld
  <1> QED BY <1>3, <1>4, <1>5, <1>6

-----------------------------------------------------------------------------
(* How the answer and the ring buffer go together.                         *)

(* The sizes and places of an answer being read. *)
LEMMA Sizes ==
  ASSUME RTypeOK
  PROVE  /\ Len(reply) \in Nat /\ Len(input) \in Nat /\ Len(pushed) \in Nat
         /\ reply \in Seq(Letter) /\ input \in Seq(Letter) /\ pushed \in Seq(Letter)
         /\ OutLen \in Nat /\ 1 <= OutLen /\ OutLen <= Size + 1
         /\ Read \in Int /\ From \in Int
  <1>1. reply \in Seq(Letter)
    <2>1. reply \in Replies \cup {<<>>}
      BY DEF RTypeOK, NoReply
    <2>2. \A r \in Replies : r \in Seq(Letter)
      BY RepliesAssumption
    <2>3. <<>> \in Seq(Letter)
      BY EmptySeq
    <2> QED BY <2>1, <2>2, <2>3
  <1>2. input \in Seq(Letter) /\ pushed \in Seq(Letter)
    BY DEF RTypeOK, TypeOK
  <1>3. Len(reply) \in Nat /\ Len(input) \in Nat /\ Len(pushed) \in Nat
    BY <1>1, <1>2, LenProperties
  <1> QED BY <1>1, <1>2, <1>3, OutLenAssumption, SizeAssumption DEF Read, From

(* A tag that ends in what was pushed ends in the answer, From further on. *)
LEMMA EndsAtShifts ==
  ASSUME RTypeOK, Position, NEW t, Len(t) \in 1 .. Size,
         NEW k \in 1 .. Len(pushed), Len(t) <= k
  PROVE  EndsAt(pushed, t, k) <=> EndsAt(reply, t, From + k)
  <1>1. Len(pushed) \in Nat /\ From \in Int /\ 0 <= From
    BY Sizes DEF Position
  <1>2. ASSUME NEW i \in 1 .. Len(t)
        PROVE  pushed[k - Len(t) + i] = reply[(From + k) - Len(t) + i]
    <2>1. k - Len(t) + i \in 1 .. Len(pushed)
      BY <1>1, SizeAssumption
    <2>2. pushed[k - Len(t) + i] = reply[From + (k - Len(t) + i)]
      BY <2>1 DEF Position
    <2>3. From + (k - Len(t) + i) = (From + k) - Len(t) + i
      BY <1>1, <2>1, SizeAssumption
    <2> QED BY <2>2, <2>3
  <1>3. Len(t) <= From + k
    BY <1>1, SizeAssumption
  <1>4. EndsAt(pushed, t, k) <=> \A i \in 1 .. Len(t) : pushed[k - Len(t) + i] = t[i]
    BY DEF EndsAt
  <1>5. EndsAt(reply, t, From + k) <=> \A i \in 1 .. Len(t) : reply[(From + k) - Len(t) + i] = t[i]
    BY <1>3 DEF EndsAt
  <1> QED BY <1>2, <1>4, <1>5

(* Tail and end are the same. *)
TailIsEnd == \A t : IsTail(t) <=> EndsAt(pushed, t, Len(pushed))

LEMMA TailIsEndHolds == TailIsEnd
  <1> SUFFICES ASSUME NEW t PROVE IsTail(t) <=> EndsAt(pushed, t, Len(pushed))
    BY DEF TailIsEnd
  <1> QED BY DEF IsTail, EndsAt

(* One turn of the loop moves one character from the answer to the buffer. *)
LEMMA ReadMoves ==
  ASSUME RTypeOK, Position, readChar
  PROVE  /\ Head(input) \in Letter /\ push(Head(input))
         /\ Len(pushed') = Len(pushed) + 1 /\ Len(input') = Len(input) - 1
         /\ input' \in Seq(Letter) /\ pushed' \in Seq(Letter)
         /\ \A i \in 1 .. Len(pushed) : pushed'[i] = pushed[i]
         /\ Read' = Read + 1 /\ From' = From
         /\ Position'
  <1>1. /\ input # <<>> /\ push(Head(input)) /\ input' = Tail(input) /\ reply' = reply
        /\ pushed' = Append(pushed, Head(input))
    BY DEF readChar, push
  <1>2. /\ Len(reply) \in Nat /\ Len(input) \in Nat /\ Len(pushed) \in Nat
        /\ input \in Seq(Letter) /\ pushed \in Seq(Letter)
    BY Sizes
  <1>3. /\ Head(input) \in Letter /\ Len(input) > 0
        /\ input' \in Seq(Letter) /\ Len(input') = Len(input) - 1
        /\ \A i \in 1 .. Len(input') : input'[i] = input[i + 1]
    BY <1>1, <1>2, HeadTailProperties, EmptySeq
  <1>4. /\ pushed' \in Seq(Letter) /\ Len(pushed') = Len(pushed) + 1
        /\ \A i \in 1 .. Len(pushed) : pushed'[i] = pushed[i]
        /\ pushed'[Len(pushed) + 1] = Head(input)
    BY <1>1, <1>2, <1>3, AppendProperties
  <1>5. Read' = Read + 1 /\ From' = From
    BY <1>1, <1>2, <1>3, <1>4 DEF Read, From
  <1>6. Head(input) = reply[Read + 1]
    <2>1. Head(input) = input[1] /\ 1 \in 1 .. Len(input)
      BY <1>2, <1>3
    <2> QED BY <2>1 DEF Position
  <1>7. \A i \in 1 .. Len(input') : input'[i] = reply'[Read' + i]
    <2> SUFFICES ASSUME NEW i \in 1 .. Len(input') PROVE input'[i] = reply[Read + 1 + i]
      BY <1>1, <1>5
    <2>1. i + 1 \in 1 .. Len(input)
      BY <1>2, <1>3
    <2>2. input[i + 1] = reply[Read + (i + 1)]
      BY <2>1 DEF Position
    <2>3. Read + (i + 1) = Read + 1 + i
      BY Sizes
    <2> QED BY <1>3, <2>2, <2>3
  <1>8. \A i \in 1 .. Len(pushed') : pushed'[i] = reply'[From' + i]
    <2> SUFFICES ASSUME NEW i \in 1 .. Len(pushed) + 1 PROVE pushed'[i] = reply[From + i]
      BY <1>1, <1>4, <1>5
    <2>1. CASE i <= Len(pushed)
      BY <1>2, <1>4, <2>1 DEF Position
    <2>2. CASE i = Len(pushed) + 1
      <3>1. From + i = Read + 1
        BY <1>2, <2>2, Sizes DEF From
      <3> QED BY <1>4, <1>6, <2>2, <3>1
    <2> QED BY <1>2, <2>1, <2>2
  <1>9. Position'
    BY <1>5, <1>7, <1>8 DEF Position
  <1> QED BY <1>1, <1>3, <1>4, <1>5, <1>9

(* A restart of the ring buffer gives up what was pushed. *)
LEMMA Restart ==
  ASSUME RTypeOK, Position, pushed' = <<>>, UNCHANGED <<input, reply>>
  PROVE  Read' = Read /\ From' = Read /\ Position'
  <1>1. Len(pushed') = 0 /\ Read \in Int /\ Len(pushed) \in Nat
    BY Sizes
  <1>2. Read' = Read
    BY DEF Read
  <1>3. From' = Read /\ 0 <= Read
    BY <1>1, <1>2 DEF From, Position
  <1>4. \A i \in 1 .. Len(pushed') : FALSE
    BY <1>1
  <1> QED BY <1>2, <1>3, <1>4 DEF Position

-----------------------------------------------------------------------------
(* One turn of readUntil's loop.                                           *)

(* The turn ends the read exactly if a tag is at the end of the buffer.    *)
LEMMA ReadTurn ==
  ASSUME RInv, readChar
  PROVE  /\ pc \in {"cmd", "start", "end", "rest"} /\ IInv'
         /\ ret' = NoTag =>
              /\ pc' = pc
              /\ \A t : (\E i \in DOMAIN Sought(pc) : t = Sought(pc)[i]) => ~endsWith(t)'
         /\ ret' # NoTag => pc' = After(pc, ret') /\ \A t : ret' = t => endsWith(t)'
         /\ UNCHANGED <<reply, out, fresh, calls>>
  <1>1. RTypeOK /\ Position /\ IInv
    BY DEF RInv
  <1>2. Head(input) \in Letter /\ push(Head(input))
    BY <1>1, ReadMoves
  <1>3. IInv'
    BY <1>1, <1>2, PushStep
  <1>4. pc \in {"cmd", "start", "end", "rest"}
    BY DEF readChar, Reading
  <1>5. MatchesRight'
    BY MatchesIsRight, PTL
  <1>6. PICK p \in {pc} : ret' = Matches(p)'
    BY DEF readChar
  <1>7. p = pc /\ p \in {"cmd", "start", "end", "rest"}
    BY <1>4
  <1>8. ASSUME ret' = NoTag, NEW t, \E i \in DOMAIN Sought(pc) : t = Sought(pc)[i]
        PROVE  ~endsWith(t)'
    <2>1. (\E i \in DOMAIN Sought(p) : t = Sought(p)[i]) /\ Matches(p)' = NoTag
      BY <1>6, <1>7, <1>8
    <2> QED BY <1>5, <1>7, <2>1 DEF MatchesRight
  <1>9. ASSUME ret' # NoTag, NEW t, ret' = t
        PROVE  endsWith(t)'
    <2>1. Matches(p)' = t /\ t # NoTag
      BY <1>6, <1>9
    <2> QED BY <1>5, <1>7, <2>1 DEF MatchesRight
  <1>10. /\ pc' = IF ret' = NoTag THEN pc ELSE After(pc, ret')
         /\ UNCHANGED <<reply, out, fresh, calls>>
    BY DEF readChar
  <1> QED BY <1>3, <1>4, <1>8, <1>9, <1>10

LEMMA TagsAskedFor ==
  /\ IsTag(StartTag) /\ IsTag(EndTag)
  /\ StartTag \in Tags /\ EndTag \in Tags
  /\ Len(StartTag) \in 1 .. Size /\ Len(EndTag) \in 1 .. Size
  /\ \E i \in DOMAIN Sought("start") : Sought("start")[i] = StartTag
  /\ \E i \in DOMAIN Sought("end") : Sought("end")[i] = EndTag
  <1>1. IsTag(StartTag) /\ IsTag(EndTag)
    BY TagsAssumption
  <1>2. tagOf("start") = <<StartTag>> /\ tagOf("end") = <<EndTag>>
    BY DEF tagOf
  <1> QED BY <1>1, <1>2, TagIsTag, SoughtTags

(* The loop goes on only past characters that end no tag. *)
LEMMA ReadNoTagGoesBy == ASSUME RInv, readChar PROVE NoTagGoesBy'
  <1> SUFFICES ASSUME Reading', NEW i \in DOMAIN Sought(pc'), NEW k \in 1 .. Len(pushed'),
                      EndsAt(pushed', Sought(pc')[i], k)
               PROVE  FALSE
    BY DEF NoTagGoesBy, Sought
  <1>1. RTypeOK /\ Position /\ NoTagGoesBy
    BY DEF RInv
  <1>2. ret' = NoTag
    BY ReadTurn DEF After, Reading
  <1>3. pc' = pc /\ Reading
    BY <1>2, ReadTurn DEF readChar
  <1> DEFINE t == Sought(pc)[i]
  <1>4. i \in DOMAIN Sought(pc) /\ t \in Tags /\ Len(t) \in 1 .. Size
    BY <1>3, SoughtTags, TagIsTag
  <1>5. EndsAt(pushed', t, k)
    BY <1>3
  <1>6. /\ Len(pushed) \in Nat /\ Len(pushed') = Len(pushed) + 1
        /\ \A j \in 1 .. Len(pushed) : pushed'[j] = pushed[j]
    BY <1>1, ReadMoves, Sizes
  <1>7. CASE k <= Len(pushed)
    <2>1. k \in 1 .. Len(pushed)
      BY <1>6, <1>7
    <2>2. ~EndsAt(pushed, t, k)
      BY <1>1, <1>3, <1>4, <2>1 DEF NoTagGoesBy, Sought
    <2> HIDE DEF t
    <2>3. Len(t) <= k /\ \A j \in 1 .. Len(t) : pushed'[k - Len(t) + j] = t[j]
      BY <1>5 DEF EndsAt
    <2>4. \A j \in 1 .. Len(t) : k - Len(t) + j \in 1 .. Len(pushed)
      BY <1>4, <1>6, <2>1, <2>3, SizeAssumption
    <2>5. \A j \in 1 .. Len(t) : pushed[k - Len(t) + j] = t[j]
      BY <1>6, <2>3, <2>4
    <2> QED BY <2>2, <2>3, <2>5 DEF EndsAt
  <1>8. CASE k = Len(pushed')
    <2>1. TailIsEnd'
      BY TailIsEndHolds, PTL
    <2>2. PICK u : u = t
      OBVIOUS
    <2>3. u \in Tags /\ EndsAt(pushed', u, Len(pushed')) /\ \E n \in DOMAIN Sought(pc) : u = Sought(pc)[n]
      BY <1>4, <1>5, <1>8, <2>2
    <2> HIDE DEF t
    <2>4. IsTail(u)'
      BY <2>1, <2>3 DEF TailIsEnd
    <2>5. NoTagMissed'
      <3>1. IInv' => NoTagMissed'
        BY NoTagMissedFromIInv, PTL
      <3> QED BY <3>1, ReadTurn
    <2>6. endsWith(u)'
      BY <2>3, <2>4, <2>5 DEF NoTagMissed
    <2> QED BY <1>2, <2>3, <2>6, ReadTurn
  <1> QED BY <1>6, <1>7, <1>8

(* The start tag is seen where it first ends: what an earlier call left in *)
(* the buffer cannot stand for its first part, because no answer begins    *)
(* with the rest.                                                          *)
LEMMA StartFound ==
  ASSUME RInv, readChar, pc = "start", ret' = StartTag
  PROVE  FirstEnd(StartTag, 0, Read')
  <1>1. RTypeOK /\ Position /\ NoTagGoesBy /\ Found
    BY DEF RInv
  <1>2. /\ From = 0 /\ Read' = Read + 1 /\ From' = 0 /\ Len(pushed') = Len(pushed) + 1
        /\ \A i \in 1 .. Len(pushed) : pushed'[i] = pushed[i]
        /\ \A i \in 1 .. Len(pushed') : pushed'[i] = reply[i]
        /\ Len(input') \in Nat /\ Len(input') = Len(input) - 1
    <2>1. From = 0 /\ reply' = reply
      BY <1>1 DEF Found, readChar
    <2>2. Position' /\ From' = From
      BY <1>1, ReadMoves
    <2>3. \A i \in 1 .. Len(pushed') : pushed'[i] = reply[0 + i]
      BY <2>1, <2>2 DEF Position
    <2>4. \A i \in 1 .. Len(pushed') : 0 + i = i
      BY <1>1, ReadMoves, Sizes
    <2>5. Len(input') \in Nat
      BY <1>1, ReadMoves, LenProperties
    <2> QED BY <1>1, <2>1, <2>2, <2>3, <2>4, <2>5, ReadMoves
  <1>3. /\ Len(pushed) \in Nat /\ Len(reply) \in Nat /\ Len(input) \in Nat
        /\ Read = Len(pushed) /\ Len(pushed') <= Len(reply)
        /\ Len(StartTag) \in Nat /\ Len(StartTag) >= 1 /\ Len(StartTag) <= Size
    BY <1>1, <1>2, Sizes, TagsAskedFor, SizeAssumption DEF From, Read
  <1>4. \A k \in 1 .. Len(StartTag) : k <= Len(pushed') =>
           StartTag[Len(StartTag) + 1 - k] = pushed'[Len(pushed') + 1 - k]
    <2>1. AgreesWithTail'
      <3>1. IInv' => AgreesWithTail'
        BY AgreesFromIInv, PTL
      <3> QED BY <3>1, ReadTurn
    <2>2. endsWith(StartTag)'
      BY ReadTurn, TagsAskedFor, TagIsTag
    <2> QED BY <2>1, <2>2, TagsAskedFor DEF AgreesWithTail
  <1>5. Len(StartTag) <= Len(pushed')
    <2> SUFFICES ASSUME Len(pushed') < Len(StartTag) PROVE FALSE
      BY <1>2, <1>3
    <2> DEFINE n == Len(pushed')
    <2>1. n \in 1 .. Len(StartTag) - 1 /\ n <= Len(reply)
      BY <1>2, <1>3
    <2>2. reply \in Replies
      <3>1. reply # NoReply
        BY <1>2, <1>3 DEF NoReply
      <3> QED BY <1>1, <3>1 DEF RTypeOK
    <2>3. PICK i \in 1 .. n : reply[i] # StartTag[Len(StartTag) - n + i]
      BY <2>1, <2>2, RepliesAssumption
    <2>4. n + 1 - i \in 1 .. Len(StartTag) /\ n + 1 - i <= n
      BY <2>1, <1>3
    <2>5. StartTag[Len(StartTag) + 1 - (n + 1 - i)] = pushed'[n + 1 - (n + 1 - i)]
      BY <1>4, <2>4
    <2>6. Len(StartTag) + 1 - (n + 1 - i) = Len(StartTag) - n + i /\ n + 1 - (n + 1 - i) = i
      BY <1>2, <1>3
    <2> QED BY <1>2, <2>3, <2>5, <2>6
  <1>6. EndsAt(reply, StartTag, Read')
    <2> SUFFICES ASSUME NEW i \in 1 .. Len(StartTag)
                 PROVE  reply[Read' - Len(StartTag) + i] = StartTag[i]
      BY <1>2, <1>3, <1>5 DEF EndsAt
    <2> DEFINE k == Len(StartTag) + 1 - i
    <2>1. k \in 1 .. Len(StartTag) /\ k <= Len(pushed')
      BY <1>2, <1>3, <1>5
    <2>2. StartTag[Len(StartTag) + 1 - k] = pushed'[Len(pushed') + 1 - k]
      BY <1>4, <2>1
    <2>3. /\ Len(StartTag) + 1 - k = i /\ Len(pushed') + 1 - k = Read' - Len(StartTag) + i
          /\ Len(pushed') + 1 - k \in 1 .. Len(pushed')
      BY <1>2, <1>3, <1>5
    <2> QED BY <1>2, <2>2, <2>3
  <1>7. ASSUME NEW j \in 0 + Len(StartTag) .. Read' - 1 PROVE ~EndsAt(reply, StartTag, j)
    <2>1. j \in 1 .. Len(pushed) /\ Len(StartTag) <= j /\ From + j = j
      BY <1>2, <1>3
    <2>2. ~EndsAt(pushed, StartTag, j)
      BY <1>1, <2>1, TagsAskedFor DEF NoTagGoesBy, Reading, Sought
    <2> QED BY <1>1, <2>1, <2>2, EndsAtShifts, TagsAskedFor
  <1>8. Read' \in 0 + Len(StartTag) .. Len(reply)
    BY <1>2, <1>3, <1>5
  <1> QED BY <1>6, <1>7, <1>8 DEF FirstEnd

(* Over the cells that clearRing has cleared the end tag is seen where it  *)
(* first ends after the start tag.                                         *)
LEMMA EndFound ==
  ASSUME RInv, readChar, pc = "end", ret' = EndTag
  PROVE  FirstEnd(EndTag, From, Read')
  <1>1. RTypeOK /\ Position /\ NoTagGoesBy /\ Found
    BY DEF RInv
  <1>2. /\ Read' = Read + 1 /\ From' = From /\ Len(pushed') = Len(pushed) + 1
        /\ Position' /\ reply' = reply /\ Len(input') = Len(input) - 1
        /\ Len(input') \in Nat /\ 0 <= From
    <2>1. Len(input') \in Nat
      BY <1>1, ReadMoves, LenProperties
    <2>2. 0 <= From /\ reply' = reply
      BY <1>1 DEF Position, readChar
    <2> QED BY <1>1, <2>1, <2>2, ReadMoves
  <1>3. /\ Len(pushed) \in Nat /\ Len(reply) \in Nat /\ Len(input) \in Nat
        /\ From \in Int /\ Read = From + Len(pushed) /\ Read' <= Len(reply)
        /\ Len(EndTag) \in Nat /\ Len(EndTag) >= 1 /\ Len(EndTag) <= Size
    BY <1>1, <1>2, Sizes, TagsAskedFor, SizeAssumption DEF From, Read
  <1>4. IsTail(EndTag)'
    <2>1. ExactAfterInit'
      <3>1. IInv' => ExactAfterInit'
        BY ExactFromIInv, PTL
      <3> QED BY <3>1, ReadTurn
    <2>2. endsWith(EndTag)'
      BY ReadTurn, TagsAskedFor, TagIsTag
    <2>3. clean'
      BY <1>1 DEF Found, readChar, push
    <2> QED BY <2>1, <2>2, <2>3, TagsAskedFor DEF ExactAfterInit
  <1>5. EndsAt(reply, EndTag, Read')
    <2>1. /\ Len(EndTag) <= Len(pushed')
          /\ \A i \in 1 .. Len(EndTag) : EndTag[i] = pushed'[Len(pushed') - Len(EndTag) + i]
      BY <1>4 DEF IsTail
    <2>0. Len(EndTag) <= Read'
      BY <1>2, <1>3, <2>1
    <2> SUFFICES ASSUME NEW i \in 1 .. Len(EndTag)
                 PROVE  reply[Read' - Len(EndTag) + i] = EndTag[i]
      BY <2>0 DEF EndsAt
    <2> DEFINE k == Len(pushed') - Len(EndTag) + i
    <2>2. k \in 1 .. Len(pushed')
      BY <1>2, <1>3, <2>1
    <2>3. pushed'[k] = reply[From + k]
      <3> HIDE DEF k
      <3> QED BY <1>2, <2>2 DEF Position
    <2>4. From + k = Read' - Len(EndTag) + i
      BY <1>2, <1>3
    <2> QED BY <2>1, <2>3, <2>4
  <1>6. Len(EndTag) <= Len(pushed')
    BY <1>4 DEF IsTail
  <1>7. ASSUME NEW j \in From + Len(EndTag) .. Read' - 1 PROVE ~EndsAt(reply, EndTag, j)
    <2> DEFINE k == j - From
    <2>1. k \in 1 .. Len(pushed) /\ Len(EndTag) <= k /\ From + k = j
      BY <1>2, <1>3
    <2>2. ~EndsAt(pushed, EndTag, k)
      <3> HIDE DEF k
      <3> QED BY <1>1, <2>1, TagsAskedFor DEF NoTagGoesBy, Reading, Sought
    <2>3. EndsAt(pushed, EndTag, k) <=> EndsAt(reply, EndTag, From + k)
      <3> HIDE DEF k
      <3> QED BY <1>1, <2>1, EndsAtShifts, TagsAskedFor
    <2> QED BY <2>1, <2>2, <2>3
  <1>8. Read' \in From + Len(EndTag) .. Len(reply)
    BY <1>2, <1>3, <1>6
  <1> QED BY <1>5, <1>7, <1>8 DEF FirstEnd

(* A step that leaves the answer and the caller's buffer alone leaves what *)
(* is said of them alone.                                                  *)
LEMMA SameAnswer ==
  ASSUME UNCHANGED <<reply, out>>
  PROVE  /\ CString' = CString
         /\ \A s, e : Between(s, e)' = Between(s, e)
         /\ \A t, n, k : FirstEnd(t, n, k)' <=> FirstEnd(t, n, k)
  BY DEF CString, Between, FirstEnd

(* readUntil's loop, in each of the places it is called from. *)
LEMMA ReadInductive == RInv /\ readChar => RInv'
  <1> SUFFICES ASSUME RInv, readChar PROVE RInv'
    OBVIOUS
  <1>1. RTypeOK /\ Position /\ IInv /\ Found /\ Copying
    BY DEF RInv
  <1>2. /\ UNCHANGED <<reply, out, fresh, calls>> /\ IInv'
        /\ pc \in {"cmd", "start", "end", "rest"}
        /\ ret' = NoTag => pc' = pc
        /\ ret' # NoTag => pc' = After(pc, ret')
    BY ReadTurn
  <1>3. \/ pc' = pc
        \/ pc = "start" /\ ret' = StartTag /\ pc' = "clear"
        \/ pc = "end" /\ ret' = EndTag /\ pc' = "copy"
        \/ pc' = "idle"
    BY <1>2 DEF After
  <1>4. RTypeOK'
    <2>1. input' \in Seq(Letter)
      BY <1>1, ReadMoves
    <2>2. got' \in BOOLEAN
      BY <1>1 DEF readChar, RTypeOK
    <2>3. TypeOK'
      BY <1>2 DEF IInv
    <2>4. pc' \in {"idle", "cmd", "start", "clear", "end", "copy", "rest"}
      BY <1>2, <1>3
    <2> QED BY <1>1, <1>2, <2>1, <2>2, <2>3, <2>4 DEF RTypeOK
  <1>5. Position' /\ From' = From
    BY <1>1, ReadMoves
  <1>6. Found'
    <2>1. pc' = "start" => From' = 0
      BY <1>1, <1>2, <1>3, <1>5 DEF Found
    <2>2. pc' = "clear" => FirstEnd(StartTag, 0, Read')
      BY <1>2, <1>3, StartFound
    <2>3. pc' = "end" => clean' /\ FirstEnd(StartTag, 0, From)
      BY <1>1, <1>2, <1>3 DEF Found, readChar, push
    <2>4. pc' = "copy" => FirstEnd(StartTag, 0, From) /\ FirstEnd(EndTag, From, Read')
      BY <1>1, <1>2, <1>3, EndFound DEF Found
    <2> QED BY <1>2, <1>5, <2>1, <2>2, <2>3, <2>4 DEF Found, FirstEnd
  <1>7. Copying'
    <2>1. pc' \in {"start", "clear", "end", "copy"} => pc \in {"start", "end"}
      BY <1>2, <1>3
    <2>2. (got' \/ pc' = "rest") => (got \/ pc = "rest")
      BY <1>2, <1>3 DEF readChar
    <2> QED BY <1>1, <1>2, <2>1, <2>2, SameAnswer DEF Copying
  <1> QED BY <1>2, <1>4, <1>5, <1>6, <1>7, ReadNoTagGoesBy DEF RInv

-----------------------------------------------------------------------------
(* The steps between the reads.                                            *)

(* A wait that ends leaves everything but the place. *)
LEMMA TimeoutInductive == RInv /\ timeout => RInv'
  <1> SUFFICES ASSUME RInv, timeout PROVE RInv'
    OBVIOUS
  <1>1. /\ pc \in {"cmd", "start", "end", "rest"} /\ pc' = "idle" /\ got' = (pc = "rest")
        /\ UNCHANGED <<ringBuf, ringBufP, pushed, clean, input, reply, out, fresh, calls>>
    BY DEF timeout, ringVars, Reading
  <1>2. RTypeOK' /\ IInv'
    BY <1>1 DEF RInv, RTypeOK, IInv, TypeOK, TailHeld, PointerCounts, RestCleared, Back
  <1>3. NoTagGoesBy'
    BY <1>1 DEF NoTagGoesBy, Reading
  <1>4. Position'
    BY <1>1 DEF RInv, Position, Read, From
  <1>5. Found'
    BY <1>1 DEF Found
  <1>6. Copying'
    BY <1>1, SameAnswer DEF RInv, Copying
  <1> QED BY <1>2, <1>3, <1>4, <1>5, <1>6 DEF RInv

(* Nothing has gone by in a ring buffer just restarted. *)
LEMMA RestartNoTag ==
  ASSUME pushed' = <<>>
  PROVE  NoTagGoesBy'
  <1>1. \A k \in 1 .. Len(pushed') : FALSE
    <2>1. Len(pushed') = 0
      OBVIOUS
    <2> QED BY <2>1
  <1> QED BY <1>1 DEF NoTagGoesBy

(* A new command: a new answer, none of which has been read. *)
LEMMA CommandInductive ==
  ASSUME RInv, NEW r \in Replies, NEW p \in {"cmd", "start"}, Command(p, r),
         out' \in [1 .. OutLen -> Char], fresh' \in BOOLEAN,
         (fresh' /\ p = "start") => \A i \in 1 .. OutLen : out'[i] = NUL
  PROVE  RInv'
  <1>1. /\ reset /\ reply' = r /\ input' = r /\ pushed' = <<>> /\ pc' = p /\ got' = FALSE
        /\ calls < MaxCalls /\ calls' = calls + 1
    BY DEF Command, reset
  <1>2. IInv'
    BY <1>1, ResetStep DEF RInv
  <1>3. r \in Seq(Letter)
    BY RepliesAssumption
  <1>4. RTypeOK'
    <2>1. TypeOK' /\ calls' \in 0 .. MaxCalls
      BY <1>1, <1>2, MaxCallsAssumption DEF IInv, RInv, RTypeOK
    <2> QED BY <1>1, <1>3, <2>1 DEF RTypeOK
  <1>5. Read' = 0 /\ From' = 0 /\ Position'
    <2>1. Len(r) \in Nat /\ Len(pushed') = 0
      BY <1>1, <1>3, LenProperties
    <2>2. Read' = 0 /\ From' = 0
      <3>1. Read' = Len(r) - Len(r)
        BY <1>1 DEF Read
      <3>2. From' = Read' - Len(pushed')
        BY DEF From
      <3> QED BY <2>1, <3>1, <3>2
    <2>3. \A i \in 1 .. Len(input') : input'[i] = reply'[Read' + i]
      BY <1>1, <2>1, <2>2
    <2>4. \A i \in 1 .. Len(pushed') : FALSE
      BY <2>1
    <2> QED BY <2>2, <2>3, <2>4 DEF Position
  <1>6. Found'
    BY <1>1, <1>5 DEF Found
  <1>7. Copying'
    BY <1>1 DEF Copying
  <1> QED BY <1>1, <1>2, <1>4, <1>5, <1>6, <1>7, RestartNoTag DEF RInv

LEMMA SendCmdInductive ==
  ASSUME RInv, NEW r \in Replies, sendCmd(r)
  PROVE  RInv'
  <1>1. Command("cmd", r) /\ out' = out /\ fresh' = fresh
    BY DEF sendCmd
  <1>2. out' \in [1 .. OutLen -> Char] /\ fresh' \in BOOLEAN
    BY <1>1 DEF RInv, RTypeOK
  <1> QED BY <1>1, <1>2, CommandInductive

LEMMA SendCmdGetInductive ==
  ASSUME RInv, NEW r \in Replies, NEW cleared \in BOOLEAN, sendCmdGet(r, cleared)
  PROVE  RInv'
  <1>1. /\ Command("start", r) /\ fresh' = cleared
        /\ out' = [i \in 1 .. OutLen |-> IF i = 1 \/ cleared THEN NUL ELSE out[i]]
    BY DEF sendCmdGet
  <1>2. out' \in [1 .. OutLen -> Char]
    BY <1>1, CharAssumption DEF RInv, RTypeOK
  <1>3. fresh' => \A i \in 1 .. OutLen : out'[i] = NUL
    BY <1>1
  <1> QED BY <1>1, <1>2, <1>3, CommandInductive

(* The ring buffer is cleared behind the start tag. *)
LEMMA ClearRingInductive == RInv /\ clearRing => RInv'
  <1> SUFFICES ASSUME RInv, clearRing PROVE RInv'
    OBVIOUS
  <1>1. /\ pc = "clear" /\ init /\ pc' = "end" /\ pushed' = <<>> /\ clean'
        /\ UNCHANGED <<input, reply, out, got, fresh, calls>>
    BY DEF clearRing, init
  <1>2. RTypeOK /\ Position /\ IInv /\ Found /\ Copying
    BY DEF RInv
  <1>3. IInv'
    BY <1>1, <1>2, InitStep
  <1>4. RTypeOK'
    <2>1. TypeOK'
      BY <1>3 DEF IInv
    <2> QED BY <1>1, <1>2, <2>1 DEF RTypeOK
  <1>5. Position' /\ From' = Read
    BY <1>1, <1>2, Restart
  <1>6. Found'
    BY <1>1, <1>2, <1>5 DEF Found, FirstEnd
  <1>7. Copying'
    BY <1>1, <1>2, SameAnswer DEF Copying
  <1> QED BY <1>1, <1>3, <1>4, <1>5, <1>6, <1>7, RestartNoTag DEF RInv

(* How much getStrN copies of a string that has not wrapped.               *)
LEMMA CopyLength ==
  ASSUME NEW p \in Nat, ringBufP = p, NEW skipped \in Nat, skipped <= p, NEW num \in Nat
  PROVE  CopyLen(skipped, num) = IF p - skipped > num THEN num ELSE p - skipped
  BY DEF CopyLen

(* getStrN writes characters, whatever the ring buffer holds.              *)
LEMMA CopyTypes ==
  ASSUME RTypeOK
  PROVE  getStrN(out, Len(EndTag), OutLen - 1) \in [1 .. OutLen -> Char]
  <1> DEFINE n == CopyLen(Len(EndTag), OutLen - 1)
  <1>1. /\ out \in [1 .. OutLen -> Char] /\ ringBuf \in [0 .. Size -> Char]
        /\ OutLen \in Nat /\ 1 <= OutLen /\ OutLen <= Size + 1 /\ Size \in Nat
    BY Sizes, SizeAssumption DEF RTypeOK, TypeOK, Cells
  <1>2. Len(out) = OutLen
    BY <1>1
  <1>3. getStrN(out, Len(EndTag), OutLen - 1) = Copied(out, n)
    BY DEF getStrN
  <1> HIDE DEF n
  <1>4. ASSUME NEW i \in 1 .. OutLen
        PROVE  (CASE i > n -> out[i]
                  [] i <= n /\ (\E j \in 1 .. i : ringBuf[j - 1] = NUL) -> NUL
                  [] OTHER -> ringBuf[i - 1]) \in Char
    BY <1>1, CharAssumption
  <1> QED BY <1>2, <1>3, <1>4 DEF Copied

(* What a cleared buffer gets from a ring buffer that has not wrapped: the *)
(* string in front of the end tag, as far as it fits, and a terminator.    *)
LEMMA CopyExact ==
  ASSUME RTypeOK, IInv, \A i \in 1 .. OutLen : out[i] = NUL,
         Len(pushed) < Size, Len(EndTag) <= Len(pushed),
         NEW m \in Nat,
         m = IF Len(pushed) - Len(EndTag) > OutLen - 1 THEN OutLen - 1
             ELSE Len(pushed) - Len(EndTag),
         NEW i \in 1 .. OutLen
  PROVE  /\ i <= m => /\ getStrN(out, Len(EndTag), OutLen - 1)[i] = pushed[i]
                      /\ pushed[i] # NUL
         /\ i > m => getStrN(out, Len(EndTag), OutLen - 1)[i] = NUL
  <1>1. /\ out \in [1 .. OutLen -> Char] /\ OutLen \in Nat /\ 1 <= OutLen
        /\ Len(pushed) \in Nat /\ ringBufP = Len(pushed) /\ Len(EndTag) \in Nat
    BY Sizes, TagsAskedFor DEF RTypeOK, IInv, PointerCounts
  <1>2. CopyLen(Len(EndTag), OutLen - 1) = m
    BY <1>1, CopyLength
  <1>3. Len(out) = OutLen
    BY <1>1
  <1>4. getStrN(out, Len(EndTag), OutLen - 1)[i] =
          CASE i > m -> out[i]
            [] i <= m /\ (\E j \in 1 .. i : ringBuf[j - 1] = NUL) -> NUL
            [] OTHER -> ringBuf[i - 1]
    BY <1>2, <1>3 DEF getStrN, Copied
  <1>5. CASE i > m
    BY <1>1, <1>4, <1>5
  <1>6. CASE i <= m
    <2>1. m <= Len(pushed) /\ i \in 1 .. i
      BY <1>1
    <2>2. \A j \in 1 .. i : ringBuf[j - 1] = pushed[j] /\ pushed[j] # NUL
      BY <1>1, <1>6, <2>1, ArrayStartsWithPushed
    <2>3. ringBuf[i - 1] = pushed[i] /\ pushed[i] # NUL
      BY <2>1, <2>2
    <2>4. ~(i > m) /\ ~(\E j \in 1 .. i : ringBuf[j - 1] = NUL)
      <3>1. ~(i > m)
        BY <1>1, <1>6
      <3> QED BY <2>2, <3>1
    <2>5. getStrN(out, Len(EndTag), OutLen - 1)[i] = ringBuf[i - 1]
      BY <1>4, <2>4
    <2> QED BY <1>6, <2>3, <2>4, <2>5
  <1> QED BY <1>1, <1>5, <1>6

(* The string a caller sees ends at the first terminator.                  *)
StringTo == \A m \in 0 .. OutLen - 1 :
  (/\ \A i \in 1 .. OutLen : (i <= m => out[i] # NUL) /\ (i > m => out[i] = NUL))
    => CString = SubSeq(out, 1, m)

LEMMA StringToFirstNul == StringTo
  <1> SUFFICES ASSUME NEW m \in 0 .. OutLen - 1,
                      \A i \in 1 .. OutLen : (i <= m => out[i] # NUL) /\ (i > m => out[i] = NUL)
               PROVE  CString = SubSeq(out, 1, m)
    BY DEF StringTo
  <1> DEFINE stops == {i \in 1 .. OutLen : out[i] = NUL}
  <1>1. OutLen \in Nat
    BY OutLenAssumption, SizeAssumption
  <1>2. m + 1 \in stops /\ \A j \in stops : m + 1 <= j
    BY <1>1
  <1>3. \A i \in stops : (\A j \in stops : i <= j) => i = m + 1
    BY <1>1, <1>2
  <1>4. stops # {} /\ (CHOOSE i \in stops : \A j \in stops : i <= j) = m + 1
    <2> HIDE DEF stops
    <2> QED BY <1>2, <1>3
  <1>5. CString = SubSeq(out, 1, (m + 1) - 1)
    BY <1>4 DEF CString
  <1>6. (m + 1) - 1 = m
    BY <1>1
  <1> QED BY <1>5, <1>6

(* The string is copied and the caller sees what lies between the tags.    *)
LEMMA CopyOutInductive == RInv /\ copyOut => RInv'
  <1> SUFFICES ASSUME RInv, copyOut PROVE RInv'
    OBVIOUS
  <1>1. /\ pc = "copy" /\ reset /\ pc' = "rest" /\ pushed' = <<>>
        /\ out' = getStrN(out, Len(EndTag), OutLen - 1)
        /\ UNCHANGED <<input, reply, got, fresh, calls>>
    BY DEF copyOut, reset
  <1>2. RTypeOK /\ Position /\ IInv /\ Found /\ Copying
    BY DEF RInv
  <1>3. IInv'
    BY <1>1, <1>2, ResetStep
  <1>4. RTypeOK'
    <2>1. TypeOK' /\ out' \in [1 .. OutLen -> Char]
      BY <1>1, <1>2, <1>3, CopyTypes DEF IInv
    <2> QED BY <1>1, <1>2, <2>1 DEF RTypeOK
  <1>5. Position'
    BY <1>1, <1>2, Restart
  <1>6. Found'
    BY <1>1 DEF Found
  <1>7. Copying'
    <2> SUFFICES ASSUME fresh
                 PROVE  \E s, e \in 0 .. Len(reply) :
                          /\ FirstEnd(StartTag, 0, s) /\ FirstEnd(EndTag, s, e)
                          /\ e - s < Size => CString' = Cut(Between(s, e), OutLen - 1)
      BY <1>1 DEF Copying, FirstEnd, Between
    <2>1. /\ FirstEnd(StartTag, 0, From) /\ FirstEnd(EndTag, From, Read)
          /\ \A i \in 1 .. OutLen : out[i] = NUL
      BY <1>1, <1>2 DEF Found, Copying
    <2>2. /\ Len(reply) \in Nat /\ Len(pushed) \in Nat /\ From \in Int /\ Read \in Int
          /\ OutLen \in Nat /\ 1 <= OutLen /\ Read - From = Len(pushed) /\ 0 <= From
          /\ Len(EndTag) \in Nat /\ reply \in Seq(Letter) /\ pushed \in Seq(Letter)
      BY <1>2, Sizes, TagsAskedFor DEF From, Position
    <2>3. Read \in From + Len(EndTag) .. Len(reply)
      BY <2>1 DEF FirstEnd
    <2>4. From \in 0 .. Len(reply) /\ Read \in 0 .. Len(reply) /\ Len(EndTag) <= Len(pushed)
      BY <2>2, <2>3
    <2>5. ASSUME Read - From < Size PROVE CString' = Cut(Between(From, Read), OutLen - 1)
      <3> DEFINE n == Len(pushed) - Len(EndTag)
                 m == IF n > OutLen - 1 THEN OutLen - 1 ELSE n
                 text == Between(From, Read)
      <3>1. n \in Nat /\ m \in 0 .. OutLen - 1 /\ m \in Nat /\ m <= n /\ Len(pushed) < Size
        BY <2>2, <2>4, <2>5
      <3>2. \A i \in 1 .. OutLen :
              /\ i <= m => out'[i] = pushed[i] /\ pushed[i] # NUL
              /\ i > m => out'[i] = NUL
        <4>1. m = IF Len(pushed) - Len(EndTag) > OutLen - 1 THEN OutLen - 1
                  ELSE Len(pushed) - Len(EndTag)
          OBVIOUS
        <4> HIDE DEF m
        <4> QED BY <1>1, <1>2, <2>1, <2>4, <3>1, <4>1, CopyExact
      <3>3. CString' = SubSeq(out', 1, m)
        <4>1. StringTo'
          BY StringToFirstNul, PTL
        <4>2. \A i \in 1 .. OutLen : (i <= m => out'[i] # NUL) /\ (i > m => out'[i] = NUL)
          <5> HIDE DEF m
          <5> QED BY <3>2
        <4> HIDE DEF m
        <4> QED BY <3>1, <4>1, <4>2 DEF StringTo
      <3>4. /\ text \in Seq(Letter) /\ Len(text) = n
            /\ \A i \in 1 .. n : text[i] = pushed[i]
        <4> DEFINE lo == From + 1  hi == Read - Len(EndTag)
        <4>1. lo \in Int /\ hi \in Int /\ hi - lo + 1 = n /\ 1 <= lo /\ hi <= Len(reply)
          BY <2>2, <2>4
        <4>2. \A i \in lo .. hi : reply[i] \in Letter
          <5>1. \A i \in lo .. hi : i \in 1 .. Len(reply)
            BY <2>2, <4>1
          <5> QED BY <2>2, <5>1, ElementOfSeq
        <4>3. text = SubSeq(reply, lo, hi)
          BY DEF Between
        <4>4. \A i \in 1 .. n : reply[lo + i - 1] = pushed[i]
          <5> SUFFICES ASSUME NEW i \in 1 .. n PROVE reply[lo + i - 1] = pushed[i]
            OBVIOUS
          <5>1. i \in 1 .. Len(pushed) /\ lo + i - 1 = From + i
            BY <2>2, <3>1
          <5> QED BY <1>2, <5>1 DEF Position
        <4> HIDE DEF lo, hi, text, n
        <4>5. /\ SubSeq(reply, lo, hi) \in Seq(Letter)
              /\ Len(SubSeq(reply, lo, hi)) = IF lo <= hi THEN hi - lo + 1 ELSE 0
              /\ \A i \in 1 .. hi - lo + 1 : SubSeq(reply, lo, hi)[i] = reply[lo + i - 1]
          BY <4>1, <4>2, SubSeqProperties
        <4>6. Len(text) = n
          BY <3>1, <4>1, <4>3, <4>5
        <4> QED BY <4>1, <4>3, <4>4, <4>5, <4>6
      <3>5. Cut(text, OutLen - 1) = SubSeq(text, 1, m)
        <4>1. (IF n < OutLen - 1 THEN n ELSE OutLen - 1) = m
          BY <2>2, <3>1
        <4> HIDE DEF m, n, text
        <4> QED BY <3>4, <4>1 DEF Cut
      <3>6. SubSeq(out', 1, m) = SubSeq(text, 1, m)
        <4> HIDE DEF m, n, text
        <4>1. \A i \in 1 .. m : out'[i] = pushed[i] /\ text[i] = pushed[i] /\ text[i] \in Letter
          <5>1. \A i \in 1 .. m : i \in 1 .. OutLen /\ i <= m /\ i \in 1 .. n
            BY <2>2, <3>1
          <5>2. \A i \in 1 .. n : text[i] \in Letter
            BY <3>4, ElementOfSeq
          <5> QED BY <3>2, <3>4, <5>1, <5>2
        <4>2. /\ SubSeq(text, 1, m) \in Seq(Letter)
              /\ Len(SubSeq(text, 1, m)) = IF 1 <= m THEN m - 1 + 1 ELSE 0
              /\ \A i \in 1 .. m - 1 + 1 : SubSeq(text, 1, m)[i] = text[1 + i - 1]
          BY <3>1, <4>1, SubSeqProperties
        <4>3. /\ SubSeq(out', 1, m) \in Seq(Letter)
              /\ Len(SubSeq(out', 1, m)) = IF 1 <= m THEN m - 1 + 1 ELSE 0
              /\ \A i \in 1 .. m - 1 + 1 : SubSeq(out', 1, m)[i] = out'[1 + i - 1]
          BY <3>1, <4>1, SubSeqProperties
        <4>4. m - 1 + 1 = m /\ \A i \in 1 .. m : 1 + i - 1 = i
          BY <3>1
        <4>5. \A i \in 1 .. m : SubSeq(out', 1, m)[i] = SubSeq(text, 1, m)[i]
          BY <4>1, <4>2, <4>3, <4>4
        <4>6. Len(SubSeq(out', 1, m)) = Len(SubSeq(text, 1, m)) /\ Len(SubSeq(out', 1, m)) = m
          BY <3>1, <4>2, <4>3, <4>4
        <4> QED BY <4>2, <4>3, <4>5, <4>6, SeqEqual
      <3> QED BY <3>3, <3>5, <3>6
    <2> QED BY <2>1, <2>4, <2>5
  <1> QED BY <1>1, <1>3, <1>4, <1>5, <1>6, <1>7, RestartNoTag DEF RInv

-----------------------------------------------------------------------------

LEMMA InitRInv == RInit => RInv
  <1> SUFFICES ASSUME RInit PROVE RInv
    OBVIOUS
  <1>1. IInv
    BY InitIInv DEF RInit
  <1>2. /\ input = <<>> /\ reply = <<>> /\ pushed = <<>> /\ pc = "idle" /\ ~got
        /\ Len(input) = 0 /\ Len(reply) = 0 /\ Len(pushed) = 0
    BY DEF RInit, Init, NoReply
  <1>3. RTypeOK
    <2>1. out \in [1 .. OutLen -> Char] /\ calls \in 0 .. MaxCalls
      BY CharAssumption, MaxCallsAssumption DEF RInit
    <2>2. input \in Seq(Letter)
      BY <1>2, EmptySeq
    <2>3. reply \in Replies \cup {NoReply}
      BY <1>2 DEF NoReply
    <2>4. TypeOK
      BY <1>1 DEF IInv
    <2>5. got \in BOOLEAN /\ fresh \in BOOLEAN
      BY DEF RInit
    <2> QED BY <1>2, <2>1, <2>2, <2>3, <2>4, <2>5 DEF RTypeOK
  <1>4. Position
    <2>1. Read = 0
      BY <1>2 DEF Read
    <2>2. From = Read - Len(pushed)
      BY DEF From
    <2>3. From = 0
      BY <1>2, <2>1, <2>2
    <2> QED BY <1>2, <2>1, <2>3 DEF Position
  <1> QED BY <1>1, <1>2, <1>3, <1>4 DEF RInv, NoTagGoesBy, Reading, Found, Copying

LEMMA StepRInv == RInv /\ [RNext]_vars => RInv'
  <1> SUFFICES ASSUME RInv, [RNext]_vars PROVE RInv'
    OBVIOUS
  <1>1. CASE UNCHANGED vars
    <2>1. UNCHANGED <<ringBuf, ringBufP, pushed, clean, pc, input, reply, out, ret, got, fresh, calls>>
      BY <1>1 DEF vars, ringVars
    <2>2. RTypeOK' /\ IInv'
      BY <2>1 DEF RInv, RTypeOK, IInv, TypeOK, TailHeld, PointerCounts, RestCleared, Back
    <2>3. NoTagGoesBy'
      BY <2>1 DEF RInv, NoTagGoesBy, Reading, tagOf
    <2>4. Position' /\ Read' = Read /\ From' = From
      BY <2>1 DEF RInv, Position, Read, From
    <2>5. Found'
      BY <2>1, <2>4 DEF RInv, Found, FirstEnd
    <2>6. Copying'
      BY <2>1, SameAnswer DEF RInv, Copying
    <2> QED BY <2>2, <2>3, <2>4, <2>5, <2>6 DEF RInv
  <1> QED BY <1>1, SendCmdInductive, SendCmdGetInductive, ReadInductive, TimeoutInductive,
             ClearRingInductive, CopyOutInductive DEF RNext

(* In every reachable state the ring buffer holds a part of the answer and *)
(* sendCmdGet has found the first tags of their kind.                      *)
THEOREM ReadInvariance == RSpec => []RInv
  BY InitRInv, StepRInv, PTL DEF RSpec

(* The variables keep their types.                                         *)
THEOREM ReadTypesHold == RSpec => []RTypeOK
  <1>1. RInv => RTypeOK
    BY DEF RInv
  <1> QED BY <1>1, ReadInvariance, PTL

(* While readUntil waits no tag it waits for has gone by (readUntil).      *)
THEOREM TagsStop == RSpec => []NoTagGoesBy
  <1>1. RInv => NoTagGoesBy
    BY DEF RInv
  <1> QED BY <1>1, ReadInvariance, PTL

(* A cleared buffer gets what lies between the tags (sendCmdGet, getStrN). *)
THEOREM Extracts == RSpec => []Extracted
  <1>1. RInv => Extracted
    BY DEF RInv, Copying, Extracted
  <1> QED BY <1>1, ReadInvariance, PTL
=============================================================================
