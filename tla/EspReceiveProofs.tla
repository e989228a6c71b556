--------------------------- MODULE EspReceiveProofs ---------------------------
(* The receive path, for any links, any sizes of the UART's buffer and of  *)
(* the packets: what holds of every sketch; that a sketch that drains its  *)
(* packets first keeps the driver in step with the line; that without      *)
(* commands it gets every byte once, in order, as LinkStreams says; and    *)
(* that with commands, which throw away what arrives, it still reads whole *)
(* packets in the order sent, and after a read remoteIP is the sender of   *)
(* what was read.                                                          *)
EXTENDS EspReceive, SequenceTheorems, TLAPS

(* The lengths that matter are natural numbers. *)
LEMMA Lengths ==
  ASSUME TypeOK
  PROVE  /\ line \in Seq(Tokens) /\ Len(line) \in Nat /\ here \in Nat /\ here <= Len(line)
         /\ \A i \in 1 .. Len(line) : line[i] \in Tokens
         /\ here > 0 => line # <<>> /\ Len(line) > 0
         /\ line = <<>> <=> Len(line) = 0
  <1>1. line \in Seq(Tokens) /\ here \in 0 .. Len(line)
    BY DEF TypeOK
  <1>2. Len(line) \in Nat /\ \A i \in 1 .. Len(line) : line[i] \in Tokens
    BY <1>1, LenProperties, ElementOfSeq
  <1>3. line = <<>> <=> Len(line) = 0
    BY <1>1, EmptySeq
  <1> QED BY <1>1, <1>2, <1>3

(* The fields of a token. *)
LEMMA Fields ==
  ASSUME NEW t \in Tokens
  PROVE  /\ t.kind \in {"hdr", "byte", "closed", "answer", "text"} /\ t.link \in Links
         /\ t.n \in Nat /\ t.rest \in Nat
         /\ t.kind = "hdr" => t.rest \in 1 .. MaxLen
         /\ t.kind \notin {"hdr", "byte"} => t.rest = 0
  BY DEF Tokens

LEMMA TokenIn ==
  ASSUME NEW kind \in {"hdr", "byte", "closed", "answer", "text"}, NEW link \in Links,
         NEW n \in Nat, NEW rest \in Nat,
         kind = "hdr" => rest \in 1 .. MaxLen, kind \notin {"hdr", "byte"} => rest = 0
  PROVE  Token(kind, link, n, rest) \in Tokens
  BY DEF Token, Tokens

(* One token comes off the line. *)
LEMMA PopLine ==
  ASSUME TypeOK, here > 0, Pop
  PROVE  /\ line' \in Seq(Tokens) /\ Len(line') = Len(line) - 1
         /\ here' \in 0 .. Len(line') /\ here' <= RxSize
         /\ \A i \in 1 .. Len(line') : i + 1 \in 1 .. Len(line) /\ line'[i] = line[i + 1]
         /\ Head(line) = line[1] /\ 1 \in 1 .. Len(line) /\ line[1] \in Tokens
  <1>1. line # <<>> /\ line \in Seq(Tokens) /\ Len(line) \in Nat /\ Len(line) > 0
    BY Lengths
  <1>2. /\ Head(line) \in Tokens /\ Tail(line) \in Seq(Tokens)
        /\ Len(Tail(line)) = Len(line) - 1
        /\ \A i \in 1 .. Len(Tail(line)) : Tail(line)[i] = line[i + 1]
    BY <1>1, HeadTailProperties
  <1>3. Head(line) = line[1] /\ line[1] \in Tokens
    BY <1>1, Lengths
  <1>4. here' \in 0 .. Len(line') /\ here' <= RxSize
    BY <1>1, <1>2, RxSizeAssumption DEF Pop, TypeOK
  <1> QED BY <1>1, <1>2, <1>3, <1>4 DEF Pop

(* One character comes off the line, and what is left of its token is text.*)
LEMMA PopCharLine ==
  ASSUME TypeOK, here > 0, PopChar
  PROVE  /\ line' \in Seq(Tokens) /\ here' \in 0 .. Len(line') /\ here' <= RxSize
         /\ \A i \in 1 .. Len(line') :
              line'[i].kind = "answer" => \E j \in 1 .. Len(line) : line[j].kind = "answer"
         /\ HeadChar \in Int \X Int
  <1>1. line # <<>> /\ line \in Seq(Tokens) /\ Len(line) \in Nat /\ Len(line) > 0
    BY Lengths
  <1>2. /\ Head(line) \in Tokens /\ Tail(line) \in Seq(Tokens)
        /\ Len(Tail(line)) = Len(line) - 1
        /\ \A i \in 1 .. Len(Tail(line)) : Tail(line)[i] = line[i + 1]
    BY <1>1, HeadTailProperties
  <1>3. HeadChar \in Int \X Int
    <2>1. Head(line).link \in Int /\ Head(line).n \in Int
      <3>1. Head(line) \in Tokens
        BY <1>2
      <3>2. Head(line).link \in Links /\ Head(line).n \in Nat
        BY <3>1, Fields
      <3>3. \A l \in Links : l \in Int
        BY LinksAssumption
      <3> QED BY <3>2, <3>3
    <2>2. Byte(Head(line).link, Head(line).n) \in Int \X Int
      BY <2>1 DEF Byte
    <2>3. Junk \in Int \X Int
      BY DEF Junk, None
    <2> QED BY <2>2, <2>3 DEF HeadChar
  <1>4. CASE Pop
    BY <1>3, <1>4, PopLine
  <1>5. CASE line' = <<Token("text", Head(line).link, 0, 0)>> \o Tail(line) /\ here' = here
    <2> DEFINE t == Token("text", Head(line).link, 0, 0)
    <2>1. t \in Tokens
      BY <1>2, Fields, TokenIn
    <2>2. t.kind = "text"
      BY DEF Token
    <2> HIDE DEF t
    <2>3. <<t>> \in Seq(Tokens) /\ Len(<<t>>) = 1 /\ <<t>>[1] = t
      BY <2>1
    <2>4. /\ line' \in Seq(Tokens) /\ Len(line') = 1 + Len(Tail(line))
          /\ \A i \in 1 .. 1 + Len(Tail(line)) :
               line'[i] = IF i <= 1 THEN <<t>>[i] ELSE Tail(line)[i - 1]
      BY <1>2, <1>5, <2>3, ConcatProperties DEF t
    <2>5. Len(line') = Len(line) /\ here' \in 0 .. Len(line') /\ here' <= RxSize
      BY <1>1, <1>2, <1>5, <2>4 DEF TypeOK
    <2>6. ASSUME NEW i \in 1 .. Len(line'), line'[i].kind = "answer"
          PROVE  \E j \in 1 .. Len(line) : line[j].kind = "answer"
      <3>1. i # 1
        BY <2>2, <2>3, <2>4, <2>5, <2>6, <1>1
      <3>2. line'[i] = line[i] /\ i \in 1 .. Len(line)
        <4>1. i - 1 \in 1 .. Len(Tail(line)) /\ i \in 1 .. 1 + Len(Tail(line)) /\ ~(i <= 1)
          BY <1>1, <1>2, <2>5, <3>1
        <4>2. Tail(line)[i - 1] = line[i - 1 + 1] /\ i - 1 + 1 = i
          BY <1>1, <1>2, <4>1
        <4> QED BY <2>4, <2>5, <4>1, <4>2
      <3> QED BY <2>6, <3>2
    <2> QED BY <1>3, <2>4, <2>5, <2>6
  <1> QED BY <1>4, <1>5 DEF PopChar

(* The module puts tokens at the end. *)
LEMMA PutLine ==
  ASSUME TypeOK, NEW s \in Seq(Tokens), line' = line \o s
  PROVE  /\ line' \in Seq(Tokens) /\ Len(s) \in Nat /\ Len(line') = Len(line) + Len(s)
         /\ here \in 0 .. Len(line')
         /\ \A i \in 1 .. Len(line) : line'[i] = line[i]
         /\ \A i \in 1 .. Len(s) : Len(line) + i \in 1 .. Len(line') /\ line'[Len(line) + i] = s[i]
         /\ \A i \in 1 .. Len(line') :
              i \in 1 .. Len(line) \/ (i - Len(line) \in 1 .. Len(s) /\ line'[i] = s[i - Len(line)])
  <1>1. line \in Seq(Tokens) /\ Len(line) \in Nat /\ here \in Nat /\ here <= Len(line) /\ Len(s) \in Nat
    BY Lengths, LenProperties
  <1>2. /\ line' \in Seq(Tokens) /\ Len(line') = Len(line) + Len(s)
        /\ \A i \in 1 .. Len(line) + Len(s) :
             line'[i] = IF i <= Len(line) THEN line[i] ELSE s[i - Len(line)]
    BY <1>1, ConcatProperties
  <1>3. \A i \in 1 .. Len(line) : line'[i] = line[i]
    BY <1>1, <1>2
  <1>4. \A i \in 1 .. Len(s) : Len(line) + i \in 1 .. Len(line') /\ line'[Len(line) + i] = s[i]
    BY <1>1, <1>2
  <1> QED BY <1>1, <1>2, <1>3, <1>4

(* A sequence without the element after the first h. *)
Without(s, h) == SubSeq(s, 1, h) \o SubSeq(s, h + 2, Len(s))

LEMMA WithoutProperties ==
  ASSUME NEW S, NEW s \in Seq(S), NEW h \in Nat, h < Len(s)
  PROVE  /\ Without(s, h) \in Seq(S) /\ Len(Without(s, h)) = Len(s) - 1
         /\ \A i \in 1 .. h : Without(s, h)[i] = s[i]
         /\ \A i \in h + 1 .. Len(s) - 1 : Without(s, h)[i] = s[i + 1]
  <1> DEFINE a == SubSeq(s, 1, h)
             b == SubSeq(s, h + 2, Len(s))
             r == Without(s, h)
  <1>1. Len(s) \in Nat /\ \A i \in 1 .. Len(s) : s[i] \in S
    BY LenProperties, ElementOfSeq
  <1>2. /\ a \in Seq(S) /\ Len(a) = h
        /\ \A i \in 1 .. h : a[i] = s[i]
    <2>1. \A i \in 1 .. h : s[i] \in S
      BY <1>1
    <2>2. /\ a \in Seq(S) /\ Len(a) = IF 1 <= h THEN h - 1 + 1 ELSE 0
          /\ \A i \in 1 .. h - 1 + 1 : a[i] = s[1 + i - 1]
      BY <1>1, <2>1, SubSeqProperties
    <2> HIDE DEF a
    <2>3. \A i \in 1 .. h : i \in 1 .. h - 1 + 1 /\ 1 + i - 1 = i
      OBVIOUS
    <2> QED BY <2>2, <2>3
  <1>3. /\ b \in Seq(S) /\ Len(b) = Len(s) - h - 1
        /\ \A i \in 1 .. Len(s) - h - 1 : b[i] = s[h + 1 + i]
    <2>1. \A i \in h + 2 .. Len(s) : s[i] \in S
      BY <1>1
    <2>2. /\ b \in Seq(S)
          /\ Len(b) = IF h + 2 <= Len(s) THEN Len(s) - (h + 2) + 1 ELSE 0
          /\ \A i \in 1 .. Len(s) - (h + 2) + 1 : b[i] = s[h + 2 + i - 1]
      BY <1>1, <2>1, SubSeqProperties
    <2> HIDE DEF b
    <2>3. \A i \in 1 .. Len(s) - h - 1 :
            i \in 1 .. Len(s) - (h + 2) + 1 /\ h + 2 + i - 1 = h + 1 + i
      BY <1>1
    <2>4. Len(b) = Len(s) - h - 1
      BY <1>1, <2>2
    <2> QED BY <2>2, <2>3, <2>4
  <1>4. r = a \o b
    BY DEF Without
  <1> HIDE DEF a, b
  <1>5. /\ r \in Seq(S) /\ Len(r) = Len(a) + Len(b)
        /\ \A i \in 1 .. Len(a) + Len(b) : r[i] = IF i <= Len(a) THEN a[i] ELSE b[i - Len(a)]
    <2>1. a \in Seq(S) /\ b \in Seq(S)
      BY <1>2, <1>3
    <2> HIDE DEF r
    <2> QED BY <1>4, <2>1, ConcatProperties
  <1> HIDE DEF r
  <1>6. Len(r) = Len(s) - 1
    BY <1>1, <1>2, <1>3, <1>5
  <1>7. \A i \in 1 .. h : r[i] = s[i]
    <2> SUFFICES ASSUME NEW i \in 1 .. h PROVE r[i] = s[i]
      OBVIOUS
    <2>1. i \in 1 .. Len(a) + Len(b) /\ i <= Len(a)
      BY <1>1, <1>2, <1>3
    <2>2. r[i] = a[i] /\ a[i] = s[i]
      BY <1>2, <1>5, <2>1
    <2> QED BY <2>2
  <1>8. \A i \in h + 1 .. Len(s) - 1 : r[i] = s[i + 1]
    <2> SUFFICES ASSUME NEW i \in h + 1 .. Len(s) - 1 PROVE r[i] = s[i + 1]
      OBVIOUS
    <2>1. i - h \in 1 .. Len(s) - h - 1 /\ h + 1 + (i - h) = i + 1 /\ i \in 1 .. Len(a) + Len(b) /\ ~(i <= Len(a))
      BY <1>1, <1>2, <1>3
    <2>2. r[i] = b[i - h] /\ b[i - h] = s[i + 1]
      BY <1>2, <1>3, <1>5, <2>1
    <2> QED BY <2>2
  <1> QED BY <1>5, <1>6, <1>7, <1>8 DEF r

(* A token that finds the buffer full is lost. *)
LEMMA DropLine ==
  ASSUME TypeOK, here < Len(line), here' = here, line' = Without(line, here)
  PROVE  /\ line' \in Seq(Tokens) /\ here' \in 0 .. Len(line') /\ Len(line') = Len(line) - 1
         /\ \A i \in 1 .. Len(line') :
              \/ i <= here /\ i \in 1 .. Len(line) /\ line'[i] = line[i]
              \/ i > here /\ i + 1 \in 1 .. Len(line) /\ line'[i] = line[i + 1]
  <1>1. line \in Seq(Tokens) /\ Len(line) \in Nat /\ here \in Nat
    BY Lengths
  <1>2. /\ line' \in Seq(Tokens) /\ Len(line') = Len(line) - 1
        /\ \A i \in 1 .. here : line'[i] = line[i]
        /\ \A i \in here + 1 .. Len(line) - 1 : line'[i] = line[i + 1]
    BY <1>1, WithoutProperties
  <1> QED BY <1>1, <1>2

(* What has arrived is thrown away. *)
LEMMA EmptyLine ==
  ASSUME TypeOK, line' = SubSeq(line, here + 1, Len(line)), here' = 0
  PROVE  /\ line' \in Seq(Tokens) /\ Len(line') = Len(line) - here /\ here' \in 0 .. Len(line')
         /\ \A i \in 1 .. Len(line') : here + i \in 1 .. Len(line) /\ line'[i] = line[here + i]
  <1> DEFINE r == SubSeq(line, here + 1, Len(line))
  <1>1. /\ line \in Seq(Tokens) /\ Len(line) \in Nat /\ here \in Nat /\ here <= Len(line)
        /\ \A i \in 1 .. Len(line) : line[i] \in Tokens
    BY Lengths
  <1>2. \A i \in here + 1 .. Len(line) : line[i] \in Tokens
    BY <1>1
  <1>3. /\ r \in Seq(Tokens)
        /\ Len(r) = IF here + 1 <= Len(line) THEN Len(line) - (here + 1) + 1 ELSE 0
        /\ \A i \in 1 .. Len(line) - (here + 1) + 1 : r[i] = line[here + 1 + i - 1]
    BY <1>1, <1>2, SubSeqProperties
  <1>4. line' = r
    OBVIOUS
  <1> HIDE DEF r
  <1>5. Len(r) = Len(line) - here
    BY <1>1, <1>3
  <1>6. \A i \in 1 .. Len(r) : here + i \in 1 .. Len(line) /\ r[i] = line[here + i]
    <2>1. \A i \in 1 .. Len(r) : i \in 1 .. Len(line) - (here + 1) + 1 /\ here + 1 + i - 1 = here + i /\ here + i \in 1 .. Len(line)
      BY <1>1, <1>5
    <2> QED BY <1>3, <2>1
  <1>7. 0 \in 0 .. Len(r)
    BY <1>1, <1>5
  <1> QED BY <1>3, <1>4, <1>5, <1>6, <1>7

(* The tokens of a packet. *)
LEMMA PacketSeq ==
  ASSUME TypeOK, NEW l \in Links, NEW len \in 1 .. MaxLen
  PROVE  /\ PacketOf(l, len) \in Seq(Tokens) /\ Len(PacketOf(l, len)) = len + 1
         /\ sent[l] \in Nat /\ len \in Nat /\ len > 0
         /\ \A i \in 1 .. len + 1 :
              PacketOf(l, len)[i] = IF i = 1 THEN Token("hdr", l, sent[l] + len, len)
                                    ELSE Token("byte", l, sent[l] + i - 1, len + 1 - i)
  <1> DEFINE s == PacketOf(l, len)
  <1>1. sent[l] \in Nat /\ len \in Nat /\ len > 0 /\ len \in 1 .. MaxLen
    BY BoundsAssumption DEF TypeOK
  <1>2. \A i \in 1 .. len + 1 :
          s[i] = IF i = 1 THEN Token("hdr", l, sent[l] + len, len)
                 ELSE Token("byte", l, sent[l] + i - 1, len + 1 - i)
    BY DEF PacketOf
  <1>3. s \in [1 .. len + 1 -> Tokens]
    <2>1. Token("hdr", l, sent[l] + len, len) \in Tokens
      BY <1>1, TokenIn
    <2>2. ASSUME NEW i \in 1 .. len + 1, i # 1
          PROVE  Token("byte", l, sent[l] + i - 1, len + 1 - i) \in Tokens
      <3>1. sent[l] + i - 1 \in Nat /\ len + 1 - i \in Nat
        BY <1>1, <2>2
      <3> QED BY <3>1, TokenIn
    <2>3. \A i \in 1 .. len + 1 : s[i] \in Tokens
      BY <1>2, <2>1, <2>2
    <2>4. DOMAIN s = 1 .. len + 1 /\ s = [i \in DOMAIN s |-> s[i]]
      BY DEF PacketOf
    <2> HIDE DEF s
    <2> QED BY <2>3, <2>4
  <1> HIDE DEF s
  <1>4. s \in Seq(Tokens)
    BY <1>1, <1>3
  <1>5. Len(s) = len + 1
    <2>1. Len(s) \in Nat /\ DOMAIN s = 1 .. Len(s)
      BY <1>4, LenProperties
    <2>2. DOMAIN s = 1 .. len + 1
      BY <1>3
    <2>3. len + 1 \in 1 .. Len(s) /\ \A i \in 1 .. Len(s) : i <= len + 1
      BY <1>1, <2>1, <2>2
    <2>4. Len(s) \in 1 .. Len(s)
      BY <1>1, <2>1, <2>3
    <2>5. Len(s) <= len + 1
      BY <2>3, <2>4
    <2>6. len + 1 <= Len(s) /\ Len(s) \in Nat /\ len \in Nat
      BY <1>1, <2>1, <2>3
    <2> HIDE DEF s
    <2> QED BY <2>5, <2>6
  <1> QED BY <1>1, <1>2, <1>4, <1>5 DEF s

-----------------------------------------------------------------------------
(* What holds of every sketch.                                             *)

(* Outside a command there is no answer, and none comes of itself. *)
LEMMA StillQuiet ==
  ASSUME Base, pc # "answer", asked' = asked,
         \A i \in 1 .. Len(line') :
           line'[i].kind = "answer" => \E j \in 1 .. Len(line) : line[j].kind = "answer"
  PROVE  AnswersOnce' /\ ~asked'
  BY DEF Base, AnswersOnce

(* The answer that is due is still due. *)
LEMMA StillDue ==
  ASSUME Base, pc' = pc, asked' = asked, NEW k \in Nat,
         \A i \in 1 .. Len(line') : i + k \in 1 .. Len(line) /\ line'[i] = line[i + k]
  PROVE  AnswersOnce'
  <1>1. asked' => pc' = "answer"
    BY DEF Base, AnswersOnce
  <1>2. ASSUME NEW i \in 1 .. Len(line'), line'[i].kind = "answer"
        PROVE  pc' = "answer" /\ ~asked' /\ \A j \in 1 .. Len(line') : line'[j].kind = "answer" => i = j
    <2>1. i + k \in 1 .. Len(line) /\ line[i + k].kind = "answer"
      BY <1>2
    <2>2. pc' = "answer" /\ ~asked'
      BY <2>1 DEF Base, AnswersOnce
    <2>3. ASSUME NEW j \in 1 .. Len(line'), line'[j].kind = "answer"
          PROVE  i = j
      <3>1. j + k \in 1 .. Len(line) /\ line[j + k].kind = "answer"
        BY <2>3
      <3>2. i + k = j + k /\ i \in Int /\ j \in Int
        BY <2>1, <3>1 DEF Base, AnswersOnce
      <3> QED BY <3>2
    <2> QED BY <2>2, <2>3
  <1> QED BY <1>1, <1>2 DEF AnswersOnce

LEMMA SameLine ==
  ASSUME Base, UNCHANGED lineVars
  PROVE  /\ line' \in Seq(Tokens) /\ here' \in 0 .. Len(line') /\ here' <= RxSize
         /\ \A i \in 1 .. Len(line') :
              line'[i].kind = "answer" => \E j \in 1 .. Len(line) : line[j].kind = "answer"
  BY DEF Base, TypeOK, lineVars

(* What the callers of availData do. *)
LEMMA AvailDoneBase ==
  ASSUME Base, pc \in {"avail", "find"}, NEW n \in Nat, NEW id, n > 0 => id \in Links,
         AvailDone(n, id)
  PROVE  /\ live' \subseteq Links /\ pc' \in {"idle", "cmd", "data", "buf"}
         /\ pc' = "data" => call.op \in {"read", "peek", "flush"} /\ n > 0
         /\ pc' = "buf" => call.op = "readBuf" /\ n > 0
         /\ pc' = "cmd" => call.op = "status"
  <1>1. live \subseteq Links
    BY DEF Base, TypeOK
  <1> QED BY <1>1 DEF AvailDone, Return

(* What the line, the module and the driver keep of their types when it is *)
(* not they who move.                                                      *)
LEMMA EspTypes ==
  ASSUME TypeOK, UNCHANGED espVars
  PROVE  /\ open' \subseteq Links /\ sent' \in [Links -> Nat] /\ ends' \subseteq Links \X Nat
         /\ asked' \in BOOLEAN /\ lost' \in BOOLEAN /\ asked' = asked
  BY DEF TypeOK, espVars

LEMMA DriverTypes ==
  ASSUME TypeOK, Calling, UNCHANGED <<drvVars, live, pc, call, locals, got>>
  PROVE  /\ connId' \in Links \cup {0} /\ bufPos' \in 0 .. MaxLen
         /\ remote' \in (Links \cup {0}) \X Nat /\ live' \subseteq Links
         /\ pc' \in {"idle", "avail", "find", "data", "closing", "notice", "buf", "fill",
                     "cmd", "answer"}
         /\ call' \in [op : AllOps, sock : Links \cup {0}]
         /\ want' \in 0 .. bufPos' /\ val' \in Int \X Int /\ buf' \in Seq(Int \X Int)
         /\ got' \in [Links -> Seq(Int \X Int)]
         /\ Calling'
  <1>1. UNCHANGED <<connId, bufPos, remote, live, pc, call, val, want, buf, got>>
    BY DEF drvVars, locals
  <1>2. Calling'
    BY <1>1 DEF Calling
  <1> QED BY <1>1, <1>2 DEF TypeOK

(* The call and what it has read so far. *)
LEMMA CallTypes ==
  ASSUME Base
  PROVE  /\ call \in [op : AllOps, sock : Links \cup {0}]
         /\ pc \in {"data", "closing", "notice", "buf", "fill", "cmd", "answer"} => call.sock \in Links
         /\ \A v \in Int \X Int, l \in Links :
              [got EXCEPT ![l] = Append(@, v)] \in [Links -> Seq(Int \X Int)]
         /\ bufPos \in Nat /\ want \in Nat
  <1>1. call \in [op : AllOps, sock : Links \cup {0}] /\ bufPos \in Nat /\ want \in Nat
    BY BoundsAssumption DEF Base, TypeOK
  <1>2. pc \in {"data", "closing", "notice", "buf", "fill", "cmd", "answer"} => call.sock \in Links
    BY DEF Base, Calling
  <1>3. ASSUME NEW v \in Int \X Int, NEW l \in Links
        PROVE  [got EXCEPT ![l] = Append(@, v)] \in [Links -> Seq(Int \X Int)]
    <2>1. got \in [Links -> Seq(Int \X Int)] /\ got[l] \in Seq(Int \X Int)
      BY DEF Base, TypeOK
    <2>2. Append(got[l], v) \in Seq(Int \X Int)
      BY <2>1, AppendProperties
    <2> QED BY <2>1, <2>2
  <1> QED BY <1>1, <1>2, <1>3

LEMMA BaseModule ==
  ASSUME Base, Module
  PROVE  Base'
  <1> USE DEF Base
  <1>1. ASSUME NEW l \in Links, PeerCloses(l) PROVE Base'
    <2> DEFINE s == <<Token("closed", l, 0, 0)>>
    <2>1. Token("closed", l, 0, 0) \in Tokens /\ Token("closed", l, 0, 0).kind = "closed"
      BY TokenIn DEF Token
    <2>2. s \in Seq(Tokens) /\ Len(s) = 1 /\ s[1].kind = "closed" /\ line' = line \o s
      BY <1>1, <2>1, AppendIsConcat, Lengths DEF PeerCloses
    <2> HIDE DEF s
    <2>3. /\ line' \in Seq(Tokens) /\ here \in 0 .. Len(line')
          /\ \A i \in 1 .. Len(line) : line'[i] = line[i]
          /\ \A i \in 1 .. Len(line') :
              i \in 1 .. Len(line) \/ (i - Len(line) \in 1 .. Len(s) /\ line'[i] = s[i - Len(line)])
      BY <2>2, PutLine
    <2>4. \A i \in 1 .. Len(line') : line'[i].kind = "answer" => i \in 1 .. Len(line) /\ line'[i] = line[i]
      BY <2>2, <2>3
    <2>5. AnswersOnce'
      BY <1>1, <2>4 DEF PeerCloses, AnswersOnce
    <2>6. /\ Calling' /\ UNCHANGED <<drvVars, live, pc, call, locals, got>>
      BY <1>1, DriverTypes DEF PeerCloses
    <2>7. TypeOK'
      BY <1>1, <2>3, <2>6, DriverTypes DEF PeerCloses, TypeOK
    <2> QED BY <2>5, <2>6, <2>7
  <1>2. ASSUME NEW l \in Links, NEW n \in 1 .. MaxLen, Packet(l, n) PROVE Base'
    <2> DEFINE s == PacketOf(l, n)
    <2>1. /\ s \in Seq(Tokens) /\ Len(s) = n + 1 /\ sent[l] \in Nat /\ n \in Nat
          /\ \A i \in 1 .. n + 1 : s[i] = IF i = 1 THEN Token("hdr", l, sent[l] + n, n)
                                          ELSE Token("byte", l, sent[l] + i - 1, n + 1 - i)
      BY PacketSeq
    <2>2. \A i \in 1 .. Len(s) : s[i].kind # "answer"
      BY <2>1 DEF Token
    <2>3. line' = line \o s
      BY <1>2 DEF Packet
    <2> HIDE DEF s
    <2>4. /\ line' \in Seq(Tokens) /\ here \in 0 .. Len(line')
          /\ \A i \in 1 .. Len(line) : line'[i] = line[i]
          /\ \A i \in 1 .. Len(line') :
              i \in 1 .. Len(line) \/ (i - Len(line) \in 1 .. Len(s) /\ line'[i] = s[i - Len(line)])
      BY <2>1, <2>3, PutLine
    <2>5. \A i \in 1 .. Len(line') : line'[i].kind = "answer" => i \in 1 .. Len(line) /\ line'[i] = line[i]
      BY <2>2, <2>4
    <2>6. AnswersOnce'
      BY <1>2, <2>5 DEF Packet, AnswersOnce
    <2>7. /\ Calling' /\ UNCHANGED <<drvVars, live, pc, call, locals, got>>
      BY <1>2, DriverTypes DEF Packet
    <2>8. sent' \in [Links -> Nat] /\ ends' \subseteq Links \X Nat
      <3>1. sent[l] + n \in Nat
        BY <2>1
      <3>2. sent' = [sent EXCEPT ![l] = sent[l] + n] /\ ends' = ends \cup {<<l, sent[l] + n>>}
        BY <1>2 DEF Packet, Byte
      <3>3. sent \in [Links -> Nat] /\ ends \subseteq Links \X Nat
        BY DEF TypeOK
      <3>4. sent' \in [Links -> Nat]
        BY <3>1, <3>2, <3>3
      <3>5. <<l, sent[l] + n>> \in Links \X Nat
        BY <3>1
      <3> QED BY <3>2, <3>3, <3>4, <3>5
    <2>9. TypeOK'
      BY <1>2, <2>4, <2>7, <2>8, DriverTypes DEF Packet, TypeOK
    <2> QED BY <2>6, <2>7, <2>9
  <1>3. CASE Answer
    <2>1. asked /\ pc = "answer" /\ call.sock \in Links
      BY <1>3, CallTypes DEF Answer, AnswersOnce
    <2>2. PICK a \in Tokens, c \in Tokens :
            /\ a.kind = "answer" /\ c.kind = "closed"
            /\ line' = line \o <<c>> \o <<a>> \/ line' = line \o <<>> \o <<a>>
      <3> DEFINE n == IF call.sock \in open THEN 1 ELSE 0
      <3>1. Token("answer", call.sock, n, 0) \in Tokens /\ Token("answer", call.sock, n, 0).kind = "answer"
        BY <2>1, TokenIn DEF Token
      <3>2. Token("closed", call.sock, 0, 0) \in Tokens /\ Token("closed", call.sock, 0, 0).kind = "closed"
        BY <2>1, TokenIn DEF Token
      <3>3. \/ line' = line \o <<Token("closed", call.sock, 0, 0)>> \o <<Token("answer", call.sock, n, 0)>>
            \/ line' = line \o <<>> \o <<Token("answer", call.sock, n, 0)>>
        BY <1>3 DEF Answer
      <3> QED BY <3>1, <3>2, <3>3
    <2>3. PICK s \in Seq(Tokens) :
            /\ line' = line \o s /\ Len(s) \in Nat
            /\ \A i \in 1 .. Len(s) : s[i].kind = "answer" => i = Len(s)
      <3>1. line \in Seq(Tokens) /\ <<a>> \in Seq(Tokens) /\ <<c>> \in Seq(Tokens)
        BY Lengths
      <3>2. line \o <<>> = line
        BY <3>1, ConcatEmptySeq
      <3>3. (line \o <<c>>) \o <<a>> = line \o (<<c>> \o <<a>>)
        BY <3>1, ConcatAssociative
      <3>4. CASE line' = line \o <<a>>
        <4>1. Len(<<a>>) = 1 /\ \A i \in 1 .. 1 : i = 1
          OBVIOUS
        <4>2. \A i \in 1 .. Len(<<a>>) : <<a>>[i].kind = "answer" => i = Len(<<a>>)
          BY <4>1
        <4> QED BY <3>1, <3>4, <4>1, <4>2
      <3>5. CASE line' = line \o (<<c>> \o <<a>>)
        <4> DEFINE ca == <<c>> \o <<a>>
        <4>1. Len(<<a>>) = 1 /\ Len(<<c>>) = 1 /\ <<c>>[1] = c
          OBVIOUS
        <4>2. /\ ca \in Seq(Tokens) /\ Len(ca) = 2
              /\ \A i \in 1 .. 2 : ca[i] = IF i <= 1 THEN <<c>>[i] ELSE <<a>>[i - 1]
          BY <3>1, <4>1, ConcatProperties
        <4>3. line' = line \o ca
          BY <3>5
        <4> HIDE DEF ca
        <4>4. ca[1] = c
          BY <4>1, <4>2
        <4>5. \A i \in 1 .. Len(ca) : ca[i].kind = "answer" => i = Len(ca)
          <5>1. \A i \in 1 .. 2 : i = 1 \/ i = 2
            OBVIOUS
          <5>2. ca[1].kind # "answer"
            BY <2>2, <4>4
          <5> QED BY <4>2, <5>1, <5>2
        <4>6. ca \in Seq(Tokens) /\ Len(ca) \in Nat
          BY <4>2
        <4> QED BY <4>3, <4>5, <4>6
      <3>6. line' = line \o <<a>> \/ line' = line \o (<<c>> \o <<a>>)
        BY <2>2, <3>2, <3>3, Zenon
      <3> QED BY <3>4, <3>5, <3>6
    <2>4. /\ line' \in Seq(Tokens) /\ here \in 0 .. Len(line') /\ Len(line) \in Nat
          /\ \A i \in 1 .. Len(line) : line'[i] = line[i]
          /\ \A i \in 1 .. Len(line') :
              i \in 1 .. Len(line) \/ (i - Len(line) \in 1 .. Len(s) /\ line'[i] = s[i - Len(line)])
      BY <2>3, PutLine, Lengths
    <2>5. \A i \in 1 .. Len(line) : line[i].kind # "answer"
      BY <2>1 DEF AnswersOnce
    <2>6. \A i \in 1 .. Len(line') : line'[i].kind = "answer" => i = Len(line) + Len(s)
      <3> SUFFICES ASSUME NEW i \in 1 .. Len(line'), line'[i].kind = "answer"
                   PROVE  i = Len(line) + Len(s)
        OBVIOUS
      <3>1. i - Len(line) \in 1 .. Len(s) /\ line'[i] = s[i - Len(line)]
        BY <2>4, <2>5
      <3>2. i - Len(line) = Len(s) /\ i \in Int
        BY <2>3, <3>1
      <3> QED BY <2>3, <2>4, <3>2
    <2>7. AnswersOnce'
      BY <1>3, <2>1, <2>6 DEF Answer, AnswersOnce
    <2>8. /\ Calling' /\ UNCHANGED <<drvVars, live, pc, call, locals, got>>
      BY <1>3, DriverTypes DEF Answer
    <2>9. TypeOK'
      BY <1>3, <2>4, <2>8, DriverTypes DEF Answer, TypeOK
    <2> QED BY <2>7, <2>8, <2>9
  <1> QED BY <1>1, <1>2, <1>3 DEF Module

LEMMA BaseArrive ==
  ASSUME Base, Arrive
  PROVE  Base'
  <1> USE DEF Base
  <1>1. UNCHANGED <<drvVars, live, pc, call, locals, got>> /\ UNCHANGED <<open, sent, ends, asked>>
    BY DEF Arrive
  <1>2. /\ line \in Seq(Tokens) /\ Len(line) \in Nat /\ here \in Nat /\ here < Len(line)
    BY Lengths DEF Arrive
  <1>3. Calling'
    BY <1>1, DriverTypes
  <1>4. CASE here < RxSize
    <2>1. here' = here + 1 /\ line' = line /\ lost' = lost
      BY <1>4 DEF Arrive
    <2>2. TypeOK'
      <3>1. here' \in 0 .. Len(line') /\ here' <= RxSize
        BY <1>2, <1>4, <2>1, RxSizeAssumption
      <3> QED BY <1>1, <1>2, <2>1, <3>1, DriverTypes DEF TypeOK
    <2>3. AnswersOnce'
      BY <1>1, <2>1 DEF AnswersOnce
    <2> QED BY <1>3, <2>2, <2>3
  <1>5. CASE ~(here < RxSize)
    <2>1. lost' = TRUE /\ here' = here /\ line' = Without(line, here)
      BY <1>5 DEF Arrive, Without
    <2>2. /\ line' \in Seq(Tokens) /\ here' \in 0 .. Len(line')
          /\ \A i \in 1 .. Len(line') :
              \/ i <= here /\ i \in 1 .. Len(line) /\ line'[i] = line[i]
              \/ i > here /\ i + 1 \in 1 .. Len(line) /\ line'[i] = line[i + 1]
      BY <1>2, <2>1, DropLine
    <2>3. TypeOK'
      BY <1>1, <1>2, <2>1, <2>2, DriverTypes DEF TypeOK
    <2>4. AnswersOnce'
      <3>1. asked' => pc' = "answer"
        BY <1>1 DEF AnswersOnce, drvVars
      <3>2. ASSUME NEW i \in 1 .. Len(line'), line'[i].kind = "answer",
                   NEW j \in 1 .. Len(line'), line'[j].kind = "answer"
            PROVE  i = j
        <4>1. PICK k \in {0, 1} : i + k \in 1 .. Len(line) /\ line'[i] = line[i + k] /\ (k = 0 <=> i <= here)
          <5>1. \/ i <= here /\ i + 0 \in 1 .. Len(line) /\ line'[i] = line[i + 0]
                \/ ~(i <= here) /\ i + 1 \in 1 .. Len(line) /\ line'[i] = line[i + 1]
            BY <1>2, <2>2
          <5> QED BY <5>1
        <4>2. PICK m \in {0, 1} : j + m \in 1 .. Len(line) /\ line'[j] = line[j + m] /\ (m = 0 <=> j <= here)
          <5>1. \/ j <= here /\ j + 0 \in 1 .. Len(line) /\ line'[j] = line[j + 0]
                \/ ~(j <= here) /\ j + 1 \in 1 .. Len(line) /\ line'[j] = line[j + 1]
            BY <1>2, <2>2
          <5> QED BY <5>1
        <4>3. i + k = j + m
          BY <3>2, <4>1, <4>2 DEF AnswersOnce
        <4> QED BY <1>2, <4>1, <4>2, <4>3
      <3>3. ASSUME NEW i \in 1 .. Len(line'), line'[i].kind = "answer"
            PROVE  pc' = "answer" /\ ~asked'
        BY <1>1, <2>2, <3>3 DEF AnswersOnce
      <3> QED BY <3>1, <3>2, <3>3 DEF AnswersOnce
    <2> QED BY <1>3, <2>3, <2>4
  <1> QED BY <1>4, <1>5

LEMMA BaseSketch ==
  ASSUME Base, Sketch
  PROVE  Base'
  <1> USE DEF Base
  <1>1. /\ UNCHANGED <<line, here, connId, bufPos, remote, live, val, want, buf, got>> /\ UNCHANGED espVars
        /\ pc = "idle"
        /\ \/ \E op \in Ops \ {"accept"}, l \in Links :
                /\ call' = [op |-> op, sock |-> l]
                /\ op \in IF l \in UdpLinks THEN UdpOps ELSE AllOps \ {"udpPeek", "send"}
                /\ pc' = IF op \in {"write", "stop", "send"} THEN "cmd" ELSE "avail"
           \/ "accept" \in Ops /\ call' = [op |-> "accept", sock |-> 0] /\ pc' = "avail"
    BY DEF Sketch, Call, Accept, lineVars, drvVars, locals
  <1>2. /\ call' \in [op : AllOps, sock : Links \cup {0}]
        /\ pc' \in {"cmd", "avail"}
        /\ call'.sock \in Links \/ (call'.op = "accept" /\ call'.sock = 0)
        /\ call'.op \in Ops
        /\ pc' = "avail" => call'.op \in ReadOps \cup {"accept", "status", "udpPeek"}
        /\ pc' = "cmd" => call'.op \in {"write", "stop", "send", "status"}
    BY <1>1, OpsAssumption DEF AllOps, ReadOps, UdpOps
  <1>3. AnswersOnce'
    BY <1>1, StillQuiet DEF espVars
  <1>4. Calling'
    BY <1>1, <1>2 DEF Calling
  <1>5. TypeOK'
    BY <1>1, <1>2, EspTypes DEF TypeOK
  <1> QED BY <1>3, <1>4, <1>5

(* A caller of availData has what it wanted. *)
LEMMA BaseAvail ==
  ASSUME Base, pc \in {"avail", "find"}, NEW n \in Nat, NEW id, n > 0 => id \in Links,
         AvailDone(n, id), n > 0 => bufPos' > 0,
         UNCHANGED espVars, UNCHANGED <<call, locals, got>>,
         line' \in Seq(Tokens), here' \in 0 .. Len(line'), here' <= RxSize,
         \A i \in 1 .. Len(line') :
           line'[i].kind = "answer" => \E j \in 1 .. Len(line) : line[j].kind = "answer",
         connId' \in Links \cup {0}, bufPos' \in 0 .. MaxLen,
         remote' \in (Links \cup {0}) \X Nat, bufPos' > 0 => connId' \in Links
  PROVE  Base'
  <1> USE DEF Base
  <1>1. /\ live' \subseteq Links /\ pc' \in {"idle", "cmd", "data", "buf"}
        /\ pc' = "data" => call.op \in {"read", "peek", "flush"} /\ n > 0
        /\ pc' = "buf" => call.op = "readBuf" /\ n > 0
        /\ pc' = "cmd" => call.op = "status"
    BY AvailDoneBase
  <1>2. AnswersOnce'
    BY StillQuiet DEF espVars
  <1>3. call' = call /\ want = 0 /\ buf = <<>> /\ UNCHANGED <<val, want, buf, got>>
    BY DEF Calling, locals
  <1>4. Calling'
    BY <1>1, <1>3 DEF Calling
  <1>5. want' \in 0 .. bufPos'
    BY <1>3, BoundsAssumption
  <1>6. TypeOK'
    BY <1>1, <1>3, <1>5, EspTypes DEF TypeOK
  <1> QED BY <1>2, <1>4, <1>6

(* The driver does something, with the line as it is or a token shorter,   *)
(* outside a command.                                                      *)
LEMMA BaseRead ==
  ASSUME Base, pc # "answer", UNCHANGED espVars,
         line' \in Seq(Tokens), here' \in 0 .. Len(line'), here' <= RxSize,
         \A i \in 1 .. Len(line') :
           line'[i].kind = "answer" => \E j \in 1 .. Len(line) : line[j].kind = "answer",
         call' = call, connId' \in Links \cup {0}, bufPos' \in 0 .. MaxLen, remote' = remote,
         live' \subseteq live, want' \in 0 .. bufPos', val' \in Int \X Int,
         buf' \in Seq(Int \X Int), got' \in [Links -> Seq(Int \X Int)],
         pc' \in {"idle", "avail", "find", "data", "closing", "notice", "buf", "fill"},
         Calling'
  PROVE  Base'
  <1> USE DEF Base
  <1>1. AnswersOnce'
    BY StillQuiet DEF espVars
  <1>2. TypeOK'
    BY EspTypes DEF TypeOK
  <1> QED BY <1>1, <1>2

LEMMA PopBase ==
  ASSUME Base, here > 0, Pop
  PROVE  /\ line' \in Seq(Tokens) /\ here' \in 0 .. Len(line') /\ here' <= RxSize
         /\ \A i \in 1 .. Len(line') :
              line'[i].kind = "answer" => \E j \in 1 .. Len(line) : line[j].kind = "answer"
  BY PopLine DEF Base

(* The places where availData answers. *)
LEMMA BaseAvails ==
  ASSUME Base, AvailBuffered \/ AvailNothing \/ FindSkip \/ FindHeader \/ FindTimeout
  PROVE  Base'
  <1>0. /\ connId \in Links \cup {0} /\ bufPos \in 0 .. MaxLen /\ bufPos \in Nat /\ MaxLen \in Nat
        /\ remote \in (Links \cup {0}) \X Nat /\ (bufPos > 0 => connId \in Links)
    BY BoundsAssumption DEF Base, TypeOK, Calling
  <1>1. CASE AvailBuffered
    <2>1. /\ pc = "avail" /\ bufPos > 0 /\ AvailDone(bufPos, connId)
          /\ UNCHANGED lineVars /\ UNCHANGED espVars /\ UNCHANGED <<call, locals, got>>
          /\ UNCHANGED <<connId, bufPos, remote>>
      BY <1>1 DEF AvailBuffered, Buffered, drvVars
    <2> QED BY <1>0, <2>1, BaseAvail, SameLine
  <1>2. CASE AvailNothing \/ FindTimeout
    <2>1. /\ pc \in {"avail", "find"} /\ AvailDone(0, connId)
          /\ UNCHANGED lineVars /\ UNCHANGED espVars /\ UNCHANGED <<call, locals, got>>
          /\ UNCHANGED <<connId, bufPos, remote>>
      BY <1>2 DEF AvailNothing, FindTimeout, drvVars
    <2> QED BY <1>0, <2>1, BaseAvail, SameLine
  <1>3. CASE FindSkip
    <2>1. /\ pc \in {"avail", "find"} /\ here > 0 /\ Pop /\ pc' = "find"
          /\ UNCHANGED espVars /\ UNCHANGED <<connId, bufPos, remote, live, call, val, want, buf, got>>
      BY <1>3 DEF FindSkip, drvVars, locals
    <2>2. Calling'
      BY <2>1 DEF Base, Calling
    <2> QED BY <1>0, <2>1, <2>2, PopBase, BaseRead DEF Base, TypeOK
  <1>4. CASE FindHeader
    <2> DEFINE t == Head(line)
               n == IF t.link = call.sock \/ call.sock = 0 THEN t.rest ELSE 0
    <2>1. /\ pc \in {"avail", "find"} /\ here > 0 /\ Pop /\ t.kind = "hdr"
          /\ connId' = t.link /\ bufPos' = t.rest /\ remote' = <<t.link, t.n>>
          /\ AvailDone(n, t.link)
          /\ UNCHANGED espVars /\ UNCHANGED <<call, locals, got>>
      BY <1>4 DEF FindHeader
    <2>2. t \in Tokens
      BY <2>1, PopLine DEF Base
    <2>3. /\ t.link \in Links /\ t.n \in Nat /\ t.rest \in 1 .. MaxLen /\ t.rest \in Nat
      BY <2>1, <2>2, Fields
    <2>4. n \in Nat /\ t.rest > 0 /\ t.rest \in 0 .. MaxLen
      BY <1>0, <2>3
    <2>5. remote' \in (Links \cup {0}) \X Nat /\ connId' \in Links
      BY <2>1, <2>3
    <2> HIDE DEF t, n
    <2> QED BY <2>1, <2>3, <2>4, <2>5, PopBase, BaseAvail
  <1> QED BY <1>1, <1>2, <1>3, <1>4

(* Where the calls that read byte by byte go from getData. *)
LEMMA CallingData ==
  ASSUME Base, call' = call, want' = 0, buf' = <<>>, bufPos' > 0 => connId' \in Links,
         pc \in {"data", "closing", "notice"},
         \/ pc' = "idle"
         \/ call.op = "flush" /\ pc' = "avail"
         \/ pc' = "notice" /\ pc \in {"closing", "notice"}
         \/ pc' = "closing" /\ call.op # "peek"
  PROVE  Calling'
  BY DEF Base, Calling, ReadOps

(* getData and what read, peek and flush do with it. *)
LEMMA BaseData ==
  ASSUME Base, \/ DataMismatch \/ DataPeek \/ DataByte \/ DataTimeout
               \/ NotClosing \/ IsClosing \/ NoticeSkip \/ NoticeFound \/ NoticeTimeout
  PROVE  Base'
  <1>0. /\ connId \in Links \cup {0} /\ bufPos \in 0 .. MaxLen /\ bufPos \in Nat /\ MaxLen \in Nat
        /\ remote \in (Links \cup {0}) \X Nat /\ (bufPos > 0 => connId \in Links)
        /\ val \in Int \X Int /\ buf \in Seq(Int \X Int) /\ got \in [Links -> Seq(Int \X Int)]
        /\ live \subseteq Links
    <2>1. /\ connId \in Links \cup {0} /\ bufPos \in 0 .. MaxLen
          /\ remote \in (Links \cup {0}) \X Nat /\ live \subseteq Links
          /\ val \in Int \X Int /\ buf \in Seq(Int \X Int) /\ got \in [Links -> Seq(Int \X Int)]
      BY DEF Base, TypeOK
    <2>2. MaxLen \in Nat
      BY BoundsAssumption
    <2>3. bufPos > 0 => connId \in Links
      BY DEF Base, Calling
    <2> QED BY <2>1, <2>2, <2>3
  <1>00. pc \in {"data", "closing", "notice"} => want = 0 /\ buf = <<>> /\ call.sock \in Links
    BY CallTypes DEF Base, Calling
  <1>01. ASSUME NEW v \in Int \X Int, DataDone(v) \/ DataFailed(v), call.sock \in Links
         PROVE  /\ got' \in [Links -> Seq(Int \X Int)]
                /\ pc' = "idle" \/ (call.op = "flush" /\ pc' = "avail")
    <2>1. CASE DataDone(v)
      BY <1>01, <2>1, <1>0 DEF DataDone, Return
    <2>2. CASE pc' = "idle" /\ got' = got
      BY <2>2, <1>0
    <2> QED BY <1>01, <2>1, <2>2 DEF DataFailed, Return
  <1>02. /\ Unset \in Int \X Int /\ Zero \in Int \X Int /\ NoByte \in Int \X Int
    BY DEF Unset, Zero, NoByte, None
  <1>1. CASE DataMismatch
    <2>1. /\ pc = "data" /\ UNCHANGED lineVars /\ UNCHANGED espVars
          /\ UNCHANGED <<connId, bufPos, remote, live, call, val, want, buf>>
          /\ \/ call.op = "flush" /\ pc' = "avail" /\ got' = got
             \/ DataFailed(Unset)
      BY <1>1 DEF DataMismatch, drvVars, locals
    <2>2. /\ got' \in [Links -> Seq(Int \X Int)]
          /\ pc' = "idle" \/ (call.op = "flush" /\ pc' = "avail")
      BY <2>1, <1>0, <1>00, <1>01, <1>02
    <2>3. Calling'
      <3>1. call' = call /\ want' = 0 /\ buf' = <<>> /\ (bufPos' > 0 => connId' \in Links)
        BY <2>1, <1>0, <1>00
      <3>2. pc \in {"data", "closing", "notice"} /\ (pc' = "idle" \/ (call.op = "flush" /\ pc' = "avail"))
        BY <2>1, <2>2
      <3> QED BY <3>1, <3>2, CallingData
    <2> QED BY <1>0, <1>00, <2>1, <2>2, <2>3, SameLine, BaseRead
  <1>2. CASE DataPeek
    <2>1. /\ pc = "data" /\ UNCHANGED lineVars /\ UNCHANGED espVars
          /\ UNCHANGED <<connId, bufPos, remote, live, call, val, want, buf>>
          /\ call.op = "peek" /\ DataDone(HeadChar)
      BY <1>2 DEF DataPeek, drvVars, locals
    <2>2. got' = got /\ pc' = "idle"
      BY <2>1 DEF DataDone, Return
    <2>3. Calling'
      <3>1. call' = call /\ want' = 0 /\ buf' = <<>> /\ (bufPos' > 0 => connId' \in Links)
        BY <2>1, <1>0, <1>00
      <3>2. pc \in {"data", "closing", "notice"} /\ (pc' = "idle" \/ (call.op = "flush" /\ pc' = "avail"))
        BY <2>1, <2>2
      <3> QED BY <3>1, <3>2, CallingData
    <2> QED BY <1>0, <1>00, <2>1, <2>2, <2>3, SameLine, BaseRead
  <1>3. CASE DataByte
    <2>1. /\ pc = "data" /\ here > 0 /\ PopChar /\ UNCHANGED espVars /\ call.op # "peek"
          /\ UNCHANGED <<connId, remote, live, call, want, buf>>
          /\ bufPos' = bufPos - 1
          /\ \/ pc' = "closing" /\ val' = HeadChar /\ got' = got
             \/ DataDone(HeadChar) /\ val' = val
      BY <1>3 DEF DataByte, drvVars, locals
    <2>2. /\ line' \in Seq(Tokens) /\ here' \in 0 .. Len(line') /\ here' <= RxSize
          /\ \A i \in 1 .. Len(line') :
               line'[i].kind = "answer" => \E j \in 1 .. Len(line) : line[j].kind = "answer"
          /\ HeadChar \in Int \X Int
      BY <2>1, PopCharLine DEF Base
    <2>3. bufPos > 0
      BY <2>1 DEF Base, Calling
    <2>4. bufPos' \in 0 .. MaxLen /\ (bufPos' > 0 => connId' \in Links)
      BY <1>0, <2>1, <2>3
    <2>5. /\ got' \in [Links -> Seq(Int \X Int)] /\ val' \in Int \X Int
          /\ pc' = "idle" \/ (call.op = "flush" /\ pc' = "avail") \/ pc' = "closing"
      BY <2>1, <2>2, <1>0, <1>00, <1>01
    <2>6. Calling'
      <3>1. call' = call /\ want' = 0 /\ buf' = <<>> /\ (bufPos' > 0 => connId' \in Links)
        BY <2>1, <2>4, <1>00
      <3>2. /\ pc = "data"
            /\ \/ pc' = "idle" \/ (call.op = "flush" /\ pc' = "avail")
               \/ pc' = "closing" /\ call.op # "peek"
        BY <2>1, <2>5
      <3> QED BY <3>1, <3>2, CallingData
    <2>7. want' \in 0 .. bufPos'
      BY <1>00, <2>1, <2>4, <1>0
    <2> QED BY <1>0, <1>00, <2>1, <2>2, <2>4, <2>5, <2>6, <2>7, BaseRead
  <1>4. CASE DataTimeout
    <2>1. /\ pc = "data" /\ UNCHANGED lineVars /\ UNCHANGED espVars
          /\ UNCHANGED <<remote, live, call, val, want, buf>>
          /\ bufPos' = 0 /\ connId' = 0 /\ DataFailed(Zero)
      BY <1>4 DEF DataTimeout, locals
    <2>2. /\ got' \in [Links -> Seq(Int \X Int)]
          /\ pc' = "idle" \/ (call.op = "flush" /\ pc' = "avail")
      BY <2>1, <1>00, <1>01, <1>02
    <2>3. Calling'
      <3>1. call' = call /\ want' = 0 /\ buf' = <<>> /\ (bufPos' > 0 => connId' \in Links)
        BY <2>1, <1>00
      <3>2. pc \in {"data", "closing", "notice"} /\ (pc' = "idle" \/ (call.op = "flush" /\ pc' = "avail"))
        BY <2>1, <2>2
      <3> QED BY <3>1, <3>2, CallingData
    <2> QED BY <1>0, <1>00, <2>1, <2>2, <2>3, SameLine, BaseRead
  <1>5. CASE NotClosing
    <2>1. /\ pc = "closing" /\ UNCHANGED lineVars /\ UNCHANGED espVars
          /\ UNCHANGED <<connId, bufPos, remote, live, call, want, buf>>
          /\ val' = NoByte /\ DataDone(val)
      BY <1>5 DEF NotClosing, drvVars
    <2>2. /\ got' \in [Links -> Seq(Int \X Int)]
          /\ pc' = "idle" \/ (call.op = "flush" /\ pc' = "avail")
      BY <2>1, <1>0, <1>00, <1>01
    <2>3. Calling'
      <3>1. call' = call /\ want' = 0 /\ buf' = <<>> /\ (bufPos' > 0 => connId' \in Links)
        BY <2>1, <1>0, <1>00
      <3>2. pc = "closing"
        BY <2>1
      <3> QED BY <2>2, <3>1, <3>2, CallingData
    <2> QED BY <1>0, <1>00, <1>02, <2>1, <2>2, <2>3, SameLine, BaseRead
  <1>6. CASE IsClosing
    <2>1. /\ pc = "closing" /\ UNCHANGED lineVars /\ UNCHANGED espVars /\ pc' = "notice"
          /\ UNCHANGED <<connId, bufPos, remote, live, call, val, want, buf, got>>
      BY <1>6 DEF IsClosing, drvVars, locals
    <2>2. Calling'
      BY <2>1, <1>0, <1>00, CallingData
    <2>3. /\ line' \in Seq(Tokens) /\ here' \in 0 .. Len(line') /\ here' <= RxSize
          /\ \A i \in 1 .. Len(line') :
               line'[i].kind = "answer" => \E j \in 1 .. Len(line) : line[j].kind = "answer"
      BY <2>1, SameLine
    <2>4. /\ connId' \in Links \cup {0} /\ bufPos' \in 0 .. MaxLen /\ live' \subseteq live
          /\ want' \in 0 .. bufPos' /\ val' \in Int \X Int /\ buf' \in Seq(Int \X Int)
          /\ got' \in [Links -> Seq(Int \X Int)]
      BY <1>0, <1>00, <2>1
    <2> QED BY <2>1, <2>2, <2>3, <2>4, BaseRead
  <1>7. CASE NoticeSkip
    <2>1. /\ pc = "notice" /\ here > 0 /\ Pop /\ UNCHANGED espVars
          /\ UNCHANGED <<connId, bufPos, remote, live, pc, call, val, want, buf, got>>
      BY <1>7 DEF NoticeSkip, drvVars, locals
    <2>2. Calling'
      <3>1. call' = call /\ want' = 0 /\ buf' = <<>> /\ (bufPos' > 0 => connId' \in Links)
        BY <2>1, <1>0, <1>00
      <3>2. pc = "notice" /\ pc' = "notice"
        BY <2>1
      <3> QED BY <3>1, <3>2, CallingData
    <2> QED BY <1>0, <1>00, <2>1, <2>2, PopBase, BaseRead
  <1>8. CASE NoticeFound \/ NoticeTimeout
    <2>1. /\ pc = "notice" /\ ((here > 0 /\ Pop) \/ UNCHANGED lineVars)
          /\ UNCHANGED espVars /\ UNCHANGED <<connId, bufPos, remote, call, want, buf>>
          /\ CloseDone
      BY <1>8 DEF NoticeFound, NoticeTimeout, drvVars
    <2>2. /\ live' \subseteq live /\ val' = NoByte /\ pc' = "idle"
          /\ got' = [got EXCEPT ![call.sock] = Append(@, val)]
      BY <2>1 DEF CloseDone, Return
    <2>3. pc = "notice"
      BY <1>8 DEF NoticeFound, NoticeTimeout
    <2>4. got' \in [Links -> Seq(Int \X Int)]
      BY <2>2, <2>3, <1>0, <1>00, CallTypes
    <2>5. Calling'
      <3>1. call' = call /\ want' = 0 /\ buf' = <<>> /\ (bufPos' > 0 => connId' \in Links)
        BY <2>1, <2>3, <1>0, <1>00
      <3>2. pc = "notice" /\ pc' = "idle"
        BY <2>2, <2>3
      <3> QED BY <3>1, <3>2, CallingData
    <2>6. /\ line' \in Seq(Tokens) /\ here' \in 0 .. Len(line') /\ here' <= RxSize
          /\ \A i \in 1 .. Len(line') :
               line'[i].kind = "answer" => \E j \in 1 .. Len(line) : line[j].kind = "answer"
      BY <2>1, PopBase, SameLine
    <2> QED BY <1>0, <1>00, <1>02, <2>1, <2>2, <2>3, <2>4, <2>5, <2>6, BaseRead
  <1> QED BY <1>1, <1>2, <1>3, <1>4, <1>5, <1>6, <1>7, <1>8

(* getDataBuf. *)
LEMMA CallingBuf ==
  ASSUME Base, call' = call, bufPos' > 0 => connId' \in Links,
         pc \in {"buf", "fill"},
         \/ pc' = "idle" /\ want' = 0 /\ buf' = <<>>
         \/ pc' = "fill"
  PROVE  Calling'
  BY DEF Base, Calling

LEMMA BaseBuf ==
  ASSUME Base, \/ BufMismatch \/ (\E size \in 1 .. MaxLen : BufStart(size))
               \/ BufByte \/ BufDone \/ BufTimeout
  PROVE  Base'
  <1>0. /\ connId \in Links \cup {0} /\ bufPos \in 0 .. MaxLen /\ bufPos \in Nat /\ MaxLen \in Nat
        /\ remote \in (Links \cup {0}) \X Nat /\ (bufPos > 0 => connId \in Links)
        /\ val \in Int \X Int /\ buf \in Seq(Int \X Int) /\ got \in [Links -> Seq(Int \X Int)]
        /\ live \subseteq Links /\ want \in 0 .. bufPos /\ want \in Nat
    <2>1. /\ connId \in Links \cup {0} /\ bufPos \in 0 .. MaxLen
          /\ remote \in (Links \cup {0}) \X Nat /\ live \subseteq Links /\ want \in 0 .. bufPos
          /\ val \in Int \X Int /\ buf \in Seq(Int \X Int) /\ got \in [Links -> Seq(Int \X Int)]
      BY DEF Base, TypeOK
    <2>2. MaxLen \in Nat
      BY BoundsAssumption
    <2>3. bufPos > 0 => connId \in Links
      BY DEF Base, Calling
    <2> QED BY <2>1, <2>2, <2>3
  <1>1. pc = "buf" => want = 0 /\ buf = <<>>
    BY DEF Base, Calling
  <1>2. <<>> \in Seq(Int \X Int) /\ \A m \in Nat : 0 \in 0 .. m
    BY EmptySeq
  <1>3. CASE BufMismatch
    <2>1. /\ pc = "buf" /\ pc' = "idle" /\ UNCHANGED lineVars /\ UNCHANGED espVars
          /\ UNCHANGED <<connId, bufPos, remote, live, call, val, want, buf, got>>
      BY <1>3 DEF BufMismatch, Return, drvVars, locals
    <2>2. want' = 0 /\ buf' = <<>>
      BY <1>1, <2>1
    <2>3. Calling'
      BY <1>0, <2>1, <2>2, CallingBuf
    <2> QED BY <1>0, <2>1, <2>3, SameLine, BaseRead
  <1>4. ASSUME NEW size \in 1 .. MaxLen, BufStart(size) PROVE Base'
    <2>1. /\ pc = "buf" /\ pc' = "fill" /\ UNCHANGED lineVars /\ UNCHANGED espVars
          /\ UNCHANGED <<connId, bufPos, remote, live, call, val, buf, got>>
          /\ want' = IF bufPos < size THEN bufPos ELSE size
      BY <1>4 DEF BufStart, drvVars
    <2>2. want' \in 0 .. bufPos'
      BY <1>0, <2>1
    <2>3. Calling'
      BY <1>0, <2>1, CallingBuf
    <2> QED BY <1>0, <2>1, <2>2, <2>3, SameLine, BaseRead
  <1>5. CASE BufByte
    <2>1. /\ pc = "fill" /\ pc' = "fill" /\ want > 0 /\ here > 0 /\ PopChar /\ UNCHANGED espVars
          /\ UNCHANGED <<connId, remote, live, call, val, got>>
          /\ bufPos' = bufPos - 1 /\ want' = want - 1 /\ buf' = Append(buf, HeadChar)
      BY <1>5 DEF BufByte
    <2>2. /\ line' \in Seq(Tokens) /\ here' \in 0 .. Len(line') /\ here' <= RxSize
          /\ \A i \in 1 .. Len(line') :
               line'[i].kind = "answer" => \E j \in 1 .. Len(line) : line[j].kind = "answer"
          /\ HeadChar \in Int \X Int
      BY <2>1, PopCharLine DEF Base
    <2>3. buf' \in Seq(Int \X Int)
      BY <1>0, <2>1, <2>2, AppendProperties
    <2>4. bufPos' \in 0 .. MaxLen /\ want' \in 0 .. bufPos' /\ (bufPos' > 0 => connId' \in Links)
      BY <1>0, <2>1
    <2>5. Calling'
      BY <2>1, <2>4, CallingBuf
    <2> QED BY <1>0, <2>1, <2>2, <2>3, <2>4, <2>5, BaseRead
  <1>6. CASE BufDone
    <2>1. /\ pc = "fill" /\ pc' = "idle" /\ want = 0 /\ UNCHANGED lineVars /\ UNCHANGED espVars
          /\ UNCHANGED <<connId, bufPos, remote, live, call, val, want>>
          /\ buf' = <<>> /\ got' = [got EXCEPT ![call.sock] = @ \o buf]
      BY <1>6 DEF BufDone, Return, drvVars
    <2>2. got' \in [Links -> Seq(Int \X Int)]
      <3>1. call.sock \in Links
        BY <2>1, CallTypes
      <3>2. got[call.sock] \o buf \in Seq(Int \X Int)
        BY <1>0, <3>1, ConcatProperties
      <3> QED BY <1>0, <2>1, <3>1, <3>2
    <2>3. Calling'
      BY <1>0, <2>1, CallingBuf
    <2> QED BY <1>0, <1>2, <2>1, <2>2, <2>3, SameLine, BaseRead
  <1>7. CASE BufTimeout
    <2>1. /\ pc = "fill" /\ pc' = "idle" /\ UNCHANGED lineVars /\ UNCHANGED espVars
          /\ UNCHANGED <<connId, bufPos, remote, live, call, val, got>>
          /\ buf' = <<>> /\ want' = 0
      BY <1>7 DEF BufTimeout, Return, drvVars
    <2>2. Calling'
      BY <1>0, <2>1, CallingBuf
    <2>3. want' \in 0 .. bufPos'
      BY <1>0, <1>2, <2>1
    <2> QED BY <1>0, <1>2, <2>1, <2>2, <2>3, SameLine, BaseRead
  <1> QED BY <1>3, <1>4, <1>5, <1>6, <1>7

(* What commands do to the calls. *)
LEMMA CmdDoneBase ==
  ASSUME Base, pc = "answer", NEW isOpen \in BOOLEAN, CmdDone(isOpen)
  PROVE  /\ live' \subseteq live /\ pc' \in {"idle", "cmd"}
         /\ call' \in [op : AllOps, sock : Links \cup {0}] /\ call'.sock = call.sock
         /\ pc' = "cmd" => call'.op = "stop" /\ call.op = "write"
  <1>1. call \in [op : AllOps, sock : Links \cup {0}]
    BY CallTypes
  <1>2. CASE call' = call /\ live' \subseteq live /\ pc' = "idle"
    BY <1>1, <1>2
  <1>3. CASE call.op = "write" /\ pc' = "cmd" /\ call' = [call EXCEPT !.op = "stop"] /\ live' = live
    BY <1>1, <1>3 DEF AllOps, ReadOps, UdpOps
  <1> QED BY <1>2, <1>3 DEF CmdDone, Return

LEMMA BaseAnswered ==
  ASSUME Base, pc = "answer", NEW isOpen \in BOOLEAN, CmdDone(isOpen),
         UNCHANGED <<espVars, drvVars, locals, got>>, ~asked,
         line' \in Seq(Tokens), here' \in 0 .. Len(line'), here' <= RxSize,
         \A i \in 1 .. Len(line') : line'[i].kind # "answer"
  PROVE  Base'
  <1> USE DEF Base
  <1>1. /\ live' \subseteq live /\ pc' \in {"idle", "cmd"}
        /\ call' \in [op : AllOps, sock : Links \cup {0}] /\ call'.sock = call.sock
        /\ pc' = "cmd" => call'.op = "stop" /\ call.op = "write"
    BY CmdDoneBase
  <1>2. /\ want = 0 /\ buf = <<>> /\ UNCHANGED <<connId, bufPos, remote, val, want, buf, got>>
        /\ UNCHANGED espVars
    BY DEF Calling, drvVars, locals
  <1>3. asked' = asked
    BY <1>2 DEF espVars
  <1>4. AnswersOnce'
    BY <1>3 DEF AnswersOnce
  <1>5. call.sock \in Links \/ (call.op = "accept" /\ call.sock = 0)
    BY DEF Calling
  <1>6. call.op \in {"write", "stop", "send", "status"} /\ (bufPos > 0 => connId \in Links)
        /\ (call.op \in Ops \/ (call.op = "stop" /\ "write" \in Ops))
    BY DEF Calling
  <1>7. Calling'
    BY <1>1, <1>2, <1>5, <1>6 DEF Calling
  <1>8. TypeOK'
    BY <1>1, <1>2, EspTypes DEF TypeOK
  <1> QED BY <1>4, <1>7, <1>8

LEMMA BaseCmd ==
  ASSUME Base, CmdSend \/ CmdSkip \/ CmdAnswered \/ CmdTimeout
  PROVE  Base'
  <1> USE DEF Base
  <1>1. CASE CmdSend
    <2>1. /\ pc = "cmd" /\ pc' = "answer" /\ asked' = TRUE
          /\ line' = SubSeq(line, here + 1, Len(line)) /\ here' = 0
          /\ UNCHANGED <<open, sent, ends, lost>> /\ UNCHANGED <<connId, bufPos, remote, live, call, val, want, buf, got>>
      BY <1>1 DEF CmdSend, drvVars, locals
    <2>2. /\ line' \in Seq(Tokens) /\ here' \in 0 .. Len(line')
          /\ \A i \in 1 .. Len(line') : here + i \in 1 .. Len(line) /\ line'[i] = line[here + i]
      BY <2>1, EmptyLine
    <2>3. \A i \in 1 .. Len(line) : line[i].kind # "answer"
      BY <2>1 DEF AnswersOnce
    <2>4. \A i \in 1 .. Len(line') : line'[i].kind # "answer"
      BY <2>2, <2>3
    <2>5. AnswersOnce'
      BY <2>1, <2>4 DEF AnswersOnce
    <2>6. Calling'
      BY <2>1 DEF Calling
    <2>7. here' <= RxSize
      BY <2>1, RxSizeAssumption
    <2>8. TypeOK'
      BY <2>1, <2>2, <2>7 DEF TypeOK
    <2> QED BY <2>5, <2>6, <2>8
  <1>2. CASE CmdSkip
    <2>1. /\ pc = "answer" /\ here > 0 /\ Pop /\ UNCHANGED espVars
          /\ UNCHANGED <<drvVars, live, pc, call, locals, got>>
      BY <1>2 DEF CmdSkip
    <2>2. /\ line' \in Seq(Tokens) /\ here' \in 0 .. Len(line') /\ here' <= RxSize
          /\ \A i \in 1 .. Len(line') : i + 1 \in 1 .. Len(line) /\ line'[i] = line[i + 1]
      BY <2>1, PopLine
    <2>3. AnswersOnce'
      <3>1. asked' = asked /\ pc' = pc /\ 1 \in Nat
        BY <2>1 DEF espVars
      <3> QED BY <2>2, <3>1, StillDue
    <2>4. TypeOK' /\ Calling'
      BY <2>1, <2>2, DriverTypes, EspTypes DEF TypeOK
    <2> QED BY <2>3, <2>4
  <1>3. CASE CmdAnswered
    <2>1. /\ pc = "answer" /\ here > 0 /\ Pop /\ Head(line).kind = "answer"
          /\ UNCHANGED <<espVars, drvVars, locals, got>> /\ CmdDone(Head(line).n = 1)
      BY <1>3 DEF CmdAnswered
    <2>2. /\ line' \in Seq(Tokens) /\ here' \in 0 .. Len(line') /\ here' <= RxSize
          /\ \A i \in 1 .. Len(line') : i + 1 \in 1 .. Len(line) /\ line'[i] = line[i + 1]
          /\ Head(line) = line[1] /\ 1 \in 1 .. Len(line)
      BY <2>1, PopLine
    <2>3. ~asked /\ \A j \in 1 .. Len(line) : line[j].kind = "answer" => 1 = j
      BY <2>1, <2>2 DEF AnswersOnce
    <2>4. ASSUME NEW i \in 1 .. Len(line') PROVE line'[i].kind # "answer"
      <3>1. i + 1 \in 1 .. Len(line) /\ line'[i] = line[i + 1] /\ i + 1 # 1
        BY <2>2
      <3> QED BY <2>3, <3>1
    <2>5. (Head(line).n = 1) \in BOOLEAN
      OBVIOUS
    <2> QED BY <2>1, <2>2, <2>3, <2>4, <2>5, BaseAnswered
  <1>4. CASE CmdTimeout
    <2>1. /\ pc = "answer" /\ line = <<>> /\ ~asked /\ UNCHANGED <<line, here>>
          /\ UNCHANGED <<espVars, drvVars, locals, got>> /\ CmdDone(FALSE)
      BY <1>4 DEF CmdTimeout, Silent, lineVars
    <2>2. /\ line' \in Seq(Tokens) /\ here' \in 0 .. Len(line') /\ here' <= RxSize
      BY <2>1 DEF TypeOK
    <2>3. \A i \in 1 .. Len(line') : line'[i].kind # "answer"
      BY <2>1
    <2> QED BY <2>1, <2>2, <2>3, BaseAnswered
  <1> QED BY <1>1, <1>2, <1>3, <1>4

LEMMA InitBase == Init => Base
  <1> SUFFICES ASSUME Init PROVE Base
    OBVIOUS
  <1>1. TypeOK
    <2>1. <<>> \in Seq(Tokens) /\ <<>> \in Seq(Int \X Int) /\ Len(<<>>) = 0
      BY EmptySeq
    <2>2. RxSize > 0 /\ MaxLen > 0 /\ RxSize \in Nat /\ MaxLen \in Nat
      BY RxSizeAssumption, BoundsAssumption
    <2>3. NoByte \in Int \X Int
      BY DEF NoByte, None
    <2>4. sent \in [Links -> Nat] /\ got \in [Links -> Seq(Int \X Int)]
      BY <2>1 DEF Init
    <2>5. call \in [op : AllOps, sock : Links \cup {0}]
      BY DEF Init, AllOps, ReadOps
    <2>6. line \in Seq(Tokens) /\ here \in 0 .. Len(line) /\ here <= RxSize
      BY <2>1, <2>2 DEF Init
    <2>7. /\ open \subseteq Links /\ live \subseteq Links /\ ends \subseteq Links \X Nat
          /\ asked \in BOOLEAN /\ lost \in BOOLEAN
      BY DEF Init
    <2>9. /\ connId \in Links \cup {0} /\ bufPos \in 0 .. MaxLen /\ remote \in (Links \cup {0}) \X Nat
      BY <2>2 DEF Init
    <2>8. want \in 0 .. bufPos /\ val \in Int \X Int /\ buf \in Seq(Int \X Int) /\ pc = "idle"
      BY <2>1, <2>3 DEF Init
    <2> QED BY <2>4, <2>5, <2>6, <2>7, <2>8, <2>9 DEF TypeOK
  <1>2. Calling
    BY DEF Init, Calling
  <1>3. AnswersOnce
    BY DEF Init, AnswersOnce
  <1> QED BY <1>1, <1>2, <1>3 DEF Base

LEMMA NextBase ==
  ASSUME Base, [Next]_vars
  PROVE  Base'
  <1>1. CASE Sketch \/ Module \/ Arrive
    BY <1>1, BaseSketch, BaseModule, BaseArrive
  <1>2. CASE Driver
    BY <1>2, BaseAvails, BaseData, BaseBuf, BaseCmd DEF Driver
  <1>3. CASE UNCHANGED vars
    <2>1. /\ UNCHANGED <<line, here, pc>> /\ UNCHANGED espVars /\ UNCHANGED <<drvVars, live, pc, call, locals, got>>
      BY <1>3 DEF vars, lineVars
    <2>2. TypeOK' /\ Calling'
      BY <2>1, DriverTypes, EspTypes DEF Base, TypeOK
    <2>3. AnswersOnce'
      BY <2>1 DEF Base, AnswersOnce, espVars
    <2> QED BY <2>2, <2>3 DEF Base
  <1> QED BY <1>1, <1>2, <1>3 DEF Next

(* Whatever calls the sketch makes and whatever the UART loses, the        *)
(* variables keep their types, the calls are where they belong, and at most*)
(* one answer is on the line, while the driver waits for it.               *)
THEOREM BaseInvariance == Spec => []Base
  <1>1. Init => Base
    BY InitBase
  <1>2. Base /\ [Next]_vars => Base'
    BY NextBase
  <1> QED BY <1>1, <1>2, PTL DEF Spec

(* The variables of the receive path keep their types (EspDrv.cpp 705-849):*)
(* the count of characters to come is never negative, nor more than a      *)
(* packet has, and no read takes more than there are.                      *)
THEOREM TypeCorrectness == Spec => []TypeOK
  <1>1. Base => TypeOK
    BY DEF Base
  <1> QED BY <1>1, BaseInvariance, PTL

-----------------------------------------------------------------------------
(* The driver keeps in step with the line.                                 *)

(* The end of a line of whole messages is one, up to a packet's header.    *)
LEMMA WholeSuffix ==
  ASSUME TypeOK, Whole, NEW k \in Nat, line' \in Seq(Tokens), Len(line') = Len(line) - k,
         \A i \in 1 .. Len(line') : i + k \in 1 .. Len(line) /\ line'[i] = line[i + k]
  PROVE  Whole'
  <1>1. Len(line) \in Nat /\ Len(line') \in Nat
    BY Lengths, LenProperties
  <1>2. Chained'
    <2> SUFFICES ASSUME NEW i \in 1 .. Len(line') - 1
                 PROVE  Follows(line'[i].link, line'[i].rest, line'[i + 1])
      BY DEF Chained, Follows
    <2>1. i \in 1 .. Len(line') /\ i + 1 \in 1 .. Len(line') /\ i + k \in 1 .. Len(line) - 1
          /\ (i + 1) + k = (i + k) + 1
      BY <1>1
    <2>2. line'[i] = line[i + k] /\ line'[i + 1] = line[(i + k) + 1]
      BY <2>1
    <2>3. Follows(line[i + k].link, line[i + k].rest, line[(i + k) + 1])
      BY <2>1 DEF Whole, Chained
    <2> QED BY <2>2, <2>3
  <1>3. ASSUME line' # <<>> PROVE line'[Len(line')].rest = 0
    <2>1. Len(line') > 0
      BY <1>1, <1>3, EmptySeq
    <2>2. Len(line') \in 1 .. Len(line') /\ Len(line') + k = Len(line)
      BY <1>1, <2>1
    <2>3. line'[Len(line')] = line[Len(line)] /\ line # <<>>
      BY <1>1, <2>1, <2>2, Lengths
    <2> QED BY <2>3 DEF Whole
  <1>4. \A i \in 1 .. Len(line') : line'[i].kind # "text"
    BY DEF Whole
  <1> QED BY <1>2, <1>3, <1>4 DEF Whole

(* A token has been read. *)
LEMMA NextInStep ==
  ASSUME TypeOK, Whole, here > 0, Pop, bufPos' = line[1].rest,
         line[1].rest > 0 => connId' = line[1].link
  PROVE  Whole' /\ InStep'
  <1>1. /\ line' \in Seq(Tokens) /\ Len(line') = Len(line) - 1 /\ Len(line) \in Nat /\ 1 \in Nat
        /\ \A i \in 1 .. Len(line') : i + 1 \in 1 .. Len(line) /\ line'[i] = line[i + 1]
        /\ line[1] \in Tokens /\ line # <<>> /\ Len(line) > 0 /\ Len(line') \in Nat
    BY PopLine, Lengths, LenProperties
  <1>2. Whole'
    BY <1>1, WholeSuffix
  <1>3. InStep'
    <2>1. CASE line' = <<>>
      <3>1. Len(line) = 1
        BY <1>1, <2>1, EmptySeq
      <3>2. line[Len(line)].rest = 0
        BY <1>1 DEF Whole
      <3> QED BY <2>1, <3>1, <3>2 DEF InStep
    <2>2. CASE line' # <<>>
      <3>1. Len(line') > 0
        BY <1>1, <2>2, EmptySeq
      <3>2. 1 \in 1 .. Len(line') /\ 1 \in 1 .. Len(line) - 1 /\ 1 + 1 = 2
        BY <1>1, <3>1
      <3>3. line'[1] = line[2]
        BY <1>1, <3>2
      <3>4. Follows(line[1].link, line[1].rest, line[2])
        BY <3>2 DEF Whole, Chained
      <3>5. line[1].rest \in Nat
        BY <1>1, Fields
      <3>6. Follows(connId', bufPos', line'[1])
        BY <3>3, <3>4, <3>5 DEF Follows
      <3> QED BY <2>2, <3>6 DEF InStep
    <2> QED BY <2>1, <2>2
  <1> QED BY <1>2, <1>3

(* What comes next when nothing was lost. *)
LEMMA AtHead ==
  ASSUME Base, Framing, ~lost, here > 0, pc # "answer"
  PROVE  /\ Whole /\ InStep /\ Head(line) = line[1] /\ line[1] \in Tokens
         /\ line[1].kind \in {"hdr", "byte", "closed"}
         /\ bufPos > 0 => line[1].kind = "byte" /\ line[1].link = connId /\ line[1].rest = bufPos - 1
         /\ ~(bufPos > 0) => line[1].kind # "byte"
         /\ line[1].kind = "closed" => line[1].rest = 0
  <1>1. line \in Seq(Tokens) /\ line # <<>> /\ Len(line) \in Nat /\ Len(line) > 0
    BY Lengths DEF Base
  <1>2. 1 \in 1 .. Len(line) /\ line[1] \in Tokens
    BY <1>1, Lengths DEF Base
  <1>3. Head(line) = line[1]
    BY <1>1, HeadTailProperties
  <1>4. Whole /\ InStep
    BY DEF Framing
  <1>5. line[1].kind # "text" /\ line[1].kind # "answer"
    BY <1>2, <1>4 DEF Whole, Base, AnswersOnce
  <1>6. Follows(connId, bufPos, line[1])
    BY <1>1, <1>4 DEF InStep
  <1>7. line[1].kind \in {"hdr", "byte", "closed", "answer", "text"} /\ (line[1].kind = "closed" => line[1].rest = 0)
    BY <1>2, Fields
  <1> QED BY <1>2, <1>3, <1>4, <1>5, <1>6, <1>7 DEF Follows

LEMMA FramingSame ==
  ASSUME Framing, UNCHANGED <<line, here, lost, bufPos, connId>>, Placed', pc' # "notice",
         pc = "answer" => pc' = "answer"
  PROVE  Framing'
  <1>1. Whole => Whole'
    BY DEF Whole, Chained
  <1>2. InStep => InStep'
    BY DEF InStep
  <1> QED BY <1>1, <1>2 DEF Framing

LEMMA FramingPop ==
  ASSUME Base, Framing, here > 0, Pop, lost' = lost, Placed', pc' # "notice",
         ~lost => bufPos' = line[1].rest /\ (line[1].rest > 0 => connId' = line[1].link)
  PROVE  Framing'
  BY NextInStep DEF Base, Framing

(* What the module sends are whole messages. *)
LEMMA WholePut ==
  ASSUME TypeOK, Whole, NEW s \in Seq(Tokens), line' = line \o s, Len(s) > 0,
         UNCHANGED <<bufPos, connId>>,
         s[1].kind # "byte", s[Len(s)].rest = 0,
         \A i \in 1 .. Len(s) - 1 : Follows(s[i].link, s[i].rest, s[i + 1]),
         \A i \in 1 .. Len(s) : s[i].kind # "text"
  PROVE  Whole' /\ (InStep => InStep') /\ (line # <<>> => line'[1] = line[1])
  <1>1. /\ line' \in Seq(Tokens) /\ Len(s) \in Nat /\ Len(line') = Len(line) + Len(s)
        /\ \A i \in 1 .. Len(line) : line'[i] = line[i]
        /\ \A i \in 1 .. Len(s) : line'[Len(line) + i] = s[i]
        /\ \A i \in 1 .. Len(line') :
             i \in 1 .. Len(line) \/ (i - Len(line) \in 1 .. Len(s) /\ line'[i] = s[i - Len(line)])
    BY PutLine
  <1>2. Len(line) \in Nat /\ line \in Seq(Tokens) /\ (line = <<>> <=> Len(line) = 0)
    BY Lengths
  <1>3. line # <<>> => 1 \in 1 .. Len(line) /\ Len(line) \in 1 .. Len(line) /\ line'[1] = line[1]
    BY <1>1, <1>2
  <1>4. /\ 1 \in 1 .. Len(s) /\ Len(s) \in 1 .. Len(s)
        /\ line'[Len(line) + 1] = s[1] /\ line'[Len(line')] = s[Len(s)]
    BY <1>1, <1>2
  <1>5. Chained'
    <2> SUFFICES ASSUME NEW i \in 1 .. Len(line') - 1
                 PROVE  Follows(line'[i].link, line'[i].rest, line'[i + 1])
      BY DEF Chained, Follows
    <2>1. CASE i < Len(line)
      <3>1. i \in 1 .. Len(line) - 1 /\ i \in 1 .. Len(line) /\ i + 1 \in 1 .. Len(line)
        BY <1>1, <1>2, <2>1
      <3> QED BY <1>1, <3>1 DEF Whole, Chained
    <2>2. CASE i = Len(line)
      <3>1. line # <<>> /\ line'[i] = line[i] /\ line[i].rest = 0
        BY <1>1, <1>2, <1>3, <2>2 DEF Whole
      <3>2. line'[i + 1] = s[1]
        BY <1>4, <2>2
      <3> QED BY <3>1, <3>2 DEF Follows
    <2>3. CASE i > Len(line)
      <3>1. /\ i - Len(line) \in 1 .. Len(s) - 1 /\ i - Len(line) \in 1 .. Len(s)
            /\ i - Len(line) + 1 \in 1 .. Len(s)
            /\ Len(line) + (i - Len(line)) = i /\ Len(line) + (i - Len(line) + 1) = i + 1
        BY <1>1, <1>2, <2>3
      <3>2. line'[i] = s[i - Len(line)] /\ line'[i + 1] = s[i - Len(line) + 1]
        BY <1>1, <3>1
      <3>3. Follows(s[i - Len(line)].link, s[i - Len(line)].rest, s[i - Len(line) + 1])
        BY <3>1
      <3> QED BY <3>2, <3>3
    <2> QED BY <1>2, <2>1, <2>2, <2>3
  <1>6. \A i \in 1 .. Len(line') : line'[i].kind # "text"
    BY <1>1 DEF Whole
  <1>7. InStep => InStep'
    <2>1. line' # <<>>
      BY <1>1, <1>2, EmptySeq
    <2>2. CASE line = <<>>
      <3>1. Len(line) + 1 = 1
        BY <1>2, <2>2
      <3>2. line'[1] = s[1]
        BY <1>4, <3>1
      <3> QED BY <2>1, <2>2, <3>2 DEF InStep, Follows
    <2>3. CASE line # <<>>
      BY <1>3, <2>1, <2>3 DEF InStep
    <2> QED BY <2>2, <2>3
  <1> QED BY <1>3, <1>4, <1>5, <1>6, <1>7 DEF Whole

LEMMA FramingPut ==
  ASSUME Base, Framing, NEW s \in Seq(Tokens), line' = line \o s, Len(s) > 0,
         UNCHANGED <<here, lost, bufPos, connId, pc, call>>,
         s[1].kind # "byte", s[Len(s)].rest = 0,
         \A i \in 1 .. Len(s) - 1 : Follows(s[i].link, s[i].rest, s[i + 1]),
         \A i \in 1 .. Len(s) : s[i].kind # "text"
  PROVE  Framing'
  <1>1. Placed'
    BY DEF Framing, Placed
  <1>2. ASSUME ~lost PROVE Whole' /\ (pc # "answer" => InStep')
    BY <1>2, WholePut DEF Base, Framing
  <1>3. ASSUME ~lost, pc = "notice" PROVE here' > 0 /\ IsNotice(line'[1])
    <2>1. here > 0 /\ IsNotice(line[1]) /\ Whole /\ line # <<>>
      BY <1>3, Lengths DEF Base, Framing
    <2>2. line'[1] = line[1]
      BY <2>1, WholePut DEF Base
    <2> QED BY <2>1, <2>2 DEF IsNotice
  <1> QED BY <1>1, <1>2, <1>3 DEF Framing, IsNotice

LEMMA FramingModule ==
  ASSUME Base, Framing, Module
  PROVE  Framing'
  <1>1. UNCHANGED <<here, lost, bufPos, connId, pc, call>>
    BY DEF Module, PeerCloses, Packet, Answer, drvVars
  <1>2. ASSUME NEW l \in Links, PeerCloses(l) PROVE Framing'
    <2> DEFINE t == Token("closed", l, 0, 0)
               s == <<t>>
    <2>1. t \in Tokens /\ t.kind = "closed" /\ t.rest = 0
      BY TokenIn DEF Token
    <2>2. line' = line \o s
      BY <1>2, <2>1, AppendIsConcat, Lengths DEF PeerCloses, Base
    <2> HIDE DEF t
    <2>3. s \in Seq(Tokens) /\ Len(s) = 1 /\ s[1] = t
      BY <2>1
    <2> HIDE DEF s
    <2>4. \A i \in 1 .. Len(s) : i = 1
      BY <2>3
    <2>5. \A i \in 1 .. Len(s) - 1 : Follows(s[i].link, s[i].rest, s[i + 1])
      BY <2>3
    <2>6. \A i \in 1 .. Len(s) : s[i].kind # "text"
      BY <2>1, <2>3, <2>4
    <2>7. s[1].kind # "byte" /\ s[Len(s)].rest = 0 /\ Len(s) > 0
      BY <2>1, <2>3
    <2> QED BY <1>1, <2>2, <2>3, <2>5, <2>6, <2>7, FramingPut
  <1>3. ASSUME NEW l \in Links, NEW n \in 1 .. MaxLen, Packet(l, n) PROVE Framing'
    <2> DEFINE s == PacketOf(l, n)
    <2>1. /\ s \in Seq(Tokens) /\ Len(s) = n + 1 /\ sent[l] \in Nat /\ n \in Nat /\ n > 0
          /\ \A i \in 1 .. n + 1 : s[i] = IF i = 1 THEN Token("hdr", l, sent[l] + n, n)
                                          ELSE Token("byte", l, sent[l] + i - 1, n + 1 - i)
      BY PacketSeq DEF Base
    <2>2. line' = line \o s
      BY <1>3 DEF Packet
    <2> HIDE DEF s
    <2>3. \A i \in 1 .. n + 1 : /\ s[i].link = l /\ s[i].rest = IF i = 1 THEN n ELSE n + 1 - i
                                /\ s[i].kind = IF i = 1 THEN "hdr" ELSE "byte"
      BY <2>1 DEF Token
    <2>4. ASSUME NEW i \in 1 .. Len(s) - 1 PROVE Follows(s[i].link, s[i].rest, s[i + 1])
      <3>1. i \in 1 .. n + 1 /\ i + 1 \in 1 .. n + 1 /\ i + 1 # 1 /\ n + 1 - (i + 1) = (n + 1 - i) - 1
            /\ n + 1 - i > 0 /\ (i = 1 => n + 1 - i = n)
        BY <2>1
      <3>2. s[i].link = l /\ s[i].rest = n + 1 - i
        BY <2>3, <3>1
      <3>3. s[i + 1].link = l /\ s[i + 1].rest = (n + 1 - i) - 1 /\ s[i + 1].kind = "byte"
        BY <2>3, <3>1
      <3> QED BY <3>1, <3>2, <3>3 DEF Follows
    <2>5. \A i \in 1 .. Len(s) : s[i].kind # "text"
      BY <2>1, <2>3
    <2>6. s[1].kind # "byte" /\ s[Len(s)].rest = 0 /\ Len(s) > 0
      <3>1. 1 \in 1 .. n + 1 /\ n + 1 \in 1 .. n + 1 /\ n + 1 # 1 /\ n + 1 - (n + 1) = 0
        BY <2>1
      <3> QED BY <2>1, <2>3, <3>1
    <2> QED BY <1>1, <2>1, <2>2, <2>4, <2>5, <2>6, FramingPut
  <1>4. CASE Answer
    <2> DEFINE a == Token("answer", call.sock, IF call.sock \in open THEN 1 ELSE 0, 0)
               c == Token("closed", call.sock, 0, 0)
    <2>1. call.sock \in Links
      BY <1>4, CallTypes DEF Answer, Base, AnswersOnce
    <2>2. a \in Tokens /\ c \in Tokens /\ a.kind = "answer" /\ c.kind = "closed" /\ a.rest = 0 /\ c.rest = 0
      BY <2>1, TokenIn DEF Token
    <2>3. line' = line \o <<c>> \o <<a>> \/ line' = line \o <<>> \o <<a>>
      BY <1>4 DEF Answer
    <2> HIDE DEF a, c
    <2>4. line \in Seq(Tokens) /\ <<a>> \in Seq(Tokens) /\ <<c>> \in Seq(Tokens)
      BY <2>2, Lengths DEF Base
    <2>5. line \o <<>> = line /\ (line \o <<c>>) \o <<a>> = line \o (<<c>> \o <<a>>)
      BY <2>4, ConcatEmptySeq, ConcatAssociative
    <2>6. CASE line' = line \o <<a>>
      <3> DEFINE s == <<a>>
      <3>1. s \in Seq(Tokens) /\ Len(s) = 1 /\ s[1] = a /\ line' = line \o s
        BY <2>4, <2>6
      <3> HIDE DEF s
      <3>2. \A i \in 1 .. Len(s) : i = 1
        BY <3>1
      <3>3. \A i \in 1 .. Len(s) - 1 : Follows(s[i].link, s[i].rest, s[i + 1])
        BY <3>1
      <3>4. \A i \in 1 .. Len(s) : s[i].kind # "text"
        BY <2>2, <3>1, <3>2
      <3>5. s[1].kind # "byte" /\ s[Len(s)].rest = 0 /\ Len(s) > 0
        BY <2>2, <3>1
      <3> QED BY <1>1, <3>1, <3>3, <3>4, <3>5, FramingPut
    <2>7. CASE line' = line \o (<<c>> \o <<a>>)
      <3> DEFINE s == <<c>> \o <<a>>
      <3>1. Len(<<a>>) = 1 /\ Len(<<c>>) = 1 /\ <<c>>[1] = c /\ <<a>>[1] = a
        OBVIOUS
      <3>2. /\ s \in Seq(Tokens) /\ Len(s) = 2
            /\ \A i \in 1 .. 2 : s[i] = IF i <= 1 THEN <<c>>[i] ELSE <<a>>[i - 1]
        BY <2>4, <3>1, ConcatProperties
      <3>3. line' = line \o s
        BY <2>7
      <3> HIDE DEF s
      <3>4. s[1] = c /\ s[2] = a
        <4>1. 1 \in 1 .. 2 /\ 2 \in 1 .. 2 /\ 1 <= 1 /\ ~(2 <= 1) /\ 2 - 1 = 1
          OBVIOUS
        <4> QED BY <3>1, <3>2, <4>1
      <3>5. ASSUME NEW i \in 1 .. Len(s) - 1 PROVE Follows(s[i].link, s[i].rest, s[i + 1])
        <4>1. i = 1 /\ i + 1 = 2
          BY <3>2
        <4> QED BY <2>2, <3>4, <4>1 DEF Follows
      <3>6. \A i \in 1 .. Len(s) : s[i].kind # "text"
        <4>1. \A i \in 1 .. Len(s) : i = 1 \/ i = 2
          BY <3>2
        <4> QED BY <2>2, <3>4, <4>1
      <3>7. s[1].kind # "byte" /\ s[Len(s)].rest = 0 /\ Len(s) > 0
        BY <2>2, <3>2, <3>4
      <3> QED BY <1>1, <3>2, <3>3, <3>5, <3>6, <3>7, FramingPut
    <2> QED BY <2>3, <2>5, <2>6, <2>7, Zenon
  <1> QED BY <1>2, <1>3, <1>4 DEF Module

LEMMA FramingArrive ==
  ASSUME Base, Framing, Arrive
  PROVE  Framing'
  <1>1. UNCHANGED <<bufPos, connId, pc, call>>
    BY DEF Arrive, drvVars
  <1>2. Placed'
    BY <1>1 DEF Framing, Placed
  <1>3. CASE lost'
    BY <1>2, <1>3 DEF Framing
  <1>4. CASE ~lost'
    <2>1. line' = line /\ here' = here + 1 /\ lost' = lost
      BY <1>4 DEF Arrive
    <2>2. here \in Nat
      BY Lengths DEF Base
    <2>3. Whole => Whole'
      BY <2>1 DEF Whole, Chained
    <2>4. InStep => InStep'
      BY <1>1, <2>1 DEF InStep
    <2>5. here > 0 /\ IsNotice(line[1]) => here' > 0 /\ IsNotice(line[1])'
      BY <1>1, <2>1, <2>2 DEF IsNotice
    <2> QED BY <1>1, <1>2, <2>1, <2>3, <2>4, <2>5 DEF Framing
  <1> QED BY <1>3, <1>4

(* What keeps the driver in step, in a state and in a step: status is asked*)
(* only in a packet, flush not with a link 0, and inside a packet the      *)
(* sketch calls nothing but a read of that link.                           *)
Heeding ==
  /\ pc \in {"avail", "find"} /\ call.op = "status" => pc = "avail" /\ Buffered
  /\ pc # "idle" /\ call.op = "flush" => 0 \notin Links

Turning == Sketch => bufPos = 0 \/ (connId = call'.sock /\ pc' = "avail")

LEMMA KeptCalls ==
  ASSUME KeepsStep, Base
  PROVE  Heeding /\ Turning
  <1>1. pc # "idle" => call.op # "status" /\ (call.op = "flush" => 0 \notin Links)
    BY DEF KeepsStep, Base, Calling
  <1>2. Turning
    BY DEF Turning, Sketch, Call, Accept, ReadOps, KeepsStep
  <1> QED BY <1>1, <1>2 DEF Heeding

LEMMA FramingSketch ==
  ASSUME Turning, Base, Framing, Sketch
  PROVE  Framing'
  <1>1. /\ UNCHANGED <<line, here, lost, bufPos, connId>> /\ pc' \in {"cmd", "avail"} /\ pc = "idle"
    BY DEF Sketch, Call, Accept, lineVars, drvVars, espVars
  <1>2. Placed'
    BY <1>1 DEF Placed, Turning
  <1> QED BY <1>1, <1>2, FramingSame

LEMMA AvailPlaced ==
  ASSUME pc \in {"avail", "find"}, NEW n \in Nat, NEW id, AvailDone(n, id), n > 0 \/ call.op # "status",
         call' = call, n > 0 => connId' = call.sock \/ call.sock = 0
  PROVE  Placed' /\ pc' \in {"idle", "data", "buf"}
  <1>1. pc' = "idle" \/ (pc' \in {"data", "buf"} /\ n > 0)
    BY DEF AvailDone, Return
  <1> QED BY <1>1 DEF Placed

LEMMA FramingAvails ==
  ASSUME Heeding, Base, Framing,
         AvailBuffered \/ AvailNothing \/ FindSkip \/ FindHeader \/ FindTimeout
  PROVE  Framing'
  <1>0. bufPos \in Nat /\ connId \in Links \cup {0}
    BY BoundsAssumption DEF Base, TypeOK
  <1>1. pc \in {"avail", "find"} /\ ~(pc = "avail" /\ Buffered) => bufPos = 0
    BY <1>0 DEF Framing, Placed, Buffered
  <1>11. pc \in {"avail", "find"} /\ ~(pc = "avail" /\ Buffered) => call.op # "status"
    BY DEF Heeding
  <1>2. CASE AvailBuffered
    <2>1. /\ pc = "avail" /\ bufPos > 0 /\ AvailDone(bufPos, connId) /\ call' = call
          /\ UNCHANGED <<line, here, lost, bufPos, connId>>
      BY <1>2 DEF AvailBuffered, Buffered, drvVars, lineVars, espVars
    <2>2. connId = call.sock
      BY <2>1 DEF Framing, Placed
    <2>3. Placed' /\ pc' \in {"idle", "data", "buf"}
      BY <1>0, <2>1, <2>2, AvailPlaced
    <2> QED BY <2>1, <2>3, FramingSame
  <1>3. CASE AvailNothing \/ FindTimeout
    <2>1. /\ pc \in {"avail", "find"} /\ ~(pc = "avail" /\ Buffered)
          /\ AvailDone(0, connId) /\ call' = call
          /\ UNCHANGED <<line, here, lost, bufPos, connId>>
      BY <1>3 DEF AvailNothing, FindTimeout, drvVars, lineVars, espVars
    <2>2. Placed' /\ pc' \in {"idle", "data", "buf"}
      BY <1>11, <2>1, AvailPlaced
    <2> QED BY <2>1, <2>2, FramingSame
  <1>4. CASE FindSkip
    <2>1. /\ pc \in {"avail", "find"} /\ ~(pc = "avail" /\ Buffered) /\ here > 0
          /\ Head(line).kind # "hdr" /\ Pop /\ pc' = "find"
          /\ UNCHANGED <<lost, bufPos, connId, call>>
      BY <1>4 DEF FindSkip, drvVars, espVars
    <2>2. bufPos = 0
      BY <1>1, <2>1
    <2>3. Placed'
      BY <2>1, <2>2 DEF Placed
    <2>4. ASSUME ~lost PROVE bufPos' = line[1].rest /\ ~(line[1].rest > 0)
      <3>1. line[1].kind = "closed" /\ line[1].rest = 0
        BY <2>1, <2>2, <2>4, AtHead
      <3> QED BY <2>1, <2>2, <3>1
    <2> QED BY <2>1, <2>3, <2>4, FramingPop
  <1>5. CASE FindHeader
    <2> DEFINE n == IF Head(line).link = call.sock \/ call.sock = 0 THEN Head(line).rest ELSE 0
    <2>1. /\ pc \in {"avail", "find"} /\ ~(pc = "avail" /\ Buffered)
          /\ here > 0 /\ Pop /\ Head(line).kind = "hdr"
          /\ connId' = Head(line).link /\ bufPos' = Head(line).rest
          /\ AvailDone(n, Head(line).link) /\ lost' = lost /\ call' = call
      BY <1>5 DEF FindHeader, espVars
    <2>2. Head(line) = line[1] /\ line[1] \in Tokens
      BY <2>1, PopLine DEF Base
    <2>3. Head(line).rest \in Nat
      BY <2>2, Fields
    <2>4. n \in Nat /\ (n > 0 => Head(line).link = call.sock \/ call.sock = 0)
      BY <2>3
    <2> HIDE DEF n
    <2>5. Placed' /\ pc' \in {"idle", "data", "buf"}
      BY <1>11, <2>1, <2>4, AvailPlaced
    <2> QED BY <2>1, <2>2, <2>5, FramingPop
  <1> QED BY <1>2, <1>3, <1>4, <1>5

(* A byte is taken. *)
LEMMA FramingByte ==
  ASSUME Base, Framing, pc \in {"data", "fill"}, bufPos > 0, here > 0, PopChar, bufPos' = bufPos - 1,
         UNCHANGED <<lost, connId>>, Placed', pc' # "notice"
  PROVE  Framing'
  <1>1. ASSUME lost PROVE Framing'
    BY <1>1 DEF Framing
  <1>2. ASSUME ~lost PROVE Framing'
    <2>1. /\ Head(line) = line[1] /\ line[1].kind = "byte"
          /\ line[1].link = connId /\ line[1].rest = bufPos - 1
      BY <1>2, AtHead
    <2>2. Pop
      BY <2>1 DEF PopChar
    <2> QED BY <2>1, <2>2, FramingPop
  <1> QED BY <1>1, <1>2

LEMMA FramingData ==
  ASSUME Heeding, Base, Framing,
         \/ DataMismatch \/ DataPeek \/ DataByte \/ DataTimeout
         \/ NotClosing \/ IsClosing \/ NoticeSkip \/ NoticeFound \/ NoticeTimeout
  PROVE  Framing'
  <1>0. bufPos \in Nat /\ (pc = "data" => bufPos > 0)
        /\ (pc # "idle" /\ call.op = "flush" => 0 \notin Links)
    <2>1. bufPos \in Nat
      BY BoundsAssumption DEF Base, TypeOK
    <2>2. pc = "data" => bufPos > 0
      BY DEF Base, Calling
    <2> QED BY <2>1, <2>2 DEF Heeding
  <1>00. pc = "data" => call.sock \in Links
    BY CallTypes
  <1>1. CASE DataMismatch
    <2>1. /\ pc = "data" /\ connId # call.sock
          /\ UNCHANGED <<line, here, lost, bufPos, connId, call>>
          /\ call.op # "flush" => pc' = "idle"
      BY <1>1 DEF DataMismatch, DataFailed, DataDone, Return, lineVars, espVars, drvVars
    <2>2. call.sock = 0
      BY <2>1 DEF Framing, Placed
    <2>3. pc' = "idle"
      BY <1>0, <1>00, <2>1, <2>2
    <2>4. Placed'
      BY <2>3 DEF Placed
    <2> QED BY <2>1, <2>3, <2>4, FramingSame
  <1>2. CASE DataPeek
    <2>1. /\ pc = "data" /\ pc' = "idle" /\ UNCHANGED <<line, here, lost, bufPos, connId, call>>
      BY <1>2 DEF DataPeek, DataDone, Return, lineVars, espVars, drvVars
    <2>2. Placed'
      BY <2>1 DEF Placed
    <2> QED BY <2>1, <2>2, FramingSame
  <1>3. CASE DataByte
    <2>1. /\ pc = "data" /\ connId = call.sock /\ here > 0 /\ PopChar /\ bufPos' = bufPos - 1
          /\ UNCHANGED <<lost, connId, call>>
          /\ pc' \in {"idle", "avail"} \/ (pc' = "closing" /\ bufPos = 1)
      BY <1>3 DEF DataByte, DataDone, Return, espVars
    <2>2. Placed' /\ pc' # "notice"
      BY <2>1 DEF Placed
    <2> QED BY <1>0, <2>1, <2>2, FramingByte
  <1>4. CASE DataTimeout
    <2>1. /\ pc = "data" /\ line = <<>> /\ UNCHANGED <<line, here, lost, call>> /\ bufPos' = 0
          /\ pc' \in {"idle", "avail"}
      BY <1>4 DEF DataTimeout, DataFailed, DataDone, Return, Silent, lineVars, espVars
    <2>2. Placed'
      BY <2>1 DEF Placed
    <2>3. InStep' /\ (Whole => Whole')
      BY <2>1 DEF InStep, Whole, Chained
    <2> QED BY <2>1, <2>2, <2>3 DEF Framing
  <1>5. CASE NotClosing
    <2>1. /\ pc = "closing" /\ UNCHANGED <<line, here, lost, bufPos, connId, call>>
          /\ pc' \in {"idle", "avail"}
      BY <1>5 DEF NotClosing, DataDone, Return, lineVars, espVars, drvVars
    <2>2. bufPos = 0
      BY <2>1 DEF Framing, Placed
    <2>3. Placed'
      BY <2>1, <2>2 DEF Placed
    <2> QED BY <2>1, <2>3, FramingSame
  <1>6. CASE IsClosing
    <2>1. /\ pc = "closing" /\ UNCHANGED <<line, here, lost, bufPos, connId, call>> /\ pc' = "notice"
          /\ here > 0 /\ (IsNotice(Head(line)) \/ MayBeDigit(Head(line)))
      BY <1>6 DEF IsClosing, lineVars, espVars, drvVars
    <2>2. bufPos = 0
      BY <2>1 DEF Framing, Placed
    <2>3. Placed'
      BY <2>1, <2>2 DEF Placed
    <2>4. ASSUME ~lost PROVE Whole' /\ InStep' /\ here' > 0 /\ IsNotice(line[1])'
      <3>1. Whole /\ InStep /\ Head(line) = line[1] /\ line[1].kind \in {"hdr", "byte", "closed"}
            /\ line[1].kind # "byte"
        BY <2>1, <2>2, <2>4, AtHead
      <3>2. IsNotice(line[1])
        BY <2>1, <3>1 DEF MayBeDigit
      <3> QED BY <2>1, <3>1, <3>2 DEF Whole, Chained, InStep, IsNotice
    <2> QED BY <2>1, <2>3, <2>4 DEF Framing
  <1>7. CASE NoticeSkip
    <2>1. /\ pc = "notice" /\ UNCHANGED <<lost, bufPos, connId, call, pc>> /\ here > 0
          /\ Head(line).kind # "closed"
      BY <1>7 DEF NoticeSkip, espVars, drvVars
    <2>2. Placed'
      BY <2>1 DEF Framing, Placed
    <2>3. lost
      <3>1. ASSUME ~lost PROVE FALSE
        <4>1. Head(line) = line[1] /\ IsNotice(line[1])
          BY <2>1, <3>1, AtHead DEF Framing
        <4> QED BY <2>1, <4>1 DEF IsNotice
      <3> QED BY <3>1
    <2> QED BY <2>1, <2>2, <2>3 DEF Framing
  <1>8. CASE NoticeFound
    <2>1. /\ pc = "notice" /\ pc' = "idle" /\ UNCHANGED <<lost, bufPos, connId, call>> /\ here > 0 /\ Pop
      BY <1>8 DEF NoticeFound, CloseDone, Return, espVars, drvVars
    <2>2. Placed'
      BY <2>1 DEF Placed
    <2>3. ASSUME ~lost PROVE bufPos' = line[1].rest /\ ~(line[1].rest > 0)
      <3>1. line[1].kind = "closed" /\ line[1].rest = 0
        BY <2>1, <2>3, AtHead DEF Framing, IsNotice
      <3>2. bufPos = 0
        BY <2>1 DEF Framing, Placed
      <3> QED BY <2>1, <3>1, <3>2
    <2> QED BY <2>1, <2>2, <2>3, FramingPop
  <1>9. CASE NoticeTimeout
    <2>1. /\ pc = "notice" /\ pc' = "idle" /\ UNCHANGED <<line, here, lost, bufPos, connId, call>>
      BY <1>9 DEF NoticeTimeout, CloseDone, Return, espVars, drvVars, lineVars
    <2>2. Placed'
      BY <2>1 DEF Placed
    <2> QED BY <2>1, <2>2, FramingSame
  <1> QED BY <1>1, <1>2, <1>3, <1>4, <1>5, <1>6, <1>7, <1>8, <1>9

LEMMA FramingBuf ==
  ASSUME Base, Framing, \/ BufMismatch \/ (\E size \in 1 .. MaxLen : BufStart(size))
                        \/ BufByte \/ BufDone \/ BufTimeout
  PROVE  Framing'
  <1>1. CASE BufMismatch \/ BufDone \/ BufTimeout
    <2>1. pc # "answer" /\ pc' = "idle" /\ UNCHANGED <<line, here, lost, bufPos, connId, call>>
      BY <1>1 DEF BufMismatch, BufDone, BufTimeout, Return, lineVars, espVars, drvVars
    <2>2. Placed'
      BY <2>1 DEF Placed
    <2> QED BY <2>1, <2>2, FramingSame
  <1>2. ASSUME NEW size \in 1 .. MaxLen, BufStart(size) PROVE Framing'
    <2>1. pc = "buf" /\ pc' = "fill" /\ connId = call.sock /\ UNCHANGED <<line, here, lost, bufPos, connId, call>>
      BY <1>2 DEF BufStart, lineVars, espVars, drvVars
    <2>2. Placed'
      BY <2>1 DEF Placed
    <2> QED BY <2>1, <2>2, FramingSame
  <1>3. CASE BufByte
    <2>1. /\ pc = "fill" /\ pc' = "fill" /\ want > 0 /\ here > 0 /\ PopChar /\ bufPos' = bufPos - 1
          /\ UNCHANGED <<lost, connId, call>>
      BY <1>3 DEF BufByte, espVars
    <2>2. bufPos > 0
      <3>1. want \in 0 .. bufPos /\ bufPos \in Nat
        BY BoundsAssumption DEF Base, TypeOK
      <3> QED BY <2>1, <3>1
    <2>3. Placed'
      BY <2>1 DEF Framing, Placed
    <2> QED BY <2>1, <2>2, <2>3, FramingByte
  <1> QED BY <1>1, <1>2, <1>3

LEMMA FramingCmd ==
  ASSUME Base, Framing, CmdSend \/ CmdSkip \/ CmdAnswered \/ CmdTimeout
  PROVE  Framing'
  <1>0. pc \in {"cmd", "answer"} => bufPos = 0
    BY DEF Framing, Placed
  <1>1. CASE CmdSend
    <2>1. /\ pc = "cmd" /\ pc' = "answer" /\ UNCHANGED <<lost, bufPos, connId, call>>
          /\ line' = SubSeq(line, here + 1, Len(line)) /\ here' = 0
      BY <1>1 DEF CmdSend, drvVars
    <2>2. Placed'
      BY <1>0, <2>1 DEF Placed
    <2>3. Whole => Whole'
      <3>1. /\ line' \in Seq(Tokens) /\ Len(line') = Len(line) - here /\ here \in Nat
            /\ \A i \in 1 .. Len(line') : here + i \in 1 .. Len(line) /\ line'[i] = line[here + i]
        BY <2>1, EmptyLine, Lengths DEF Base
      <3>2. \A i \in 1 .. Len(line') : here + i = i + here
        BY <3>1, LenProperties
      <3>3. \A i \in 1 .. Len(line') : i + here \in 1 .. Len(line) /\ line'[i] = line[i + here]
        BY <3>1, <3>2
      <3> QED BY <3>1, <3>3, WholeSuffix DEF Base
    <2> QED BY <2>1, <2>2, <2>3 DEF Framing
  <1>2. CASE CmdSkip
    <2>1. /\ pc = "answer" /\ here > 0 /\ Pop /\ UNCHANGED <<lost, bufPos, connId, call, pc>>
      BY <1>2 DEF CmdSkip, drvVars, espVars
    <2>2. Placed'
      BY <1>0, <2>1 DEF Placed
    <2>3. Whole => Whole'
      BY <2>1, PopLine, WholeSuffix DEF Base
    <2> QED BY <2>1, <2>2, <2>3 DEF Framing
  <1>3. CASE CmdAnswered
    <2>1. /\ pc = "answer" /\ here > 0 /\ Pop /\ Head(line).kind = "answer"
          /\ UNCHANGED <<lost, bufPos, connId>> /\ pc' \in {"idle", "cmd"}
      BY <1>3 DEF CmdAnswered, CmdDone, Return, drvVars, espVars
    <2>2. Placed'
      BY <1>0, <2>1 DEF Placed
    <2>3. line[1].kind = "answer" /\ line[1].rest = 0
      <3>1. Head(line) = line[1] /\ line[1] \in Tokens
        BY <2>1, PopLine DEF Base
      <3> QED BY <2>1, <3>1, Fields
    <2> QED BY <1>0, <2>1, <2>2, <2>3, FramingPop
  <1>4. CASE CmdTimeout
    <2>1. /\ pc = "answer" /\ line = <<>> /\ UNCHANGED <<line, here, lost, bufPos, connId>>
          /\ pc' \in {"idle", "cmd"}
      BY <1>4 DEF CmdTimeout, CmdDone, Return, Silent, drvVars, espVars, lineVars
    <2>2. Placed'
      BY <1>0, <2>1 DEF Placed
    <2>3. InStep' /\ (Whole => Whole')
      BY <1>0, <2>1 DEF InStep, Whole, Chained
    <2> QED BY <2>1, <2>2, <2>3 DEF Framing
  <1> QED BY <1>1, <1>2, <1>3, <1>4

LEMMA InitFraming == Init => Framing
  <1> SUFFICES ASSUME Init PROVE Framing
    OBVIOUS
  <1>1. Placed
    BY DEF Init, Placed
  <1>2. InStep
    BY DEF Init, InStep
  <1>3. Whole
    <2>1. line = <<>> /\ Len(line) = 0
      BY DEF Init
    <2>2. \A i \in 1 .. Len(line) - 1 : FALSE
      BY <2>1
    <2>3. \A i \in 1 .. Len(line) : FALSE
      BY <2>1
    <2> QED BY <2>1, <2>2, <2>3 DEF Whole, Chained
  <1> QED BY <1>1, <1>2, <1>3 DEF Init, Framing

LEMMA NextFraming ==
  ASSUME Heeding, Turning, Base, Framing, [Next]_vars
  PROVE  Framing'
  <1>1. CASE Sketch \/ Module \/ Arrive
    BY <1>1, FramingSketch, FramingModule, FramingArrive
  <1>2. CASE Driver
    BY <1>2, FramingAvails, FramingData, FramingBuf, FramingCmd DEF Driver
  <1>3. CASE UNCHANGED vars
    <2>1. UNCHANGED <<line, here, lost, bufPos, connId, pc, call>>
      BY <1>3 DEF vars, lineVars, espVars, drvVars
    <2>2. Placed'
      BY <2>1 DEF Framing, Placed
    <2>3. (Whole => Whole') /\ (InStep => InStep') /\ (IsNotice(line[1]) => IsNotice(line[1])')
      BY <2>1 DEF Whole, Chained, InStep, IsNotice
    <2> QED BY <2>1, <2>2, <2>3 DEF Framing
  <1> QED BY <1>1, <1>2, <1>3 DEF Next

LEMMA FramingHolds ==
  ASSUME KeepsStep
  PROVE  Spec => []Framing
  <1>1. Init => Framing
    BY InitFraming
  <1>2. Base /\ Framing /\ [Next]_vars => Framing'
    BY NextFraming, KeptCalls
  <1> QED BY <1>1, <1>2, BaseInvariance, PTL DEF Spec

(* While nothing is lost, _connId and _bufPos say what the next characters *)
(* of the line are, for every sketch that reads a packet to its end before *)
(* it turns to another socket and does not call status (availData, getData,*)
(* getDataBuf), whatever commands it gives.                                *)
THEOREM KeepingStep ==
  ASSUME KeepsStep
  PROVE  Spec => []Framed
  <1>1. Framing => Framed
    BY DEF Framing, Framed, Whole, Chained, InStep
  <1> QED BY <1>1, FramingHolds, PTL

-----------------------------------------------------------------------------
(* Every byte once, in order.                                              *)

LEMMA AppendConcat ==
  \A s, t \in Seq(Int \X Int), e \in Int \X Int : Append(s \o t, e) = s \o Append(t, e)
  <1> SUFFICES ASSUME NEW s \in Seq(Int \X Int), NEW t \in Seq(Int \X Int), NEW e \in Int \X Int
               PROVE  Append(s \o t, e) = s \o Append(t, e)
    OBVIOUS
  <1>1. s \o t \in Seq(Int \X Int) /\ <<e>> \in Seq(Int \X Int)
    BY ConcatProperties
  <1>2. Append(s \o t, e) = (s \o t) \o <<e>> /\ Append(t, e) = t \o <<e>>
    BY <1>1, AppendIsConcat
  <1>3. (s \o t) \o <<e>> = s \o (t \o <<e>>)
    <2> DEFINE u == <<e>>
    <2>1. u \in Seq(Int \X Int)
      BY <1>1
    <2> HIDE DEF u
    <2> QED BY <2>1, ConcatAssociative, SMTT(20)
  <1> QED BY <1>2, <1>3

(* What the running call holds belongs to what was delivered. *)
LEMMA WhatIsDelivered ==
  Base => \A l \in Links :
    /\ Delivered(l) \in Seq(Int \X Int) /\ Len(Delivered(l)) \in Nat
    /\ got[l] \in Seq(Int \X Int)
    /\ pc \notin {"closing", "notice", "fill"} => Delivered(l) = got[l]
    /\ pc \in {"closing", "notice"} =>
         Delivered(l) = IF call.sock = l THEN Append(got[l], val) ELSE got[l]
    /\ pc = "fill" => Delivered(l) = IF call.sock = l THEN got[l] \o buf ELSE got[l]
  <1> SUFFICES ASSUME Base, NEW l \in Links
               PROVE  /\ Delivered(l) \in Seq(Int \X Int) /\ Len(Delivered(l)) \in Nat
                      /\ got[l] \in Seq(Int \X Int)
                      /\ pc \notin {"closing", "notice", "fill"} => Delivered(l) = got[l]
                      /\ pc \in {"closing", "notice"} =>
                           Delivered(l) = IF call.sock = l THEN Append(got[l], val) ELSE got[l]
                      /\ pc = "fill" => Delivered(l) = IF call.sock = l THEN got[l] \o buf ELSE got[l]
    OBVIOUS
  <1> DEFINE v == IF call.sock = l /\ pc \in {"closing", "notice"} THEN <<val>> ELSE <<>>
             b == IF call.sock = l THEN buf ELSE <<>>
  <1>1. /\ got[l] \in Seq(Int \X Int) /\ val \in Int \X Int /\ buf \in Seq(Int \X Int)
        /\ <<val>> \in Seq(Int \X Int) /\ <<>> \in Seq(Int \X Int)
    BY EmptySeq DEF Base, TypeOK
  <1>2. Delivered(l) = (got[l] \o v) \o b
    BY DEF Delivered
  <1>3. v \in Seq(Int \X Int) /\ b \in Seq(Int \X Int)
    BY <1>1
  <1>4. got[l] \o v \in Seq(Int \X Int)
    BY <1>1, <1>3, ConcatProperties
  <1>5. /\ got[l] \o <<>> = got[l] /\ (got[l] \o v) \o <<>> = got[l] \o v
        /\ got[l] \o <<val>> = Append(got[l], val)
    BY <1>1, <1>4, ConcatEmptySeq, AppendIsConcat
  <1>6. pc # "fill" => buf = <<>>
    BY DEF Base, Calling
  <1>7. Delivered(l) \in Seq(Int \X Int)
    BY <1>2, <1>3, <1>4, ConcatProperties
  <1>8. Len(Delivered(l)) \in Nat
    BY <1>7, LenProperties
  <1>9. CASE pc \notin {"closing", "notice", "fill"}
    <2>1. v = <<>> /\ b = <<>>
      BY <1>6, <1>9
    <2> HIDE DEF v, b
    <2>2. Delivered(l) = got[l]
      BY <1>2, <1>5, <2>1
    <2> QED BY <1>1, <1>7, <1>8, <1>9, <2>2
  <1>10. CASE pc \in {"closing", "notice"}
    <2>1. b = <<>> /\ v = IF call.sock = l THEN <<val>> ELSE <<>>
      BY <1>6, <1>10
    <2> HIDE DEF v, b
    <2>2. Delivered(l) = IF call.sock = l THEN Append(got[l], val) ELSE got[l]
      BY <1>2, <1>5, <2>1
    <2> QED BY <1>1, <1>7, <1>8, <1>10, <2>2
  <1>11. CASE pc = "fill"
    <2>1. v = <<>> /\ b = IF call.sock = l THEN buf ELSE <<>>
      BY <1>11
    <2> HIDE DEF v, b
    <2>2. Delivered(l) = IF call.sock = l THEN got[l] \o buf ELSE got[l]
      BY <1>2, <1>5, <2>1
    <2> QED BY <1>1, <1>7, <1>8, <1>11, <2>2
  <1> QED BY <1>9, <1>10, <1>11

LEMMA StreamSame ==
  ASSUME NEW l \in Links, Stream(l), UNCHANGED <<line, sent, open>>,
         Delivered(l)' = Delivered(l), l \notin live' => l \notin live
  PROVE  Stream(l)'
  BY DEF Stream, IsByte, OfPacket

(* The first token is gone, and it was no byte of this link. *)
LEMMA StreamPop ==
  ASSUME Base, NEW l \in Links, Stream(l), here > 0, Pop, UNCHANGED <<sent, open>>,
         Delivered(l)' = Delivered(l), ~IsByte(line[1], l),
         l \notin live' =>
           l \notin live \/ (l \notin open /\ \A i \in 1 .. Len(line) : ~OfPacket(line[i], l))
  PROVE  Stream(l)'
  <1> DEFINE d == Delivered(l)
             have == Len(Delivered(l))
  <1>1. /\ line' \in Seq(Tokens) /\ Len(line') = Len(line) - 1 /\ Len(line) \in Nat /\ Len(line') \in Nat
        /\ \A i \in 1 .. Len(line') : i + 1 \in 1 .. Len(line) /\ line'[i] = line[i + 1]
    BY PopLine, Lengths, LenProperties DEF Base
  <1>2. /\ have <= sent[l] /\ \A i \in 1 .. have : d[i] = Byte(l, i)
        /\ \A n \in have + 1 .. sent[l] :
             \E i \in 1 .. Len(line) : IsByte(line[i], l) /\ line[i].n = n
        /\ \A i \in 1 .. Len(line) : IsByte(line[i], l) =>
             /\ line[i].n \in have + 1 .. sent[l]
             /\ \A j \in 1 .. i - 1 : IsByte(line[j], l) => line[j].n < line[i].n
        /\ \A i \in 1 .. Len(line) : line[i].kind = "closed" /\ line[i].link = l =>
             l \notin open /\ \A j \in i .. Len(line) : ~OfPacket(line[j], l)
        /\ l \notin live => l \notin open /\ \A i \in 1 .. Len(line) : ~OfPacket(line[i], l)
    BY DEF Stream
  <1> HIDE DEF d, have
  <1>3. ASSUME NEW n \in have + 1 .. sent[l]
        PROVE  \E i \in 1 .. Len(line') : IsByte(line'[i], l) /\ line'[i].n = n
    <2>1. PICK i \in 1 .. Len(line) : IsByte(line[i], l) /\ line[i].n = n
      BY <1>2
    <2>2. i # 1
      BY <2>1
    <2>3. i - 1 \in 1 .. Len(line') /\ (i - 1) + 1 = i
      BY <1>1, <2>2
    <2>4. line'[i - 1] = line[i]
      BY <1>1, <2>3
    <2> QED BY <2>1, <2>3, <2>4
  <1>4. ASSUME NEW i \in 1 .. Len(line'), IsByte(line'[i], l)
        PROVE  /\ line'[i].n \in have + 1 .. sent[l]
               /\ \A j \in 1 .. i - 1 : IsByte(line'[j], l) => line'[j].n < line'[i].n
    <2>1. i + 1 \in 1 .. Len(line) /\ line'[i] = line[i + 1]
      BY <1>1
    <2>2. ASSUME NEW j \in 1 .. i - 1, IsByte(line'[j], l) PROVE line'[j].n < line'[i].n
      <3>1. j \in 1 .. Len(line') /\ j + 1 \in 1 .. (i + 1) - 1
        BY <1>1
      <3>2. line'[j] = line[j + 1]
        BY <1>1, <3>1
      <3> QED BY <1>2, <1>4, <2>1, <2>2, <3>1, <3>2
    <2> QED BY <1>2, <1>4, <2>1, <2>2
  <1>5. ASSUME NEW i \in 1 .. Len(line'), line'[i].kind = "closed", line'[i].link = l
        PROVE  l \notin open /\ \A j \in i .. Len(line') : ~OfPacket(line'[j], l)
    <2>1. i + 1 \in 1 .. Len(line) /\ line'[i] = line[i + 1]
      BY <1>1
    <2>2. l \notin open /\ \A j \in i + 1 .. Len(line) : ~OfPacket(line[j], l)
      BY <1>2, <1>5, <2>1
    <2>3. \A j \in i .. Len(line') : j \in 1 .. Len(line') /\ j + 1 \in i + 1 .. Len(line)
      BY <1>1
    <2> QED BY <1>1, <2>2, <2>3
  <1>6. ASSUME l \notin live'
        PROVE  l \notin open /\ \A i \in 1 .. Len(line') : ~OfPacket(line'[i], l)
    BY <1>1, <1>2, <1>6
  <1>7. Delivered(l)' = d /\ Len(Delivered(l)') = have
    BY DEF d, have
  <1> QED BY <1>2, <1>3, <1>4, <1>5, <1>6, <1>7 DEF Stream

(* The first byte of a link on the line is the next the link has to get.   *)
LEMMA NextByte ==
  ASSUME Base, NEW l \in Links, Stream(l), 1 \in 1 .. Len(line), IsByte(line[1], l)
  PROVE  line[1].n = Len(Delivered(l)) + 1 /\ line[1].n <= sent[l] /\ sent[l] \in Nat
  <1> DEFINE have == Len(Delivered(l))
  <1>1. have \in Nat /\ sent[l] \in Nat /\ Len(line) \in Nat
    BY WhatIsDelivered, Lengths DEF Base, TypeOK
  <1>2. line[1].n \in have + 1 .. sent[l]
    BY DEF Stream
  <1> HIDE DEF have
  <1>3. have + 1 \in have + 1 .. sent[l]
    BY <1>1, <1>2
  <1>4. PICK i \in 1 .. Len(line) : IsByte(line[i], l) /\ line[i].n = have + 1
    BY <1>3 DEF Stream, have
  <1>5. CASE i = 1
    BY <1>1, <1>2, <1>4, <1>5 DEF have
  <1>6. CASE i # 1
    <2>1. 1 \in 1 .. i - 1
      BY <1>6
    <2>2. line[1].n < line[i].n
      BY <1>4, <2>1 DEF Stream
    <2> QED BY <1>1, <1>2, <1>4, <2>2
  <1> QED BY <1>5, <1>6

(* The byte that was next has been delivered. *)
LEMMA StreamByte ==
  ASSUME Base, NEW l \in Links, Stream(l), here > 0, Pop, UNCHANGED <<sent, open>>,
         IsByte(line[1], l), Delivered(l)' = Append(Delivered(l), Byte(l, line[1].n)),
         l \notin live' => l \notin live
  PROVE  Stream(l)'
  <1> DEFINE d == Delivered(l)
             have == Len(Delivered(l))
             e == Append(Delivered(l), Byte(l, line[1].n))
  <1>1. /\ line' \in Seq(Tokens) /\ Len(line') = Len(line) - 1 /\ Len(line) \in Nat /\ Len(line') \in Nat
        /\ \A i \in 1 .. Len(line') : i + 1 \in 1 .. Len(line) /\ line'[i] = line[i + 1]
        /\ 1 \in 1 .. Len(line) /\ line[1] \in Tokens
    BY PopLine, Lengths, LenProperties DEF Base
  <1>2. line[1].n = have + 1 /\ line[1].n <= sent[l] /\ sent[l] \in Nat /\ have \in Nat
    BY <1>1, NextByte, WhatIsDelivered
  <1>3. d \in Seq(Int \X Int) /\ Byte(l, line[1].n) \in Int \X Int
    <2>1. line[1].n \in Int /\ l \in Int
      BY <1>2, LinksAssumption
    <2> QED BY <2>1, WhatIsDelivered DEF Byte
  <1>4. /\ Len(e) = have + 1 /\ \A i \in 1 .. have : e[i] = d[i]
        /\ e[have + 1] = Byte(l, line[1].n)
    BY <1>3, AppendProperties
  <1>5. /\ \A i \in 1 .. have : d[i] = Byte(l, i)
        /\ \A n \in have + 1 .. sent[l] :
             \E i \in 1 .. Len(line) : IsByte(line[i], l) /\ line[i].n = n
        /\ \A i \in 1 .. Len(line) : IsByte(line[i], l) =>
             /\ line[i].n \in have + 1 .. sent[l]
             /\ \A j \in 1 .. i - 1 : IsByte(line[j], l) => line[j].n < line[i].n
        /\ \A i \in 1 .. Len(line) : line[i].kind = "closed" /\ line[i].link = l =>
             l \notin open /\ \A j \in i .. Len(line) : ~OfPacket(line[j], l)
        /\ l \notin live => l \notin open /\ \A i \in 1 .. Len(line) : ~OfPacket(line[i], l)
    BY DEF Stream
  <1>6. Delivered(l)' = e
    OBVIOUS
  <1> HIDE DEF d, have, e
  <1>7. Len(e) = have + 1 /\ \A i \in 1 .. have + 1 : e[i] = Byte(l, i)
    BY <1>2, <1>4, <1>5
  <1>8. ASSUME NEW n \in have + 1 + 1 .. sent[l]
        PROVE  \E i \in 1 .. Len(line') : IsByte(line'[i], l) /\ line'[i].n = n
    <2>1. n \in have + 1 .. sent[l] /\ n # have + 1
      BY <1>2
    <2>2. PICK i \in 1 .. Len(line) : IsByte(line[i], l) /\ line[i].n = n
      BY <1>5, <2>1
    <2>3. i # 1
      BY <1>2, <2>1, <2>2
    <2>4. i - 1 \in 1 .. Len(line') /\ (i - 1) + 1 = i
      BY <1>1, <2>3
    <2>5. line'[i - 1] = line[i]
      BY <1>1, <2>4
    <2> QED BY <2>2, <2>4, <2>5
  <1>9. ASSUME NEW i \in 1 .. Len(line'), IsByte(line'[i], l)
        PROVE  /\ line'[i].n \in have + 1 + 1 .. sent[l]
               /\ \A j \in 1 .. i - 1 : IsByte(line'[j], l) => line'[j].n < line'[i].n
    <2>1. i + 1 \in 1 .. Len(line) /\ line'[i] = line[i + 1] /\ 1 \in 1 .. (i + 1) - 1
      BY <1>1
    <2>2. line[1].n < line'[i].n /\ line'[i].n \in have + 1 .. sent[l]
      BY <1>5, <1>9, <2>1
    <2>3. ASSUME NEW j \in 1 .. i - 1, IsByte(line'[j], l) PROVE line'[j].n < line'[i].n
      <3>1. j \in 1 .. Len(line') /\ j + 1 \in 1 .. (i + 1) - 1
        BY <1>1
      <3>2. line'[j] = line[j + 1]
        BY <1>1, <3>1
      <3> QED BY <1>5, <1>9, <2>1, <2>3, <3>1, <3>2
    <2>4. line'[i].n \in have + 1 + 1 .. sent[l]
      BY <1>2, <2>2
    <2> QED BY <2>3, <2>4
  <1>10. ASSUME NEW i \in 1 .. Len(line'), line'[i].kind = "closed", line'[i].link = l
         PROVE  l \notin open /\ \A j \in i .. Len(line') : ~OfPacket(line'[j], l)
    <2>1. i + 1 \in 1 .. Len(line) /\ line'[i] = line[i + 1]
      BY <1>1
    <2>2. l \notin open /\ \A j \in i + 1 .. Len(line) : ~OfPacket(line[j], l)
      BY <1>5, <1>10, <2>1
    <2>3. \A j \in i .. Len(line') : j \in 1 .. Len(line') /\ j + 1 \in i + 1 .. Len(line)
      BY <1>1
    <2> QED BY <1>1, <2>2, <2>3
  <1>11. ASSUME l \notin live'
         PROVE  l \notin open /\ \A i \in 1 .. Len(line') : ~OfPacket(line'[i], l)
    BY <1>1, <1>5, <1>11
  <1>12. have + 1 <= sent[l]
    BY <1>2
  <1>13. /\ Len(Delivered(l)') <= sent'[l] /\ \A i \in 1 .. Len(Delivered(l)') : Delivered(l)'[i] = Byte(l, i)
         /\ \A n \in Len(Delivered(l)') + 1 .. sent'[l] :
              \E i \in 1 .. Len(line') : IsByte(line'[i], l) /\ line'[i].n = n
         /\ \A i \in 1 .. Len(line') : IsByte(line'[i], l) =>
              /\ line'[i].n \in Len(Delivered(l)') + 1 .. sent'[l]
              /\ \A j \in 1 .. i - 1 : IsByte(line'[j], l) => line'[j].n < line'[i].n
    BY <1>6, <1>7, <1>8, <1>9, <1>12
  <1> QED BY <1>10, <1>11, <1>13 DEF Stream

(* The module sends a packet. *)
LEMMA StreamPacket ==
  ASSUME Base, NEW l \in Links, Stream(l), NEW m \in Links, NEW len \in 1 .. MaxLen, Packet(m, len),
         Delivered(l)' = Delivered(l)
  PROVE  Stream(l)'
  <1> DEFINE d == Delivered(l)
             have == Len(Delivered(l))
             s == PacketOf(m, len)
  <1>1. /\ s \in Seq(Tokens) /\ Len(s) = len + 1 /\ sent[m] \in Nat /\ len \in Nat /\ len > 0
        /\ \A i \in 1 .. len + 1 : s[i] = IF i = 1 THEN Token("hdr", m, sent[m] + len, len)
                                          ELSE Token("byte", m, sent[m] + i - 1, len + 1 - i)
    BY PacketSeq DEF Base
  <1>2. \A i \in 1 .. len + 1 : /\ s[i].link = m /\ s[i].kind \in {"hdr", "byte"}
                                /\ s[i].kind = "byte" <=> i # 1
                                /\ i # 1 => s[i].n = sent[m] + i - 1
    BY <1>1 DEF Token
  <1>3. line' = line \o s
    BY DEF Packet
  <1> HIDE DEF s
  <1>4. /\ Len(line') = Len(line) + (len + 1) /\ Len(line) \in Nat
        /\ \A i \in 1 .. Len(line) : line'[i] = line[i] /\ i \in 1 .. Len(line')
        /\ \A i \in 1 .. len + 1 : Len(line) + i \in 1 .. Len(line') /\ line'[Len(line) + i] = s[i]
        /\ \A i \in 1 .. Len(line') :
             i \in 1 .. Len(line) \/ (i - Len(line) \in 1 .. len + 1 /\ line'[i] = s[i - Len(line)])
    <2>1. /\ Len(line') = Len(line) + Len(s) /\ Len(line) \in Nat
          /\ \A i \in 1 .. Len(line) : line'[i] = line[i]
          /\ \A i \in 1 .. Len(s) : Len(line) + i \in 1 .. Len(line') /\ line'[Len(line) + i] = s[i]
          /\ \A i \in 1 .. Len(line') :
               i \in 1 .. Len(line) \/ (i - Len(line) \in 1 .. Len(s) /\ line'[i] = s[i - Len(line)])
      BY <1>1, <1>3, PutLine, Lengths DEF Base
    <2>2. \A i \in 1 .. Len(line) : i \in 1 .. Len(line')
      BY <1>1, <2>1
    <2> QED BY <1>1, <2>1, <2>2
  <1>5. /\ m \in open /\ UNCHANGED <<open, live>>
        /\ sent' = [sent EXCEPT ![m] = sent[m] + len] /\ sent \in [Links -> Nat]
    BY DEF Packet, Base, TypeOK
  <1>6. have \in Nat /\ sent[l] \in Nat /\ sent'[l] = IF m = l THEN sent[l] + len ELSE sent[l]
    BY <1>5, WhatIsDelivered
  <1>7. /\ have <= sent[l] /\ \A i \in 1 .. have : d[i] = Byte(l, i)
        /\ \A n \in have + 1 .. sent[l] :
             \E i \in 1 .. Len(line) : IsByte(line[i], l) /\ line[i].n = n
        /\ \A i \in 1 .. Len(line) : IsByte(line[i], l) =>
             /\ line[i].n \in have + 1 .. sent[l]
             /\ \A j \in 1 .. i - 1 : IsByte(line[j], l) => line[j].n < line[i].n
        /\ \A i \in 1 .. Len(line) : line[i].kind = "closed" /\ line[i].link = l =>
             l \notin open /\ \A j \in i .. Len(line) : ~OfPacket(line[j], l)
        /\ l \notin live => l \notin open /\ \A i \in 1 .. Len(line) : ~OfPacket(line[i], l)
    BY DEF Stream
  <1>8. Delivered(l)' = d /\ Len(Delivered(l)') = have
    OBVIOUS
  <1> HIDE DEF d, have
  <1>9. have <= sent'[l]
    BY <1>1, <1>6, <1>7
  <1>10. ASSUME NEW n \in have + 1 .. sent'[l]
         PROVE  \E i \in 1 .. Len(line') : IsByte(line'[i], l) /\ line'[i].n = n
    <2>1. CASE n <= sent[l]
      <3>1. n \in have + 1 .. sent[l]
        BY <1>6, <2>1
      <3> QED BY <1>4, <1>7, <3>1
    <2>2. CASE ~(n <= sent[l])
      <3>1. m = l /\ n - sent[l] + 1 \in 1 .. len + 1 /\ n - sent[l] + 1 # 1
            /\ sent[l] + (n - sent[l] + 1) - 1 = n
        BY <1>1, <1>6, <2>2
      <3> DEFINE i == n - sent[l] + 1
      <3>2. m = l /\ i \in 1 .. len + 1 /\ i # 1 /\ sent[l] + i - 1 = n
        BY <3>1
      <3> HIDE DEF i
      <3>3. s[i].link = l /\ s[i].kind = "byte" /\ s[i].n = n
        BY <1>2, <3>2
      <3>4. Len(line) + i \in 1 .. Len(line') /\ line'[Len(line) + i] = s[i]
        BY <1>4, <3>2
      <3> QED BY <3>3, <3>4 DEF IsByte
    <2> QED BY <2>1, <2>2
  <1>11. ASSUME NEW i \in 1 .. Len(line'), IsByte(line'[i], l)
         PROVE  /\ line'[i].n \in have + 1 .. sent'[l]
                /\ \A j \in 1 .. i - 1 : IsByte(line'[j], l) => line'[j].n < line'[i].n
    <2>1. CASE i \in 1 .. Len(line)
      <3>1. line[i] = line'[i] /\ IsByte(line[i], l) /\ \A j \in 1 .. i - 1 : line'[j] = line[j]
        BY <1>4, <1>11, <2>1
      <3>2. line[i].n \in have + 1 .. sent[l]
        BY <1>7, <2>1, <3>1
      <3>3. line[i].n \in have + 1 .. sent'[l]
        BY <1>1, <1>6, <3>2
      <3> QED BY <1>7, <2>1, <3>1, <3>3
    <2>2. CASE i \notin 1 .. Len(line)
      <3> DEFINE k == i - Len(line)
      <3>1. k \in 1 .. len + 1 /\ line'[i] = s[k]
        BY <1>4, <2>2
      <3>2. i = Len(line) + k
        BY <1>4
      <3> HIDE DEF k
      <3>3. m = l /\ k # 1 /\ line'[i].n = sent[l] + k - 1
        BY <1>2, <1>11, <3>1 DEF IsByte
      <3>4. line'[i].n \in have + 1 .. sent'[l] /\ line'[i].n > sent[l]
        BY <1>1, <1>6, <1>7, <3>1, <3>3
      <3>5. ASSUME NEW j \in 1 .. i - 1, IsByte(line'[j], l) PROVE line'[j].n < line'[i].n
        <4>1. CASE j \in 1 .. Len(line)
          <5>1. line'[j] = line[j] /\ line[j].n \in have + 1 .. sent[l]
            BY <1>4, <1>7, <3>5, <4>1
          <5>2. line[j].n <= sent[l] /\ line[j].n \in Int /\ sent[l] \in Int
            BY <1>6, <5>1
          <5>3. line'[i].n > sent[l] /\ line'[i].n \in Int
            BY <3>4, <1>6
          <5> QED BY <5>1, <5>2, <5>3
        <4>2. CASE j \notin 1 .. Len(line)
          <5> DEFINE h == j - Len(line)
          <5>1. j \in 1 .. Len(line')
            BY <1>1, <1>4, <3>1, <3>2
          <5>2. h \in 1 .. len + 1 /\ line'[j] = s[h]
            BY <1>4, <4>2, <5>1
          <5>3. h < k
            BY <1>1, <1>4, <3>1, <3>2
          <5> HIDE DEF h
          <5>4. line'[j].n = sent[l] + h - 1
            BY <1>2, <3>3, <3>5, <5>2 DEF IsByte
          <5> QED BY <1>6, <3>1, <3>3, <5>2, <5>3, <5>4
        <4> QED BY <4>1, <4>2
      <3> QED BY <3>4, <3>5
    <2> QED BY <2>1, <2>2
  <1>12. ASSUME l \notin open, NEW i \in 1 .. Len(line'), i \notin 1 .. Len(line)
         PROVE  ~OfPacket(line'[i], l) /\ line'[i].kind # "closed"
    <2>1. i - Len(line) \in 1 .. len + 1 /\ line'[i] = s[i - Len(line)] /\ m # l
      BY <1>4, <1>5, <1>12
    <2> QED BY <1>2, <2>1 DEF OfPacket
  <1>13. ASSUME NEW i \in 1 .. Len(line'), line'[i].kind = "closed", line'[i].link = l
         PROVE  l \notin open /\ \A j \in i .. Len(line') : ~OfPacket(line'[j], l)
    <2>1. i \in 1 .. Len(line)
      <3>1. ASSUME i \notin 1 .. Len(line) PROVE FALSE
        <4>1. i - Len(line) \in 1 .. len + 1 /\ line'[i] = s[i - Len(line)]
          BY <1>4, <3>1
        <4> QED BY <1>2, <1>13, <4>1
      <3> QED BY <3>1
    <2>2. l \notin open /\ \A j \in i .. Len(line) : ~OfPacket(line[j], l)
      BY <1>4, <1>7, <1>13, <2>1
    <2>3. ASSUME NEW j \in i .. Len(line') PROVE ~OfPacket(line'[j], l)
      <3>1. j \in 1 .. Len(line')
        BY <1>4
      <3>2. CASE j \in 1 .. Len(line)
        <4>1. j \in i .. Len(line) /\ line'[j] = line[j]
          BY <1>4, <3>2
        <4> QED BY <2>2, <4>1
      <3>3. CASE j \notin 1 .. Len(line)
        BY <1>12, <2>2, <3>1, <3>3
      <3> QED BY <3>2, <3>3
    <2> QED BY <2>2, <2>3
  <1>14. ASSUME l \notin live'
         PROVE  l \notin open /\ \A i \in 1 .. Len(line') : ~OfPacket(line'[i], l)
    <2>1. l \notin open /\ \A i \in 1 .. Len(line) : ~OfPacket(line[i], l)
      BY <1>5, <1>7, <1>14
    <2>2. ASSUME NEW i \in 1 .. Len(line') PROVE ~OfPacket(line'[i], l)
      <3>1. CASE i \in 1 .. Len(line)
        BY <1>4, <2>1, <3>1
      <3>2. CASE i \notin 1 .. Len(line)
        BY <1>12, <2>1, <3>2
      <3> QED BY <3>1, <3>2
    <2> QED BY <2>1, <2>2
  <1>15. open' = open
    BY <1>5
  <1>16. /\ Len(Delivered(l)') <= sent'[l] /\ \A i \in 1 .. Len(Delivered(l)') : Delivered(l)'[i] = Byte(l, i)
         /\ \A n \in Len(Delivered(l)') + 1 .. sent'[l] :
              \E i \in 1 .. Len(line') : IsByte(line'[i], l) /\ line'[i].n = n
         /\ \A i \in 1 .. Len(line') : IsByte(line'[i], l) =>
              /\ line'[i].n \in Len(Delivered(l)') + 1 .. sent'[l]
              /\ \A j \in 1 .. i - 1 : IsByte(line'[j], l) => line'[j].n < line'[i].n
    BY <1>7, <1>8, <1>9, <1>10, <1>11
  <1> QED BY <1>13, <1>14, <1>15, <1>16 DEF Stream

(* A connection is closed by its peer. *)
LEMMA StreamCloses ==
  ASSUME Base, NEW l \in Links, Stream(l), NEW m \in Links, PeerCloses(m),
         Delivered(l)' = Delivered(l)
  PROVE  Stream(l)'
  <1> DEFINE d == Delivered(l)
             have == Len(Delivered(l))
             t == Token("closed", m, 0, 0)
  <1>1. t \in Tokens /\ t.kind = "closed" /\ t.link = m
    BY TokenIn DEF Token
  <1>2. open' = open \ {m} /\ UNCHANGED <<sent, live>>
    BY DEF PeerCloses
  <1>3. line' = Append(line, t)
    BY DEF PeerCloses
  <1> HIDE DEF t
  <1>4. /\ Len(line') = Len(line) + 1 /\ Len(line) \in Nat /\ line'[Len(line) + 1] = t
        /\ \A i \in 1 .. Len(line) : line'[i] = line[i]
    BY <1>1, <1>3, AppendProperties, Lengths DEF Base
  <1>5. \A i \in 1 .. Len(line') : i \in 1 .. Len(line) \/ (i = Len(line) + 1 /\ line'[i] = t)
    BY <1>4
  <1>6. ~IsByte(t, l) /\ ~OfPacket(t, l)
    BY <1>1 DEF IsByte, OfPacket
  <1>7. /\ have <= sent[l] /\ \A i \in 1 .. have : d[i] = Byte(l, i)
        /\ \A n \in have + 1 .. sent[l] :
             \E i \in 1 .. Len(line) : IsByte(line[i], l) /\ line[i].n = n
        /\ \A i \in 1 .. Len(line) : IsByte(line[i], l) =>
             /\ line[i].n \in have + 1 .. sent[l]
             /\ \A j \in 1 .. i - 1 : IsByte(line[j], l) => line[j].n < line[i].n
        /\ \A i \in 1 .. Len(line) : line[i].kind = "closed" /\ line[i].link = l =>
             l \notin open /\ \A j \in i .. Len(line) : ~OfPacket(line[j], l)
        /\ l \notin live => l \notin open /\ \A i \in 1 .. Len(line) : ~OfPacket(line[i], l)
    BY DEF Stream
  <1>8. Delivered(l)' = d /\ Len(Delivered(l)') = have
    OBVIOUS
  <1> HIDE DEF d, have
  <1>9. ASSUME NEW n \in have + 1 .. sent[l]
        PROVE  \E i \in 1 .. Len(line') : IsByte(line'[i], l) /\ line'[i].n = n
    BY <1>4, <1>7
  <1>10. ASSUME NEW i \in 1 .. Len(line'), IsByte(line'[i], l)
         PROVE  /\ line'[i].n \in have + 1 .. sent[l]
                /\ \A j \in 1 .. i - 1 : IsByte(line'[j], l) => line'[j].n < line'[i].n
    <2>1. i \in 1 .. Len(line) /\ line'[i] = line[i]
      BY <1>4, <1>5, <1>6, <1>10
    <2>2. \A j \in 1 .. i - 1 : line'[j] = line[j]
      BY <1>4, <2>1
    <2> QED BY <1>7, <1>10, <2>1, <2>2
  <1>11. ASSUME NEW i \in 1 .. Len(line'), line'[i].kind = "closed", line'[i].link = l
         PROVE  l \notin open' /\ \A j \in i .. Len(line') : ~OfPacket(line'[j], l)
    <2>1. CASE i \in 1 .. Len(line)
      <3>1. l \notin open /\ \A j \in i .. Len(line) : ~OfPacket(line[j], l)
        BY <1>4, <1>7, <1>11, <2>1
      <3>2. ASSUME NEW j \in i .. Len(line') PROVE ~OfPacket(line'[j], l)
        <4>1. (j \in i .. Len(line) /\ line'[j] = line[j]) \/ line'[j] = t
          BY <1>4, <1>5, <2>1
        <4> QED BY <1>6, <3>1, <4>1
      <3> QED BY <1>2, <3>1, <3>2
    <2>2. CASE i = Len(line) + 1 /\ line'[i] = t
      <3>1. \A j \in i .. Len(line') : j = i
        BY <1>4, <2>2
      <3> QED BY <1>1, <1>2, <1>6, <1>11, <2>2, <3>1
    <2> QED BY <1>5, <2>1, <2>2
  <1>12. ASSUME l \notin live'
         PROVE  l \notin open' /\ \A i \in 1 .. Len(line') : ~OfPacket(line'[i], l)
    BY <1>2, <1>4, <1>5, <1>6, <1>7, <1>12
  <1>13. sent' = sent
    BY <1>2
  <1> QED BY <1>7, <1>8, <1>9, <1>10, <1>11, <1>12, <1>13 DEF Stream

LEMMA ThenDelivered ==
  (Base => \A l \in Links :
     /\ Delivered(l) \in Seq(Int \X Int) /\ Len(Delivered(l)) \in Nat
     /\ got[l] \in Seq(Int \X Int)
     /\ pc \notin {"closing", "notice", "fill"} => Delivered(l) = got[l]
     /\ pc \in {"closing", "notice"} =>
          Delivered(l) = IF call.sock = l THEN Append(got[l], val) ELSE got[l]
     /\ pc = "fill" => Delivered(l) = IF call.sock = l THEN got[l] \o buf ELSE got[l])'
  BY WhatIsDelivered, PTL

LEMMA StreamingSame ==
  ASSUME Streaming, UNCHANGED <<line, sent, open, lost>>, live \subseteq live',
         \A l \in Links : Delivered(l)' = Delivered(l)
  PROVE  Streaming'
  <1> SUFFICES ASSUME ~lost, NEW l \in Links PROVE Stream(l)'
    BY DEF Streaming
  <1>1. Stream(l) /\ Delivered(l)' = Delivered(l)
    BY DEF Streaming
  <1> QED BY <1>1, StreamSame

(* Where a call holds nothing. *)
LEMMA NothingHeld ==
  ASSUME Base, Base', pc \notin {"closing", "notice", "fill"}, pc' \notin {"closing", "notice", "fill"},
         got' = got
  PROVE  \A l \in Links : Delivered(l)' = Delivered(l)
  BY WhatIsDelivered, ThenDelivered

(* A sketch that gives no commands is never in one. *)
LEMMA NoCommand ==
  ASSUME Drains, Base
  PROVE  pc \notin {"cmd", "answer"} /\ ~asked
  <1>1. pc # "idle" => call.op \notin {"write", "stop", "send", "status"}
    BY DEF Drains, KeepsStep, Base, Calling
  <1> QED BY <1>1 DEF Base, Calling, AnswersOnce

(* While a packet is being read the line is not empty. *)
LEMMA MoreToCome ==
  ASSUME Framing, ~lost, pc # "answer", bufPos > 0
  PROVE  line # <<>>
  BY DEF Framing, InStep

(* What cannot happen while the driver is in step: to wait for what is not *)
(* there.                                                                  *)
LEMMA NothingAwaited ==
  ASSUME Base, Framing, ~lost
  PROVE  ~(DataTimeout \/ NoticeSkip \/ NoticeTimeout \/ BufTimeout)
  <1>1. /\ pc = "data" => bufPos > 0
        /\ want > 0 => bufPos > 0
    <2>1. want > 0 => bufPos > 0
      BY BoundsAssumption DEF Base, TypeOK
    <2> QED BY <2>1 DEF Base, Calling
  <1>2. ~DataTimeout /\ ~BufTimeout
    BY <1>1, MoreToCome DEF DataTimeout, BufTimeout, Silent
  <1>3. pc = "notice" => line # <<>> /\ here > 0 /\ line[1].kind = "closed" /\ Head(line) = line[1]
    BY AtHead, Lengths DEF Base, Framing, IsNotice
  <1>4. ~NoticeSkip /\ ~NoticeTimeout
    BY <1>3 DEF NoticeSkip, NoticeTimeout, Silent
  <1> QED BY <1>2, <1>4

(* Nor, when it gives no command and reads no link 0, one of these. *)
LEMMA NeverInStep ==
  ASSUME Drains, Base, Framing, ~lost
  PROVE  ~ \/ DataMismatch \/ DataTimeout \/ NoticeSkip \/ NoticeTimeout \/ BufMismatch
           \/ BufTimeout \/ CmdSend \/ CmdSkip \/ CmdAnswered \/ CmdTimeout \/ Answer
  <1>1. pc \in {"data", "buf"} => connId = call.sock
    BY CallTypes DEF Framing, Placed, Drains
  <1>2. ~DataMismatch /\ ~BufMismatch
    BY <1>1 DEF DataMismatch, BufMismatch
  <1>3. ~(CmdSend \/ CmdSkip \/ CmdAnswered \/ CmdTimeout \/ Answer)
    BY NoCommand DEF CmdSend, CmdSkip, CmdAnswered, CmdTimeout, Answer
  <1> QED BY <1>2, <1>3, NothingAwaited

(* What a call that reads byte by byte holds becomes what it returned. *)
LEMMA HeldIsGot ==
  ASSUME Base, Base', pc \in {"closing", "notice"}, pc' \in {"idle", "avail"}, call.sock \in Links,
         got' = [got EXCEPT ![call.sock] = Append(@, val)]
  PROVE  \A l \in Links : Delivered(l)' = Delivered(l)
  <1>1. got \in [Links -> Seq(Int \X Int)]
    BY DEF Base, TypeOK
  <1>2. \A l \in Links : got'[l] = IF call.sock = l THEN Append(got[l], val) ELSE got[l]
    BY <1>1
  <1>3. \A l \in Links : Delivered(l)' = got'[l]
    BY ThenDelivered
  <1>4. \A l \in Links : Delivered(l) = IF call.sock = l THEN Append(got[l], val) ELSE got[l]
    BY WhatIsDelivered
  <1>5. ASSUME NEW l \in Links PROVE Delivered(l)' = Delivered(l)
    <2>1. Delivered(l)' = got'[l]
      BY <1>3
    <2>2. got'[l] = IF call.sock = l THEN Append(got[l], val) ELSE got[l]
      BY <1>2
    <2>3. Delivered(l) = IF call.sock = l THEN Append(got[l], val) ELSE got[l]
      BY <1>4
    <2> QED BY <2>1, <2>2, <2>3
  <1> QED BY <1>5

(* DataByte and BufByte give the call the character at the head. *)
LEMMA Reads ==
  ASSUME Base, Base', Framing, DataByte \/ BufByte
  PROVE  /\ pc \in {"data", "fill"} /\ bufPos > 0 /\ here > 0 /\ PopChar
         /\ connId = call.sock /\ call.sock \in Links /\ UNCHANGED <<sent, open, lost, live>>
         /\ \A l \in Links :
              Delivered(l)' = IF call.sock = l THEN Append(Delivered(l), HeadChar) ELSE Delivered(l)
  <1>0. /\ pc \in {"data", "fill"} => call.sock \in Links /\ connId = call.sock
        /\ pc = "data" => bufPos > 0
        /\ want > 0 => bufPos > 0
        /\ got \in [Links -> Seq(Int \X Int)] /\ buf \in Seq(Int \X Int)
    <2>1. pc \in {"data", "fill"} => call.sock \in Links
      BY CallTypes
    <2>2. pc \in {"data", "fill"} => connId = call.sock
      BY DEF Framing, Placed, DataByte, BufByte
    <2>3. want > 0 => bufPos > 0
      BY BoundsAssumption DEF Base, TypeOK
    <2> QED BY <2>1, <2>2, <2>3 DEF Base, TypeOK, Calling
  <1>1. CASE DataByte
    <2>1. /\ pc = "data" /\ here > 0 /\ PopChar /\ call.op # "peek"
          /\ UNCHANGED <<sent, open, lost, live, call>>
          /\ \/ pc' = "closing" /\ val' = HeadChar /\ got' = got
             \/ pc' \in {"idle", "avail"} /\ got' = [got EXCEPT ![call.sock] = Append(@, HeadChar)]
      BY <1>1 DEF DataByte, DataDone, Return, espVars
    <2>2. \A l \in Links : Delivered(l) = got[l]
      BY <2>1, WhatIsDelivered
    <2>3. \A l \in Links : Delivered(l)' = IF call.sock = l THEN Append(got[l], HeadChar) ELSE got[l]
      <3>1. CASE pc' = "closing" /\ val' = HeadChar /\ got' = got
        <4>1. \A l \in Links : Delivered(l)' = IF call'.sock = l THEN Append(got'[l], val') ELSE got'[l]
          BY <3>1, ThenDelivered
        <4>2. call' = call
          BY <2>1
        <4> QED BY <3>1, <4>1, <4>2
      <3>2. CASE pc' \in {"idle", "avail"} /\ got' = [got EXCEPT ![call.sock] = Append(@, HeadChar)]
        <4>1. \A l \in Links : got'[l] = IF call.sock = l THEN Append(got[l], HeadChar) ELSE got[l]
          BY <1>0, <3>2
        <4>2. \A l \in Links : Delivered(l)' = got'[l]
          BY <3>2, ThenDelivered
        <4> QED BY <4>1, <4>2
      <3> QED BY <2>1, <3>1, <3>2
    <2>4. \A l \in Links : Delivered(l)' = IF call.sock = l THEN Append(Delivered(l), HeadChar) ELSE Delivered(l)
      BY <2>2, <2>3
    <2> QED BY <1>0, <2>1, <2>4
  <1>2. CASE BufByte
    <2>1. /\ pc = "fill" /\ pc' = "fill" /\ want > 0 /\ here > 0 /\ PopChar
          /\ UNCHANGED <<sent, open, lost, live, got, call>> /\ buf' = Append(buf, HeadChar)
      BY <1>2 DEF BufByte, espVars
    <2>2. HeadChar \in Int \X Int
      BY <2>1, PopCharLine DEF Base
    <2>3. ASSUME NEW l \in Links
          PROVE  Delivered(l)' = IF call.sock = l THEN Append(Delivered(l), HeadChar) ELSE Delivered(l)
      <3>1. Delivered(l) = IF call.sock = l THEN got[l] \o buf ELSE got[l]
        BY <2>1, WhatIsDelivered
      <3>2. Delivered(l)' = IF call.sock = l THEN got[l] \o Append(buf, HeadChar) ELSE got[l]
        <4>1. Delivered(l)' = IF call'.sock = l THEN got'[l] \o buf' ELSE got'[l]
          BY <2>1, ThenDelivered
        <4> QED BY <2>1, <4>1
      <3>3. Append(got[l] \o buf, HeadChar) = got[l] \o Append(buf, HeadChar)
        <4>1. got[l] \in Seq(Int \X Int)
          BY <1>0
        <4> QED BY <1>0, <2>2, <4>1, AppendConcat
      <3> QED BY <3>1, <3>2, <3>3
    <2> QED BY <1>0, <2>1, <2>3
  <1> QED BY <1>1, <1>2

(* Every other step delivers nothing. *)
LEMMA Unread ==
  ASSUME Base, Base', Framing, ~lost, [Next]_vars, ~DataByte, ~BufByte, ~DataMismatch
  PROVE  \A l \in Links : Delivered(l)' = Delivered(l)
  <1>0. got \in [Links -> Seq(Int \X Int)]
    BY DEF Base, TypeOK
  <1>1. CASE Sketch \/ DataPeek
    <2>1. pc \in {"idle", "data"} /\ pc' \in {"cmd", "avail", "idle"} /\ got' = got
      BY <1>1 DEF Sketch, Call, Accept, DataPeek, DataDone, Return
    <2> QED BY <2>1, NothingHeld
  <1>2. CASE Module \/ Arrive \/ UNCHANGED vars \/ (\E size \in 1 .. MaxLen : BufStart(size))
    <2>1. /\ UNCHANGED <<got, call, val, buf>>
          /\ pc' \in {"closing", "notice"} <=> pc \in {"closing", "notice"}
      BY <1>2 DEF Module, PeerCloses, Packet, Answer, Arrive, vars, BufStart, locals
    <2> QED BY <2>1 DEF Delivered
  <1>3. CASE AvailBuffered \/ AvailNothing \/ FindSkip \/ FindHeader \/ FindTimeout
    <2>1. pc \in {"avail", "find"} /\ pc' \in {"idle", "cmd", "data", "buf", "find"} /\ got' = got
      BY <1>3 DEF AvailBuffered, AvailNothing, FindSkip, FindHeader, FindTimeout, AvailDone, Return
    <2> QED BY <2>1, NothingHeld
  <1>4. CASE NotClosing \/ NoticeFound
    <2>1. call.sock \in Links /\ call.op # "peek" /\ pc \in {"closing", "notice"}
      BY <1>4, CallTypes DEF NotClosing, NoticeFound, Base, Calling
    <2>2. pc' \in {"idle", "avail"} /\ got' = [got EXCEPT ![call.sock] = Append(@, val)]
      BY <1>4, <2>1 DEF NotClosing, NoticeFound, CloseDone, DataDone, Return
    <2> QED BY <2>1, <2>2, HeldIsGot
  <1>5. CASE IsClosing
    <2>1. pc = "closing" /\ pc' = "notice" /\ UNCHANGED <<got, call, val, buf>>
      BY <1>5 DEF IsClosing, locals
    <2> QED BY <2>1 DEF Delivered
  <1>6. CASE BufDone
    <2>1. pc = "fill" /\ pc' = "idle" /\ got' = [got EXCEPT ![call.sock] = @ \o buf]
      BY <1>6 DEF BufDone, Return
    <2>2. ASSUME NEW l \in Links PROVE Delivered(l)' = Delivered(l)
      <3>1. Delivered(l) = IF call.sock = l THEN got[l] \o buf ELSE got[l]
        BY <2>1, WhatIsDelivered
      <3>2. Delivered(l)' = got'[l]
        BY <2>1, ThenDelivered
      <3>3. got'[l] = IF call.sock = l THEN got[l] \o buf ELSE got[l]
        BY <1>0, <2>1
      <3> QED BY <3>1, <3>2, <3>3
    <2> QED BY <2>2
  <1>7. CASE BufMismatch \/ CmdSend \/ CmdSkip \/ CmdAnswered \/ CmdTimeout
    <2>1. pc \in {"buf", "cmd", "answer"} /\ pc' \in {"idle", "cmd", "answer"} /\ got' = got
      BY <1>7 DEF BufMismatch, CmdSend, CmdSkip, CmdAnswered, CmdTimeout, CmdDone, Return
    <2> QED BY <2>1, NothingHeld
  <1> QED BY <1>1, <1>2, <1>3, <1>4, <1>5, <1>6, <1>7, NothingAwaited DEF Next, Driver

(* A byte goes from the line to the call that reads its link. *)
LEMMA StreamingByte ==
  ASSUME Base, Framing, Streaming, pc \in {"data", "fill"}, bufPos > 0, here > 0, PopChar,
         connId = call.sock, call.sock \in Links, UNCHANGED <<sent, open, lost, live>>,
         ~lost => \A l \in Links :
           Delivered(l)' = IF call.sock = l THEN Append(Delivered(l), HeadChar) ELSE Delivered(l)
  PROVE  Streaming'
  <1> SUFFICES ASSUME ~lost, NEW l \in Links PROVE Stream(l)'
    BY DEF Streaming
  <1>1. /\ Head(line) = line[1] /\ line[1].kind = "byte" /\ line[1].link = call.sock
    BY AtHead
  <1>2. Pop /\ HeadChar = Byte(call.sock, line[1].n)
    BY <1>1 DEF PopChar, HeadChar
  <1>3. Stream(l)
    BY DEF Streaming
  <1>4. CASE l = call.sock
    <2>1. Delivered(l)' = Append(Delivered(l), Byte(l, line[1].n)) /\ IsByte(line[1], l)
      BY <1>1, <1>2, <1>4 DEF IsByte
    <2> QED BY <1>2, <1>3, <2>1, StreamByte
  <1>5. CASE l # call.sock
    <2>1. Delivered(l)' = Delivered(l) /\ ~IsByte(line[1], l)
      BY <1>1, <1>5 DEF IsByte
    <2> QED BY <1>2, <1>3, <2>1, StreamPop
  <1> QED BY <1>4, <1>5

(* What the availability of a packet changes of the streams is nothing: the*)
(* client it makes, or finds, for a link that has data is there.           *)
LEMMA StillLive ==
  ASSUME Drains, Base, Framing, Streaming, ~lost,
         AvailBuffered \/ AvailNothing \/ FindSkip \/ FindHeader \/ FindTimeout
  PROVE  live' = live
  <1>1. CASE AvailNothing \/ FindSkip \/ FindTimeout
    BY <1>1 DEF AvailNothing, FindSkip, FindTimeout, AvailDone
  <1>2. CASE AvailBuffered
    <2>1. pc = "avail" /\ bufPos > 0 /\ AvailDone(bufPos, connId)
      BY <1>2 DEF AvailBuffered, Buffered
    <2>2. connId = call.sock /\ connId \in live
      <3>1. connId = call.sock /\ connId \in Links /\ bufPos \in Nat
        BY <2>1, CallTypes DEF Framing, Placed, Base, Calling
      <3>2. line # <<>> /\ Len(line) \in Nat /\ 1 \in 1 .. Len(line)
        BY <2>1, MoreToCome, Lengths DEF Base
      <3>3. Follows(connId, bufPos, line[1])
        BY <2>1, <3>2 DEF Framing, InStep
      <3>4. OfPacket(line[1], connId)
        BY <2>1, <3>3 DEF Follows, OfPacket
      <3> QED BY <3>1, <3>2, <3>4 DEF Streaming, Stream
    <2> QED BY <2>1, <2>2 DEF AvailDone
  <1>3. CASE FindHeader
    <2> DEFINE n == IF Head(line).link = call.sock \/ call.sock = 0 THEN Head(line).rest ELSE 0
    <2>1. pc \in {"avail", "find"} /\ here > 0 /\ Head(line).kind = "hdr" /\ AvailDone(n, Head(line).link)
      BY <1>3 DEF FindHeader
    <2>2. Head(line) = line[1] /\ line[1] \in Tokens /\ 1 \in 1 .. Len(line)
      BY <2>1, AtHead, Lengths DEF Base
    <2>3. OfPacket(line[1], line[1].link) /\ line[1].link \in Links
      BY <2>1, <2>2, Fields DEF OfPacket
    <2>4. Head(line).link \in live
      BY <2>2, <2>3 DEF Streaming, Stream
    <2> HIDE DEF n
    <2> QED BY <2>1, <2>4 DEF AvailDone
  <1> QED BY <1>1, <1>2, <1>3

LEMMA InitStreaming == Init => Streaming
  <1> SUFFICES ASSUME Init, NEW l \in Links PROVE Stream(l)
    BY DEF Streaming
  <1>1. Delivered(l) = <<>>
    <2>1. Delivered(l) = got[l]
      BY InitBase, WhatIsDelivered DEF Init
    <2> QED BY <2>1 DEF Init
  <1>2. line = <<>> /\ sent[l] = 0 /\ l \in live /\ Len(<<>>) = 0
    BY DEF Init
  <1>3. /\ \A i \in 1 .. Len(line) : FALSE
        /\ \A i \in 1 .. Len(Delivered(l)) : FALSE
        /\ \A n \in Len(Delivered(l)) + 1 .. sent[l] : FALSE
        /\ Len(Delivered(l)) <= sent[l]
    BY <1>1, <1>2
  <1> QED BY <1>2, <1>3 DEF Stream

(* What is lost stays lost. *)
LEMMA LostStays ==
  ASSUME [Next]_vars
  PROVE  lost' = lost \/ lost' = TRUE
  <1>1. CASE Sketch
    BY <1>1 DEF Sketch, Call, Accept, espVars
  <1>2. CASE Module
    BY <1>2 DEF Module, PeerCloses, Packet, Answer
  <1>3. CASE Arrive \/ UNCHANGED vars
    BY <1>3 DEF Arrive, vars, espVars
  <1>4. CASE Driver
    BY <1>4 DEF Driver, AvailBuffered, AvailNothing, FindSkip, FindHeader, FindTimeout,
       DataMismatch, DataPeek, DataByte, DataTimeout, NotClosing, IsClosing, NoticeSkip, NoticeFound,
       NoticeTimeout, BufMismatch, BufStart, BufByte, BufDone, BufTimeout, CmdSend, CmdSkip,
       CmdAnswered, CmdTimeout, espVars
  <1> QED BY <1>1, <1>2, <1>3, <1>4 DEF Next

LEMMA NextStreaming ==
  ASSUME Drains, Base, Base', Framing, Streaming, [Next]_vars
  PROVE  Streaming'
  <1> SUFFICES ASSUME ~lost, lost' = lost
               PROVE  Streaming'
    BY LostStays DEF Streaming
  <1>2. CASE DataByte \/ BufByte
    BY <1>2, Reads, StreamingByte
  <1>3. CASE ~(DataByte \/ BufByte)
    <2>1. \A l \in Links : Delivered(l)' = Delivered(l)
      BY <1>3, Unread, NeverInStep
    <2>2. CASE Module
      <3> SUFFICES ASSUME NEW l \in Links PROVE Stream(l)'
        BY DEF Streaming
      <3>1. Stream(l) /\ Delivered(l)' = Delivered(l)
        BY <2>1 DEF Streaming
      <3>2. ~Answer
        BY NeverInStep
      <3> QED BY <2>2, <3>1, <3>2, StreamCloses, StreamPacket DEF Module
    <2>3. CASE FindSkip \/ FindHeader \/ NoticeFound
      <3>1. here > 0 /\ Pop /\ UNCHANGED <<sent, open>> /\ pc \in {"avail", "find", "notice"}
        BY <2>3 DEF FindSkip, FindHeader, NoticeFound, espVars
      <3>2. Head(line) = line[1] /\ Len(line) \in Nat /\ Len(line) > 0
        BY <3>1, AtHead, Lengths DEF Base
      <3>3. line[1].kind # "byte"
        <4>1. CASE FindHeader
          BY <3>2, <4>1 DEF FindHeader
        <4>2. CASE FindSkip
          <5>1. ~(bufPos > 0)
            BY <4>2, CallTypes DEF FindSkip, Framing, Placed, Buffered
          <5> QED BY <3>1, <5>1, AtHead
        <4>3. CASE NoticeFound
          BY <4>3 DEF NoticeFound, Framing, IsNotice
        <4> QED BY <2>3, <4>1, <4>2, <4>3
      <3> SUFFICES ASSUME NEW l \in Links PROVE Stream(l)'
        BY DEF Streaming
      <3>4. Stream(l) /\ Delivered(l)' = Delivered(l)
        BY <2>1 DEF Streaming
      <3>5. ASSUME l \notin live'
            PROVE  l \notin live \/ (l \notin open /\ \A i \in 1 .. Len(line) : ~OfPacket(line[i], l))
        <4>1. CASE FindSkip \/ FindHeader
          BY <3>5, <4>1, StillLive
        <4>2. CASE NoticeFound
          <5>1. pc = "notice" /\ (l # call.sock => l \notin live)
            BY <3>5, <4>2 DEF NoticeFound, CloseDone
          <5>2. line[1].kind = "closed" /\ line[1].link = call.sock /\ 1 \in 1 .. Len(line)
            BY <3>2, <5>1 DEF Framing, IsNotice
          <5> QED BY <3>4, <5>1, <5>2 DEF Stream
        <4> QED BY <2>3, <4>1, <4>2
      <3> QED BY <3>1, <3>3, <3>4, <3>5, StreamPop DEF IsByte
    <2>4. CASE ~(Module \/ FindSkip \/ FindHeader \/ NoticeFound)
      <3>1. UNCHANGED <<line, sent, open>> /\ live \subseteq live'
        <4>1. CASE AvailBuffered \/ AvailNothing \/ FindTimeout
          BY <4>1, StillLive DEF AvailBuffered, AvailNothing, FindTimeout, lineVars, espVars
        <4>2. CASE DataPeek \/ NotClosing \/ IsClosing \/ BufDone \/ (\E size \in 1 .. MaxLen : BufStart(size))
          BY <4>2 DEF DataPeek, NotClosing, IsClosing, BufDone, BufStart, lineVars, espVars
        <4>3. CASE Sketch \/ Arrive \/ UNCHANGED vars
          BY <4>3 DEF Sketch, Call, Accept, Arrive, vars, lineVars, espVars
        <4> QED BY <1>3, <2>4, <4>1, <4>2, <4>3, NeverInStep DEF Next, Driver
      <3> QED BY <2>1, <3>1, StreamingSame
    <2> QED BY <2>2, <2>3, <2>4
  <1> QED BY <1>2, <1>3

LEMMA StreamingHolds ==
  ASSUME Drains
  PROVE  Spec => []Streaming
  <1>1. Init => Streaming
    BY InitStreaming
  <1>2. Base /\ Base' /\ Framing /\ Streaming /\ [Next]_vars => Streaming'
    BY NextStreaming
  <1>3. KeepsStep
    BY DEF Drains
  <1>4. Spec => []Framing
    BY <1>3, FramingHolds
  <1> QED BY <1>1, <1>2, <1>4, BaseInvariance, PTL DEF Spec

(* What the sketch reads of a link is what its peer sent, each byte once   *)
(* and in order, and the rest is still on the line, whatever the packets of*)
(* the other links in between: for every sketch that reads its packets to  *)
(* the end and gives no command, while the UART loses nothing (read, flush *)
(* and read(buf) of the client, getData, getDataBuf).                      *)
THEOREM EveryByteOnce ==
  ASSUME Drains
  PROVE  Spec => []ExactlyOnce
  <1>1. Streaming => ExactlyOnce
    <2> SUFFICES ASSUME Streaming, ~lost, NEW l \in Links
                 PROVE  /\ \A i \in 1 .. Len(Delivered(l)) : Delivered(l)[i] = Byte(l, i)
                        /\ \A n \in Len(Delivered(l)) + 1 .. sent[l] :
                             \E i \in 1 .. Len(line) :
                               line[i].kind = "byte" /\ line[i].link = l /\ line[i].n = n
      BY DEF ExactlyOnce
    <2>1. Stream(l)
      BY DEF Streaming
    <2> QED BY <2>1 DEF Stream, IsByte
  <1> QED BY <1>1, StreamingHolds, PTL

(* The inductive invariant that the runs check. *)
THEOREM InStepAndComplete ==
  ASSUME Drains
  PROVE  Spec => []Delivering
  <1>1. KeepsStep
    BY DEF Drains
  <1>2. Spec => []Framing
    BY <1>1, FramingHolds
  <1> QED BY <1>2, BaseInvariance, StreamingHolds, PTL DEF Delivering

-----------------------------------------------------------------------------
(* The driver implements the streams.                                      *)

LEMMA InitStreams == Init => LS!Init
  <1> SUFFICES ASSUME Init PROVE LS!Init
    OBVIOUS
  <1>1. Base
    BY InitBase
  <1>2. \A l \in Links : Delivered(l) = <<>>
    BY <1>1, WhatIsDelivered DEF Init
  <1>3. [l \in Links |-> Delivered(l)] = [l \in Links |-> <<>>]
    BY <1>2
  <1> QED BY <1>3 DEF Init, LS!Init

(* A step that leaves the peers, the clients and what was delivered alone. *)
LEMMA Stutters ==
  ASSUME UNCHANGED <<open, sent, live>>, \A l \in Links : Delivered(l)' = Delivered(l)
  PROVE  UNCHANGED LS!vars
  BY DEF LS!vars

LEMMA StreamsModule ==
  ASSUME Module, ~Answer, \A l \in Links : Delivered(l)' = Delivered(l)
  PROVE  LS!Next
  <1>1. [l \in Links |-> Delivered(l)]' = [l \in Links |-> Delivered(l)]
    OBVIOUS
  <1>2. ASSUME NEW l \in Links, PeerCloses(l) PROVE LS!PeerCloses(l)
    BY <1>1, <1>2 DEF PeerCloses, LS!PeerCloses
  <1>3. ASSUME NEW l \in Links, NEW n \in 1 .. MaxLen, Packet(l, n) PROVE LS!Send(l, n)
    BY <1>1, <1>3 DEF Packet, LS!Send
  <1> QED BY <1>2, <1>3 DEF Module, LS!Next

LEMMA StreamsByte ==
  ASSUME Base, Framing, Streaming, ~lost, pc \in {"data", "fill"}, bufPos > 0, here > 0, PopChar,
         connId = call.sock, call.sock \in Links, UNCHANGED <<sent, open, lost, live>>,
         \A l \in Links :
           Delivered(l)' = IF call.sock = l THEN Append(Delivered(l), HeadChar) ELSE Delivered(l)
  PROVE  LS!Next
  <1> DEFINE l == call.sock
  <1>1. Head(line) = line[1] /\ line[1].kind = "byte" /\ line[1].link = l
    BY AtHead
  <1>2. line # <<>> /\ Len(line) \in Nat /\ 1 \in 1 .. Len(line)
    BY Lengths DEF Base
  <1>3. line[1].n = Len(Delivered(l)) + 1 /\ line[1].n <= sent[l] /\ sent[l] \in Nat
    BY <1>1, <1>2, NextByte DEF Streaming, IsByte
  <1>4. HeadChar = <<l, Len(Delivered(l)) + 1>>
    BY <1>1, <1>3 DEF HeadChar, Byte
  <1>5. Len(Delivered(l)) \in Nat
    BY WhatIsDelivered
  <1>6. Len(Delivered(l)) < sent[l]
    BY <1>3, <1>5
  <1>7. \A m \in Links :
          Delivered(m)' = IF l = m THEN Append(Delivered(m), <<l, Len(Delivered(l)) + 1>>) ELSE Delivered(m)
    BY <1>4
  <1>8. LS!Receive(l)
    BY <1>6, <1>7 DEF LS!Receive, LS!Item
  <1> QED BY <1>8 DEF LS!Next

LEMMA StreamsNotice ==
  ASSUME Base, Framing, Streaming, ~lost, NoticeFound, \A l \in Links : Delivered(l)' = Delivered(l)
  PROVE  LS!Next \/ UNCHANGED LS!vars
  <1> DEFINE l == call.sock
  <1>1. /\ pc = "notice" /\ live' = live \ ({l} \ UdpLinks) /\ UNCHANGED <<sent, open>>
    BY DEF NoticeFound, CloseDone, espVars
  <1>2. l \in Links /\ here > 0 /\ IsNotice(line[1])
    BY <1>1, CallTypes DEF Framing
  <1>3. line # <<>> /\ Len(line) \in Nat /\ 1 \in 1 .. Len(line)
    BY <1>2, Lengths DEF Base
  <1>4. Stream(l) /\ line[1].kind = "closed" /\ line[1].link = l
    BY <1>2 DEF Streaming, IsNotice
  <1>5. l \notin open /\ \A j \in 1 .. Len(line) : ~OfPacket(line[j], l)
    BY <1>3, <1>4 DEF Stream
  <1>6. Len(Delivered(l)) = sent[l]
    <2> DEFINE have == Len(Delivered(l))
    <2>1. have \in Nat /\ sent[l] \in Nat
      BY <1>2, WhatIsDelivered DEF Base, TypeOK
    <2>2. have <= sent[l]
      BY <1>4 DEF Stream
    <2>3. ASSUME have < sent[l] PROVE FALSE
      <3>1. have + 1 \in have + 1 .. sent[l]
        BY <2>1, <2>3
      <3>2. PICK i \in 1 .. Len(line) : IsByte(line[i], l)
        BY <1>4, <3>1 DEF Stream
      <3> QED BY <1>5, <3>2 DEF IsByte, OfPacket
    <2> HIDE DEF have
    <2>4. have = sent[l]
      BY <2>1, <2>2, <2>3
    <2> QED BY <2>4 DEF have
  <1>7. CASE l \in live /\ l \notin UdpLinks
    <2>1. live' = live \ {l}
      BY <1>1, <1>7
    <2>2. LS!Release(l)
      BY <1>1, <1>2, <1>5, <1>6, <1>7, <2>1 DEF LS!Release
    <2> QED BY <1>2, <2>2 DEF LS!Next
  <1>8. CASE ~(l \in live /\ l \notin UdpLinks)
    <2>1. live' = live
      BY <1>1, <1>8
    <2> QED BY <1>1, <2>1, Stutters
  <1> QED BY <1>7, <1>8

(* Every step of the receive path is a step of the streams, or none. *)
LEMMA NextStreams ==
  ASSUME Drains, Base, Base', Framing, Streaming, ~lost, ~lost', [Next]_vars
  PROVE  LS!Next \/ UNCHANGED LS!vars
  <1>1. CASE DataByte \/ BufByte
    BY <1>1, Reads, StreamsByte
  <1>2. CASE ~(DataByte \/ BufByte)
    <2>1. \A l \in Links : Delivered(l)' = Delivered(l)
      BY <1>2, Unread, NeverInStep
    <2>2. CASE Module
      BY <2>1, <2>2, NeverInStep, StreamsModule
    <2>3. CASE NoticeFound
      BY <2>1, <2>3, StreamsNotice
    <2>4. CASE ~(Module \/ NoticeFound)
      <3>1. UNCHANGED <<open, sent, live>>
        <4>1. CASE AvailBuffered \/ AvailNothing \/ FindSkip \/ FindHeader \/ FindTimeout
          BY <4>1, StillLive DEF AvailBuffered, AvailNothing, FindSkip, FindHeader, FindTimeout, espVars
        <4>2. CASE DataPeek \/ NotClosing \/ IsClosing \/ BufDone \/ (\E size \in 1 .. MaxLen : BufStart(size))
          BY <4>2 DEF DataPeek, NotClosing, IsClosing, BufDone, BufStart, espVars
        <4>3. CASE Sketch \/ Arrive \/ UNCHANGED vars
          BY <4>3 DEF Sketch, Call, Accept, Arrive, vars, espVars
        <4> QED BY <1>2, <2>4, <4>1, <4>2, <4>3, NeverInStep DEF Next, Driver
      <3> QED BY <2>1, <3>1, Stutters
    <2> QED BY <2>2, <2>3, <2>4
  <1> QED BY <1>1, <1>2

(* The driver, which has all the links on one line, gives each of them the *)
(* stream of its own that LinkStreams describes, as long as the UART loses *)
(* nothing: a client gets the bytes of its link in order and is released   *)
(* only after its peer has closed and the last byte has been read.         *)
THEOREM StreamsImplemented ==
  ASSUME Drains
  PROVE  Spec /\ []~lost => ImplementsStreams
  <1>1. Init => LS!Init
    BY InitStreams
  <1>2. Base /\ Base' /\ Framing /\ Streaming /\ ~lost /\ ~lost' /\ [Next]_vars
          => [LS!Next]_(LS!vars)
    BY NextStreams
  <1>3. KeepsStep
    BY DEF Drains
  <1>4. Spec => []Framing
    BY <1>3, FramingHolds
  <1> QED BY <1>1, <1>2, <1>4, BaseInvariance, StreamingHolds, PTL DEF Spec, ImplementsStreams, LS!Spec

-----------------------------------------------------------------------------
(* With commands: why the packets stay whole.                              *)

(* The bytes still to come of the packet that a token belongs to. *)
InPacket(t) == t.kind \in {"hdr", "byte"}
FirstOf(t) == IF t.kind = "hdr" THEN t.n - t.rest + 1 ELSE t.n
LastOf(t) == IF t.kind = "hdr" THEN t.n ELSE t.n + t.rest

(* Where packets end, and that the tokens of a link are in order.  This    *)
(* holds of every sketch and of a UART that loses tokens.                  *)
Numbered ==
  /\ \A e \in ends : e[2] <= sent[e[1]]
  /\ \A l \in Links : sent[l] = 0 \/ Byte(l, sent[l]) \in ends
  /\ \A i \in 1 .. Len(line) :
       InPacket(line[i]) =>
         /\ UpToEnd(line[i].link, FirstOf(line[i]), LastOf(line[i]))
         /\ line[i].kind = "hdr" => StartsPacket(line[i].link, FirstOf(line[i]))
         /\ \A j \in i + 1 .. Len(line) :
              OfPacket(line[j], line[i].link) =>
                /\ FirstOf(line[i]) <= FirstOf(line[j])
                /\ line[i].kind = "byte" => FirstOf(line[i]) < FirstOf(line[j])

(* The next token goes on where the one before it stopped, and remote is   *)
(* the sender of the packet that is being read.                            *)
Connected ==
  /\ \A i \in 1 .. Len(line) - 1 : line[i].rest > 0 => LastOf(line[i + 1]) = LastOf(line[i])
  /\ bufPos > 0 => remote = Byte(connId, LastOf(line[1]))

(* What link l gets after p goes on with its packet, or begins a later one.*)
GoesOn(l, p) ==
  /\ p[2] <= sent[l]
  /\ \A i \in 1 .. Len(line) : OfPacket(line[i], l) => p[2] < FirstOf(line[i])
  /\ IF bufPos > 0 /\ connId = l
       THEN p[2] + 1 = line[1].n \/ (StartsPacket(l, line[1].n) /\ EndsPacket(p))
       ELSE EndsPacket(p)

Ordered(l) ==
  LET d == Delivered(l)
  IN  \A j \in 0 .. Len(d) : IsLast(d, Len(d), j) => GoesOn(l, ByteAt(l, d, j))

(* What a call has read, and holds or has just returned, is of the packet  *)
(* whose sender is remembered.                                             *)
Sourced ==
  /\ pc \in {"closing", "notice"} => OfRemote(call.sock, val)
  /\ \A i \in 1 .. Len(buf) : OfRemote(call.sock, buf[i])
  /\ (pc = "idle" /\ ret.sock \in Links) =>
       \A i \in Len(got[ret.sock]) - Taken + 1 .. Len(got[ret.sock]) :
         OfRemote(ret.sock, got[ret.sock][i])

(* The inductive invariant for WholePackets and RemoteIsSender.            *)
Tracing ==
  /\ Base /\ Framing /\ Numbered
  /\ ~lost => Connected /\ Sourced /\ WholePackets /\ \A l \in Links : Ordered(l)

-----------------------------------------------------------------------------
(* The tokens of the packets, for every sketch and a UART that loses them. *)

(* What is on the line after a step was on it before, in the same order,   *)
(* but for tokens of no packet.                                            *)
Thins(f) ==
  /\ f \in [1 .. Len(line') -> Int]
  /\ \A i, j \in 1 .. Len(line') : i < j => f[i] < f[j]
  /\ \A i \in 1 .. Len(line') :
       InPacket(line'[i]) => f[i] \in 1 .. Len(line) /\ line'[i] = line[f[i]]

LEMMA ThinnedAtFront ==
  ASSUME NEW k \in Nat, Len(line') \in Nat,
         \A i \in 1 .. Len(line') :
           InPacket(line'[i]) => i + k \in 1 .. Len(line) /\ line'[i] = line[i + k]
  PROVE  \E f : Thins(f)
  <1> DEFINE f == [i \in 1 .. Len(line') |-> i + k]
  <1>1. \A i \in 1 .. Len(line') : f[i] = i + k
    OBVIOUS
  <1>2. f \in [1 .. Len(line') -> Int]
    OBVIOUS
  <1> HIDE DEF f
  <1>3. \A i, j \in 1 .. Len(line') : i < j => f[i] < f[j]
    BY <1>1
  <1>4. Thins(f)
    BY <1>1, <1>2, <1>3 DEF Thins
  <1> QED BY <1>4

LEMMA ThinnedInside ==
  ASSUME NEW h \in Nat, Len(line') \in Nat,
         \A i \in 1 .. Len(line') :
           \/ i <= h /\ i \in 1 .. Len(line) /\ line'[i] = line[i]
           \/ i > h /\ i + 1 \in 1 .. Len(line) /\ line'[i] = line[i + 1]
  PROVE  \E f : Thins(f)
  <1> DEFINE f == [i \in 1 .. Len(line') |-> IF i <= h THEN i ELSE i + 1]
  <1>1. \A i \in 1 .. Len(line') : f[i] = IF i <= h THEN i ELSE i + 1
    OBVIOUS
  <1>2. f \in [1 .. Len(line') -> Int]
    OBVIOUS
  <1> HIDE DEF f
  <1>3. \A i, j \in 1 .. Len(line') : i < j => f[i] < f[j]
    BY <1>1
  <1>4. \A i \in 1 .. Len(line') : f[i] \in 1 .. Len(line) /\ line'[i] = line[f[i]]
    BY <1>1
  <1>5. Thins(f)
    BY <1>2, <1>3, <1>4 DEF Thins
  <1> QED BY <1>5

(* The numbers of a packet's tokens. *)
LEMMA FirstAndLast ==
  ASSUME NEW t \in Tokens
  PROVE  /\ FirstOf(t) \in Int /\ LastOf(t) \in Int
         /\ t.kind = "byte" => FirstOf(t) = t.n
         /\ OfPacket(t, t.link) <=> InPacket(t)
         /\ \A l : OfPacket(t, l) <=> InPacket(t) /\ t.link = l
  <1>1. t.n \in Nat /\ t.rest \in Nat
    BY Fields
  <1> QED BY <1>1 DEF FirstOf, LastOf, OfPacket, InPacket

LEMMA NumberedThinned ==
  ASSUME TypeOK, TypeOK', Numbered, NEW f, Thins(f), UNCHANGED <<sent, ends>>
  PROVE  Numbered'
  <1>1. /\ line' \in Seq(Tokens) /\ Len(line') \in Nat /\ Len(line) \in Nat
        /\ \A i \in 1 .. Len(line') : line'[i] \in Tokens
    <2>1. line' \in Seq(Tokens)
      BY DEF TypeOK
    <2> QED BY <2>1, Lengths, LenProperties, ElementOfSeq
  <1>2. ASSUME NEW i \in 1 .. Len(line'), InPacket(line'[i])
        PROVE  /\ UpToEnd(line'[i].link, FirstOf(line'[i]), LastOf(line'[i]))
               /\ line'[i].kind = "hdr" => StartsPacket(line'[i].link, FirstOf(line'[i]))
               /\ \A j \in i + 1 .. Len(line') :
                    OfPacket(line'[j], line'[i].link) =>
                      /\ FirstOf(line'[i]) <= FirstOf(line'[j])
                      /\ line'[i].kind = "byte" => FirstOf(line'[i]) < FirstOf(line'[j])
    <2>1. f[i] \in 1 .. Len(line) /\ line'[i] = line[f[i]] /\ f[i] \in Int
      BY <1>2 DEF Thins
    <2>2. /\ UpToEnd(line[f[i]].link, FirstOf(line[f[i]]), LastOf(line[f[i]]))
          /\ line[f[i]].kind = "hdr" => StartsPacket(line[f[i]].link, FirstOf(line[f[i]]))
          /\ \A j \in f[i] + 1 .. Len(line) :
               OfPacket(line[j], line[f[i]].link) =>
                 /\ FirstOf(line[f[i]]) <= FirstOf(line[j])
                 /\ line[f[i]].kind = "byte" => FirstOf(line[f[i]]) < FirstOf(line[j])
      BY <1>2, <2>1 DEF Numbered
    <2>3. ASSUME NEW j \in i + 1 .. Len(line'), OfPacket(line'[j], line'[i].link)
          PROVE  /\ FirstOf(line'[i]) <= FirstOf(line'[j])
                 /\ line'[i].kind = "byte" => FirstOf(line'[i]) < FirstOf(line'[j])
      <3>1. j \in 1 .. Len(line') /\ i < j
        BY <1>1
      <3>2. InPacket(line'[j])
        BY <2>3 DEF OfPacket, InPacket
      <3>3. f[j] \in 1 .. Len(line) /\ line'[j] = line[f[j]] /\ f[i] < f[j]
        BY <3>1, <3>2 DEF Thins
      <3>4. f[j] \in f[i] + 1 .. Len(line)
        BY <1>1, <2>1, <3>3
      <3> QED BY <2>1, <2>2, <2>3, <3>3, <3>4
    <2> QED BY <2>1, <2>2, <2>3
  <1>3. /\ \A e \in ends : e[2] <= sent[e[1]]
        /\ \A l \in Links : sent[l] = 0 \/ Byte(l, sent[l]) \in ends
    BY DEF Numbered
  <1> QED BY <1>2, <1>3 DEF Numbered, UpToEnd, StartsPacket

(* UpToEnd, of a set of last bytes. *)
Reaches(E, l, a, b) ==
  /\ Byte(l, b) \in E /\ a <= b
  /\ \A e \in E : e[1] = l /\ a <= e[2] => b <= e[2]

(* The numbers that a new packet's tokens have. *)
LEMMA PacketNumbers ==
  ASSUME TypeOK, NEW l \in Links, NEW len \in 1 .. MaxLen
  PROVE  /\ PacketOf(l, len) \in Seq(Tokens) /\ Len(PacketOf(l, len)) = len + 1
         /\ sent[l] \in Nat /\ len \in Nat /\ len > 0
         /\ \A i \in 1 .. len + 1 :
              /\ PacketOf(l, len)[i].link = l /\ InPacket(PacketOf(l, len)[i])
              /\ PacketOf(l, len)[i].kind = "byte" <=> i # 1
              /\ FirstOf(PacketOf(l, len)[i]) = IF i = 1 THEN sent[l] + 1 ELSE sent[l] + i - 1
              /\ LastOf(PacketOf(l, len)[i]) = sent[l] + len
  <1> DEFINE s == PacketOf(l, len)
  <1>1. /\ s \in Seq(Tokens) /\ Len(s) = len + 1 /\ sent[l] \in Nat /\ len \in Nat /\ len > 0
        /\ \A i \in 1 .. len + 1 : s[i] = IF i = 1 THEN Token("hdr", l, sent[l] + len, len)
                                          ELSE Token("byte", l, sent[l] + i - 1, len + 1 - i)
    BY PacketSeq
  <1> HIDE DEF s
  <1>2. ASSUME NEW i \in 1 .. len + 1
        PROVE  /\ s[i].link = l /\ InPacket(s[i]) /\ (s[i].kind = "byte" <=> i # 1)
               /\ FirstOf(s[i]) = IF i = 1 THEN sent[l] + 1 ELSE sent[l] + i - 1
               /\ LastOf(s[i]) = sent[l] + len
    <2>1. CASE i = 1
      <3>1. /\ s[i].kind = "hdr" /\ s[i].link = l /\ s[i].n = sent[l] + len /\ s[i].rest = len
        BY <1>1, <2>1 DEF Token
      <3> QED BY <1>1, <2>1, <3>1 DEF InPacket, FirstOf, LastOf
    <2>2. CASE i # 1
      <3>1. /\ s[i].kind = "byte" /\ s[i].link = l /\ s[i].n = sent[l] + i - 1 /\ s[i].rest = len + 1 - i
        BY <1>1, <2>2 DEF Token
      <3> QED BY <1>1, <2>2, <3>1 DEF InPacket, FirstOf, LastOf
    <2> QED BY <2>1, <2>2
  <1> QED BY <1>1, <1>2 DEF s

(* A new packet begins after everything that was sent of its link. *)
LEMMA NumberedPacket ==
  ASSUME Base, Numbered, NEW m \in Links, NEW len \in 1 .. MaxLen, Packet(m, len)
  PROVE  Numbered'
  <1> DEFINE s == PacketOf(m, len)
             first(i) == IF i = 1 THEN sent[m] + 1 ELSE sent[m] + i - 1
             last == sent[m] + len
  <1>1. /\ s \in Seq(Tokens) /\ Len(s) = len + 1 /\ sent[m] \in Nat /\ len \in Nat /\ len > 0
        /\ \A i \in 1 .. len + 1 :
             /\ s[i].link = m /\ InPacket(s[i]) /\ (s[i].kind = "byte" <=> i # 1)
             /\ FirstOf(s[i]) = first(i) /\ LastOf(s[i]) = last
    BY PacketNumbers DEF Base
  <1>2. line' = line \o s
    BY DEF Packet
  <1> HIDE DEF s
  <1>3. /\ Len(line') = Len(line) + (len + 1) /\ Len(line) \in Nat
        /\ \A i \in 1 .. Len(line) : line'[i] = line[i] /\ line[i] \in Tokens
        /\ \A i \in 1 .. Len(line') :
             i \in 1 .. Len(line) \/ (i - Len(line) \in 1 .. len + 1 /\ line'[i] = s[i - Len(line)])
    <2>1. /\ Len(line') = Len(line) + Len(s) /\ Len(line) \in Nat
          /\ \A i \in 1 .. Len(line) : line'[i] = line[i] /\ line[i] \in Tokens
          /\ \A i \in 1 .. Len(line') :
               i \in 1 .. Len(line) \/ (i - Len(line) \in 1 .. Len(s) /\ line'[i] = s[i - Len(line)])
      BY <1>1, <1>2, PutLine, Lengths DEF Base
    <2> QED BY <1>1, <2>1
  <1>4. /\ sent' = [sent EXCEPT ![m] = sent[m] + len] /\ sent \in [Links -> Nat]
        /\ ends' = ends \cup {Byte(m, last)} /\ ends \subseteq Links \X Nat
    BY DEF Packet, Base, TypeOK
  <1>5. \A e \in ends : e \in Links \X Nat /\ e[2] <= sent[e[1]] /\ e = Byte(e[1], e[2])
    BY <1>4 DEF Numbered, Byte
  <1>6. /\ \A l \in Links : sent'[l] = IF l = m THEN last ELSE sent[l]
        /\ \A l \in Links : sent[l] \in Nat
        /\ last \in Nat /\ last > sent[m]
    BY <1>1, <1>4
  <1>7. \A e \in ends' : e[2] <= sent'[e[1]]
    <2> SUFFICES ASSUME NEW e \in ends' PROVE e[2] <= sent'[e[1]]
      OBVIOUS
    <2>1. CASE e \in ends
      <3>1. e[1] \in Links /\ e[2] \in Nat /\ e[2] <= sent[e[1]]
        BY <1>5, <2>1
      <3>2. sent[e[1]] \in Nat /\ sent'[e[1]] = IF e[1] = m THEN last ELSE sent[e[1]]
        BY <1>6, <3>1
      <3> HIDE DEF last
      <3> QED BY <1>6, <3>1, <3>2
    <2>2. CASE e = Byte(m, last)
      BY <1>6, <2>2 DEF Byte
    <2> QED BY <1>4, <2>1, <2>2
  <1>8. \A l \in Links : sent'[l] = 0 \/ Byte(l, sent'[l]) \in ends'
    <2> SUFFICES ASSUME NEW l \in Links PROVE sent'[l] = 0 \/ Byte(l, sent'[l]) \in ends'
      OBVIOUS
    <2>1. sent[l] = 0 \/ Byte(l, sent[l]) \in ends
      BY DEF Numbered
    <2> HIDE DEF last
    <2> QED BY <1>4, <1>6, <2>1
  <1>9. ASSUME NEW l \in Links, NEW a \in Int, NEW b \in Int, Reaches(ends, l, a, b)
        PROVE  Reaches(ends', l, a, b) /\ a <= sent[l] /\ b <= sent[l]
    <2>1. Byte(l, b) \in ends /\ a <= b /\ \A e \in ends : e[1] = l /\ a <= e[2] => b <= e[2]
      BY <1>9 DEF Reaches
    <2>2. b <= sent[l]
      BY <1>5, <2>1 DEF Byte
    <2>3. ASSUME NEW e \in ends', e[1] = l, a <= e[2] PROVE b <= e[2]
      <3>1. CASE e \in ends
        BY <2>1, <2>3, <3>1
      <3>2. CASE e = Byte(m, last)
        <4>1. e[1] = m /\ e[2] = last
          BY <3>2 DEF Byte
        <4>2. sent[m] \in Nat /\ b <= sent[m]
          BY <1>1, <2>2, <2>3, <4>1
        <4> HIDE DEF last
        <4> QED BY <1>6, <4>1, <4>2
      <3> QED BY <1>4, <2>3, <3>1, <3>2
    <2>4. Byte(l, b) \in ends'
      BY <1>4, <2>1
    <2>5. a <= sent[l]
      BY <1>6, <2>1, <2>2
    <2> QED BY <2>1, <2>2, <2>3, <2>4, <2>5 DEF Reaches
  <1>10. ASSUME NEW i \in 1 .. len + 1
         PROVE  Reaches(ends', m, first(i), last) /\ first(i) > sent[m] /\ first(i) \in Int
    <2>1. first(i) > sent[m] /\ first(i) <= last /\ first(i) \in Int
      BY <1>1
    <2> HIDE DEF first
    <2>2. ASSUME NEW e \in ends', e[1] = m, first(i) <= e[2] PROVE last <= e[2]
      <3>1. e \notin ends
        BY <1>1, <1>5, <2>1, <2>2
      <3>2. e = Byte(m, last)
        BY <1>4, <2>2, <3>1
      <3> QED BY <1>6, <3>2 DEF Byte
    <2>3. Byte(m, last) \in ends'
      BY <1>4
    <2> QED BY <2>1, <2>2, <2>3 DEF Reaches
  <1>11. \A i \in 1 .. Len(line) : InPacket(line[i]) =>
           LET t == line[i] IN
           /\ FirstOf(t) \in Int /\ LastOf(t) \in Int /\ t.link \in Links
           /\ Reaches(ends, t.link, FirstOf(t), LastOf(t))
           /\ t.kind = "hdr" => StartsPacket(t.link, FirstOf(t))
           /\ \A j \in i + 1 .. Len(line) :
                OfPacket(line[j], t.link) =>
                  /\ FirstOf(t) <= FirstOf(line[j])
                  /\ t.kind = "byte" => FirstOf(t) < FirstOf(line[j])
    BY <1>3, FirstAndLast, Fields DEF Numbered, UpToEnd, Reaches
  <1>12. ASSUME NEW i \in 1 .. Len(line'), InPacket(line'[i])
         PROVE  LET t == line'[i] IN
                /\ Reaches(ends', t.link, FirstOf(t), LastOf(t))
                /\ t.kind = "hdr" => FirstOf(t) = 1 \/ Byte(t.link, FirstOf(t) - 1) \in ends'
                /\ \A j \in i + 1 .. Len(line') :
                     OfPacket(line'[j], t.link) =>
                       /\ FirstOf(t) <= FirstOf(line'[j])
                       /\ t.kind = "byte" => FirstOf(t) < FirstOf(line'[j])
    <2> DEFINE t == line'[i]
    <2>1. CASE i \in 1 .. Len(line)
      <3>1. t = line[i]
        BY <1>3, <2>1
      <3>2. /\ FirstOf(t) \in Int /\ LastOf(t) \in Int /\ t.link \in Links
            /\ Reaches(ends, t.link, FirstOf(t), LastOf(t))
            /\ t.kind = "hdr" => StartsPacket(t.link, FirstOf(t))
            /\ \A j \in i + 1 .. Len(line) :
                 OfPacket(line[j], t.link) =>
                   /\ FirstOf(t) <= FirstOf(line[j])
                   /\ t.kind = "byte" => FirstOf(t) < FirstOf(line[j])
        BY <1>11, <1>12, <2>1, <3>1
      <3> HIDE DEF t
      <3>3. Reaches(ends', t.link, FirstOf(t), LastOf(t)) /\ FirstOf(t) <= sent[t.link]
        BY <1>9, <3>2
      <3>4. t.kind = "hdr" => FirstOf(t) = 1 \/ Byte(t.link, FirstOf(t) - 1) \in ends'
        BY <1>4, <3>2 DEF StartsPacket
      <3>5. ASSUME NEW j \in i + 1 .. Len(line'), OfPacket(line'[j], t.link)
            PROVE  /\ FirstOf(t) <= FirstOf(line'[j])
                   /\ t.kind = "byte" => FirstOf(t) < FirstOf(line'[j])
        <4>1. CASE j \in 1 .. Len(line)
          <5>1. j \in i + 1 .. Len(line) /\ line'[j] = line[j]
            BY <1>3, <4>1
          <5> QED BY <3>2, <3>5, <5>1
        <4>2. CASE j - Len(line) \in 1 .. len + 1 /\ line'[j] = s[j - Len(line)]
          <5> DEFINE k == j - Len(line)
          <5>1. t.link = m /\ FirstOf(line'[j]) = first(k) /\ k \in 1 .. len + 1
            BY <1>1, <3>5, <4>2 DEF OfPacket
          <5> HIDE DEF k, first
          <5>2. first(k) > sent[m] /\ first(k) \in Int
            BY <1>10, <5>1
          <5> QED BY <1>1, <3>2, <3>3, <5>1, <5>2
        <4>3. j \in 1 .. Len(line')
          BY <1>3
        <4> QED BY <1>3, <4>1, <4>2, <4>3
      <3> QED BY <3>3, <3>4, <3>5 DEF t
    <2>2. CASE i - Len(line) \in 1 .. len + 1 /\ t = s[i - Len(line)]
      <3> DEFINE k == i - Len(line)
      <3>1. k \in 1 .. len + 1 /\ t = s[k]
        BY <2>2
      <3>2. t.link = m /\ FirstOf(t) = first(k) /\ LastOf(t) = last /\ (t.kind = "byte" <=> k # 1)
        BY <1>1, <3>1
      <3>3. Reaches(ends', m, first(k), last)
        BY <1>10, <3>1
      <3>4. k = 1 => FirstOf(t) = 1 \/ Byte(m, FirstOf(t) - 1) \in ends'
        <4>1. k = 1 => FirstOf(t) = sent[m] + 1 /\ sent[m] + 1 - 1 = sent[m]
          BY <1>1, <3>2
        <4>2. sent[m] = 0 \/ Byte(m, sent[m]) \in ends
          BY DEF Numbered
        <4> QED BY <1>4, <4>1, <4>2
      <3>5. ASSUME NEW j \in i + 1 .. Len(line')
            PROVE  /\ FirstOf(t) <= FirstOf(line'[j])
                   /\ t.kind = "byte" => FirstOf(t) < FirstOf(line'[j])
        <4>1. j - Len(line) \in 1 .. len + 1 /\ k < j - Len(line) /\ j \notin 1 .. Len(line) /\ j \in 1 .. Len(line')
          BY <1>3, <3>1
        <4>2. line'[j] = s[j - Len(line)]
          BY <1>3, <4>1
        <4>3. FirstOf(line'[j]) = first(j - Len(line))
          BY <1>1, <4>1, <4>2
        <4>4. \A p, q \in 1 .. len + 1 :
                p < q => first(p) <= first(q) /\ (p # 1 => first(p) < first(q))
          BY <1>1
        <4> HIDE DEF t, k, first
        <4> QED BY <3>1, <3>2, <4>1, <4>3, <4>4
      <3>6. t.kind = "hdr" => k = 1
        BY <1>1, <3>1 DEF InPacket
      <3> HIDE DEF k, first, last
      <3> QED BY <3>2, <3>3, <3>4, <3>5, <3>6
    <2> QED BY <1>3, <2>1, <2>2
  <1>13. Numbered' <=>
           /\ \A e \in ends' : e[2] <= sent'[e[1]]
           /\ \A l \in Links : sent'[l] = 0 \/ Byte(l, sent'[l]) \in ends'
           /\ \A i \in 1 .. Len(line') :
                InPacket(line'[i]) =>
                  /\ Reaches(ends', line'[i].link, FirstOf(line'[i]), LastOf(line'[i]))
                  /\ line'[i].kind = "hdr" =>
                       FirstOf(line'[i]) = 1 \/ Byte(line'[i].link, FirstOf(line'[i]) - 1) \in ends'
                  /\ \A j \in i + 1 .. Len(line') :
                       OfPacket(line'[j], line'[i].link) =>
                         /\ FirstOf(line'[i]) <= FirstOf(line'[j])
                         /\ line'[i].kind = "byte" => FirstOf(line'[i]) < FirstOf(line'[j])
    BY DEF Numbered, Reaches, UpToEnd, StartsPacket
  <1> QED BY <1>7, <1>8, <1>12, <1>13

(* Only Packet puts a token of a packet on the line. *)
LEMMA LineThins ==
  ASSUME Base, Base', [Next]_vars, \A l \in Links, n \in 1 .. MaxLen : ~Packet(l, n)
  PROVE  (\E f : Thins(f)) /\ UNCHANGED <<sent, ends>>
  <1>0. /\ Len(line) \in Nat /\ line \in Seq(Tokens) /\ here \in Nat /\ here <= Len(line) /\ TypeOK
        /\ Len(line') \in Nat /\ line' \in Seq(Tokens)
    <2>1. line' \in Seq(Tokens) /\ TypeOK
      BY DEF Base, TypeOK
    <2> QED BY <2>1, Lengths, LenProperties
  <1>1. ASSUME line' = line PROVE \E f : Thins(f)
    <2>1. \A i \in 1 .. Len(line') : i + 0 \in 1 .. Len(line) /\ line'[i] = line[i + 0]
      BY <1>0, <1>1
    <2> QED BY <1>0, <2>1, ThinnedAtFront
  <1>2. ASSUME here > 0, Pop PROVE \E f : Thins(f)
    <2>1. \A i \in 1 .. Len(line') : i + 1 \in 1 .. Len(line) /\ line'[i] = line[i + 1]
      BY <1>0, <1>2, PopLine
    <2> QED BY <1>0, <2>1, ThinnedAtFront
  <1>3. ASSUME here > 0, PopChar PROVE \E f : Thins(f)
    <2>1. CASE Pop
      BY <1>2, <1>3, <2>1
    <2>2. CASE line' = <<Token("text", Head(line).link, 0, 0)>> \o Tail(line)
      <3> DEFINE t == Token("text", Head(line).link, 0, 0)
      <3>1. line # <<>> /\ Len(line) > 0
        BY <1>0, <1>3
      <3>2. /\ Head(line) \in Tokens /\ Tail(line) \in Seq(Tokens)
            /\ Len(Tail(line)) = Len(line) - 1
            /\ \A i \in 1 .. Len(line) - 1 : Tail(line)[i] = line[i + 1]
        BY <1>0, <3>1, HeadTailProperties
      <3>3. t \in Tokens /\ t.kind = "text"
        BY <3>2, Fields, TokenIn DEF Token
      <3> HIDE DEF t
      <3>4. <<t>> \in Seq(Tokens) /\ Len(<<t>>) = 1 /\ <<t>>[1] = t
        BY <3>3
      <3>5. /\ Len(line') = 1 + Len(Tail(line))
            /\ \A i \in 1 .. 1 + Len(Tail(line)) :
                 line'[i] = IF i <= 1 THEN <<t>>[i] ELSE Tail(line)[i - 1]
        BY <2>2, <3>2, <3>4, ConcatProperties DEF t
      <3>6. ASSUME NEW i \in 1 .. Len(line'), InPacket(line'[i])
            PROVE  i + 0 \in 1 .. Len(line) /\ line'[i] = line[i + 0]
        <4>1. i \in 1 .. Len(line) /\ i \in 1 .. 1 + Len(Tail(line))
          BY <1>0, <3>2, <3>5
        <4>2. i # 1
          BY <3>3, <3>4, <3>5, <3>6, <4>1 DEF InPacket
        <4>3. i - 1 \in 1 .. Len(line) - 1 /\ i - 1 + 1 = i /\ ~(i <= 1) /\ i + 0 = i
          BY <1>0, <4>1, <4>2
        <4>4. Tail(line)[i - 1] = line[i]
          BY <3>2, <4>3
        <4> QED BY <3>5, <4>1, <4>3, <4>4
      <3> QED BY <1>0, <3>6, ThinnedAtFront
    <2> QED BY <1>3, <2>1, <2>2 DEF PopChar
  <1>4. ASSUME NEW s \in Seq(Tokens), line' = line \o s, \A i \in 1 .. Len(s) : ~InPacket(s[i])
        PROVE  \E f : Thins(f)
    <2>1. ASSUME NEW i \in 1 .. Len(line'), InPacket(line'[i])
          PROVE  i + 0 \in 1 .. Len(line) /\ line'[i] = line[i + 0]
      <3>1. i \in 1 .. Len(line) \/ (i - Len(line) \in 1 .. Len(s) /\ line'[i] = s[i - Len(line)])
        BY <1>0, <1>4, PutLine
      <3>2. i \in 1 .. Len(line)
        BY <1>4, <2>1, <3>1
      <3>3. line'[i] = line[i]
        BY <1>0, <1>4, <3>2, PutLine
      <3> QED BY <3>2, <3>3
    <2> QED BY <1>0, <2>1, ThinnedAtFront
  <1>5. CASE Sketch \/ UNCHANGED vars
    BY <1>1, <1>5 DEF Sketch, Call, Accept, vars, lineVars, espVars
  <1>6. CASE Arrive
    <2>1. UNCHANGED <<sent, ends>> /\ here < Len(line)
      BY <1>6 DEF Arrive
    <2>2. CASE here < RxSize
      BY <1>1, <1>6, <2>1, <2>2 DEF Arrive
    <2>3. CASE ~(here < RxSize)
      <3>1. here' = here /\ line' = Without(line, here)
        BY <1>6, <2>3 DEF Arrive, Without
      <3>2. \A i \in 1 .. Len(line') :
              \/ i <= here /\ i \in 1 .. Len(line) /\ line'[i] = line[i]
              \/ i > here /\ i + 1 \in 1 .. Len(line) /\ line'[i] = line[i + 1]
        BY <1>0, <2>1, <3>1, DropLine
      <3> QED BY <1>0, <2>1, <3>2, ThinnedInside
    <2> QED BY <2>2, <2>3
  <1>7. ASSUME NEW l \in Links, PeerCloses(l) PROVE (\E f : Thins(f)) /\ UNCHANGED <<sent, ends>>
    <2> DEFINE t == Token("closed", l, 0, 0)
    <2>1. t \in Tokens /\ t.kind = "closed"
      BY TokenIn DEF Token
    <2>2. line' = line \o <<t>>
      BY <1>0, <1>7, <2>1, AppendIsConcat DEF PeerCloses
    <2> HIDE DEF t
    <2> DEFINE s == <<t>>
    <2>3. s \in Seq(Tokens) /\ Len(s) = 1 /\ s[1] = t
      BY <2>1
    <2>4. \A i \in 1 .. Len(s) : ~InPacket(s[i])
      <3> HIDE DEF s
      <3>1. \A i \in 1 .. Len(s) : i = 1
        BY <2>3
      <3> QED BY <2>1, <2>3, <3>1 DEF InPacket
    <2>5. line' = line \o s
      BY <2>2
    <2> HIDE DEF s
    <2>6. \E f : Thins(f)
      BY <1>4, <2>3, <2>4, <2>5
    <2> QED BY <1>7, <2>6 DEF PeerCloses
  <1>8. CASE Answer
    <2> DEFINE a == Token("answer", call.sock, IF call.sock \in open THEN 1 ELSE 0, 0)
               c == Token("closed", call.sock, 0, 0)
    <2>1. call.sock \in Links
      BY <1>8, CallTypes DEF Answer, Base, AnswersOnce
    <2>2. a \in Tokens /\ c \in Tokens /\ ~InPacket(a) /\ ~InPacket(c)
      BY <2>1, TokenIn DEF Token, InPacket
    <2>3. line' = line \o <<c>> \o <<a>> \/ line' = line \o <<>> \o <<a>>
      BY <1>8 DEF Answer
    <2> HIDE DEF a, c
    <2>4. line \in Seq(Tokens) /\ <<a>> \in Seq(Tokens) /\ <<c>> \in Seq(Tokens)
      BY <1>0, <2>2
    <2>5. line \o <<>> = line /\ (line \o <<c>>) \o <<a>> = line \o (<<c>> \o <<a>>)
      BY <2>4, ConcatEmptySeq, ConcatAssociative
    <2>6. CASE line' = line \o <<a>>
      <3> DEFINE s == <<a>>
      <3>1. s \in Seq(Tokens) /\ Len(s) = 1 /\ s[1] = a /\ line' = line \o s
        BY <2>4, <2>6
      <3> HIDE DEF s
      <3>2. \A i \in 1 .. Len(s) : i = 1
        BY <3>1
      <3>3. \A i \in 1 .. Len(s) : ~InPacket(s[i])
        BY <2>2, <3>1, <3>2
      <3> QED BY <1>4, <1>8, <3>1, <3>3 DEF Answer
    <2>7. CASE line' = line \o (<<c>> \o <<a>>)
      <3> DEFINE s == <<c>> \o <<a>>
      <3>1. Len(<<a>>) = 1 /\ Len(<<c>>) = 1 /\ <<c>>[1] = c /\ <<a>>[1] = a
        OBVIOUS
      <3>2. /\ s \in Seq(Tokens) /\ Len(s) = 2
            /\ \A i \in 1 .. 2 : s[i] = IF i <= 1 THEN <<c>>[i] ELSE <<a>>[i - 1]
        BY <2>4, <3>1, ConcatProperties
      <3>3. line' = line \o s
        BY <2>7
      <3> HIDE DEF s
      <3>4. s[1] = c /\ s[2] = a
        <4>1. 1 \in 1 .. 2 /\ 2 \in 1 .. 2 /\ 1 <= 1 /\ ~(2 <= 1) /\ 2 - 1 = 1
          OBVIOUS
        <4> QED BY <3>1, <3>2, <4>1
      <3>5. \A i \in 1 .. Len(s) : ~InPacket(s[i])
        <4>1. \A i \in 1 .. Len(s) : i = 1 \/ i = 2
          BY <3>2
        <4> QED BY <2>2, <3>4, <4>1
      <3> QED BY <1>4, <1>8, <3>2, <3>3, <3>5 DEF Answer
    <2> QED BY <2>3, <2>5, <2>6, <2>7, Zenon
  <1>9. CASE Driver
    <2>1. UNCHANGED <<sent, ends>>
      BY <1>9 DEF Driver, AvailBuffered, AvailNothing, FindSkip, FindHeader, FindTimeout,
         DataMismatch, DataPeek, DataByte, DataTimeout, NotClosing, IsClosing, NoticeSkip, NoticeFound,
         NoticeTimeout, BufMismatch, BufStart, BufByte, BufDone, BufTimeout, CmdSend, CmdSkip,
         CmdAnswered, CmdTimeout, espVars
    <2>2. CASE CmdSend
      <3>1. line' = SubSeq(line, here + 1, Len(line)) /\ here' = 0
        BY <2>2 DEF CmdSend
      <3>2. \A i \in 1 .. Len(line') : here + i \in 1 .. Len(line) /\ line'[i] = line[here + i]
        BY <1>0, <3>1, EmptyLine
      <3>3. \A i \in 1 .. Len(line') : here + i = i + here
        BY <1>0
      <3>4. \A i \in 1 .. Len(line') : i + here \in 1 .. Len(line) /\ line'[i] = line[i + here]
        BY <3>2, <3>3
      <3> QED BY <1>0, <2>1, <3>4, ThinnedAtFront
    <2>3. CASE FindSkip \/ FindHeader \/ NoticeSkip \/ NoticeFound \/ CmdSkip \/ CmdAnswered
      BY <1>2, <2>1, <2>3 DEF FindSkip, FindHeader, NoticeSkip, NoticeFound, CmdSkip, CmdAnswered
    <2>4. CASE DataByte \/ BufByte
      BY <1>3, <2>1, <2>4 DEF DataByte, BufByte
    <2>5. CASE \/ AvailBuffered \/ AvailNothing \/ FindTimeout \/ DataMismatch \/ DataPeek \/ DataTimeout
               \/ NotClosing \/ IsClosing \/ NoticeTimeout \/ BufMismatch
               \/ (\E size \in 1 .. MaxLen : BufStart(size)) \/ BufDone \/ BufTimeout \/ CmdTimeout
      <3>1. line' = line
        BY <2>5 DEF AvailBuffered, AvailNothing, FindTimeout, DataMismatch, DataPeek, DataTimeout,
           NotClosing, IsClosing, NoticeTimeout, BufMismatch, BufStart, BufDone, BufTimeout, CmdTimeout,
           lineVars
      <3> QED BY <1>1, <2>1, <3>1
    <2> QED BY <1>9, <2>2, <2>3, <2>4, <2>5 DEF Driver
  <1> QED BY <1>5, <1>6, <1>7, <1>8, <1>9 DEF Next, Module

LEMMA NextNumbered ==
  ASSUME Base, Base', Numbered, [Next]_vars
  PROVE  Numbered'
  <1>1. CASE \A l \in Links, n \in 1 .. MaxLen : ~Packet(l, n)
    BY <1>1, LineThins, NumberedThinned DEF Base
  <1>2. CASE \E l \in Links, n \in 1 .. MaxLen : Packet(l, n)
    BY <1>2, NumberedPacket
  <1> QED BY <1>1, <1>2

-----------------------------------------------------------------------------
(* While nothing is lost the tokens of a packet follow each other, and     *)
(* remote is the sender of the packet that is being read.                  *)

LEMMA ConnectedShift ==
  ASSUME TypeOK, Connected, NEW k \in Nat, line' \in Seq(Tokens), Len(line') = Len(line) - k,
         \A i \in 1 .. Len(line') : i + k \in 1 .. Len(line) /\ line'[i] = line[i + k],
         bufPos' > 0 => line' # <<>> /\ remote' = Byte(connId', LastOf(line'[1]))
  PROVE  Connected'
  <1>1. Len(line) \in Nat /\ Len(line') \in Nat
    BY Lengths, LenProperties
  <1>2. ASSUME NEW i \in 1 .. Len(line') - 1, line'[i].rest > 0
        PROVE  LastOf(line'[i + 1]) = LastOf(line'[i])
    <2>1. i \in 1 .. Len(line') /\ i + 1 \in 1 .. Len(line') /\ i + k \in 1 .. Len(line) - 1
          /\ (i + 1) + k = (i + k) + 1
      BY <1>1
    <2>2. line'[i] = line[i + k] /\ line'[i + 1] = line[(i + k) + 1]
      BY <2>1
    <2>3. line[i + k].rest > 0 => LastOf(line[(i + k) + 1]) = LastOf(line[i + k])
      BY <2>1 DEF Connected
    <2> QED BY <1>2, <2>2, <2>3
  <1> QED BY <1>2 DEF Connected, LastOf

LEMMA ConnectedPop ==
  ASSUME TypeOK, Whole, Connected, here > 0, Pop,
         bufPos' > 0 => line[1].rest = bufPos' /\ remote' = Byte(connId', LastOf(line[1]))
  PROVE  Connected'
  <1>1. /\ line' \in Seq(Tokens) /\ Len(line') = Len(line) - 1 /\ Len(line) \in Nat /\ Len(line) > 0
        /\ \A i \in 1 .. Len(line') : i + 1 \in 1 .. Len(line) /\ line'[i] = line[i + 1]
        /\ line # <<>> /\ Len(line') \in Nat
    BY PopLine, Lengths, LenProperties
  <1>2. ASSUME bufPos' > 0 PROVE line' # <<>> /\ remote' = Byte(connId', LastOf(line'[1]))
    <2>1. line[1].rest > 0
      BY <1>2
    <2>2. Len(line) # 1
      BY <1>1, <2>1 DEF Whole
    <2>3. 1 \in 1 .. Len(line) - 1 /\ 1 \in 1 .. Len(line') /\ 1 + 1 = 2
      BY <1>1, <2>2
    <2>4. LastOf(line[2]) = LastOf(line[1]) /\ line'[1] = line[2]
      BY <1>1, <2>1, <2>3 DEF Connected
    <2>5. line' # <<>>
      BY <1>1, <2>3, EmptySeq
    <2> QED BY <1>2, <2>4, <2>5
  <1>3. 1 \in Nat
    OBVIOUS
  <1> QED BY <1>1, <1>2, <1>3, ConnectedShift

LEMMA ConnectedPut ==
  ASSUME TypeOK, Whole, Connected, NEW s \in Seq(Tokens), line' = line \o s,
         UNCHANGED <<bufPos, connId, remote>>, bufPos > 0 => line # <<>>,
         \A i \in 1 .. Len(s) - 1 : s[i].rest > 0 => LastOf(s[i + 1]) = LastOf(s[i])
  PROVE  Connected'
  <1>1. /\ line' \in Seq(Tokens) /\ Len(s) \in Nat /\ Len(line') = Len(line) + Len(s)
        /\ \A i \in 1 .. Len(line) : line'[i] = line[i]
        /\ \A i \in 1 .. Len(s) : line'[Len(line) + i] = s[i]
    BY PutLine
  <1>2. Len(line) \in Nat /\ line \in Seq(Tokens) /\ (line = <<>> <=> Len(line) = 0)
    BY Lengths
  <1>3. ASSUME NEW i \in 1 .. Len(line') - 1, line'[i].rest > 0
        PROVE  LastOf(line'[i + 1]) = LastOf(line'[i])
    <2>1. CASE i < Len(line)
      <3>1. i \in 1 .. Len(line) - 1 /\ i \in 1 .. Len(line) /\ i + 1 \in 1 .. Len(line)
        BY <1>1, <1>2, <2>1
      <3> QED BY <1>1, <1>3, <3>1 DEF Connected
    <2>2. CASE i = Len(line)
      <3>1. line # <<>> /\ line'[i] = line[i] /\ line[i].rest = 0
        BY <1>1, <1>2, <2>2 DEF Whole
      <3> QED BY <1>3, <3>1
    <2>3. CASE i > Len(line)
      <3>1. /\ i - Len(line) \in 1 .. Len(s) - 1 /\ i - Len(line) \in 1 .. Len(s)
            /\ i - Len(line) + 1 \in 1 .. Len(s)
            /\ Len(line) + (i - Len(line)) = i /\ Len(line) + (i - Len(line) + 1) = i + 1
        BY <1>1, <1>2, <2>3
      <3>2. line'[i] = s[i - Len(line)] /\ line'[i + 1] = s[i - Len(line) + 1]
        BY <1>1, <3>1
      <3> QED BY <1>3, <3>1, <3>2
    <2> QED BY <1>2, <2>1, <2>2, <2>3
  <1>4. line # <<>> => line'[1] = line[1]
    BY <1>1, <1>2
  <1> QED BY <1>3, <1>4 DEF Connected, LastOf

LEMMA ConnectedSame ==
  ASSUME Connected, UNCHANGED <<line, bufPos, connId, remote>>
  PROVE  Connected'
  BY DEF Connected, LastOf

LEMMA ConnectedModule ==
  ASSUME Base, Framing, ~lost, Connected, Module
  PROVE  Connected'
  <1>1. UNCHANGED <<bufPos, connId, remote>> /\ TypeOK /\ Whole /\ (bufPos > 0 => line # <<>>)
    <2>1. UNCHANGED <<bufPos, connId, remote>>
      BY DEF Module, PeerCloses, Packet, Answer, drvVars
    <2>2. pc = "answer" => bufPos = 0
      BY DEF Framing, Placed
    <2> QED BY <2>1, <2>2, MoreToCome DEF Base, Framing
  <1>2. ASSUME NEW t \in Tokens, t.rest = 0, line' = line \o <<t>> PROVE Connected'
    <2> DEFINE s == <<t>>
    <2>1. s \in Seq(Tokens) /\ Len(s) = 1 /\ line' = line \o s
      BY <1>2
    <2>2. \A i \in 1 .. Len(s) - 1 : s[i].rest > 0 => LastOf(s[i + 1]) = LastOf(s[i])
      BY <2>1
    <2> HIDE DEF s
    <2> QED BY <1>1, <2>1, <2>2, ConnectedPut
  <1>3. ASSUME NEW l \in Links, PeerCloses(l) PROVE Connected'
    <2>1. Token("closed", l, 0, 0) \in Tokens /\ Token("closed", l, 0, 0).rest = 0
      BY TokenIn DEF Token
    <2>2. line' = line \o <<Token("closed", l, 0, 0)>>
      BY <1>1, <1>3, <2>1, AppendIsConcat, Lengths DEF PeerCloses
    <2> QED BY <1>2, <2>1, <2>2
  <1>4. ASSUME NEW l \in Links, NEW len \in 1 .. MaxLen, Packet(l, len) PROVE Connected'
    <2> DEFINE s == PacketOf(l, len)
    <2>1. /\ s \in Seq(Tokens) /\ Len(s) = len + 1 /\ len \in Nat
          /\ \A i \in 1 .. len + 1 : LastOf(s[i]) = sent[l] + len
      BY <1>1, PacketNumbers
    <2>2. line' = line \o s
      BY <1>4 DEF Packet
    <2> HIDE DEF s
    <2>3. \A i \in 1 .. Len(s) - 1 : i \in 1 .. len + 1 /\ i + 1 \in 1 .. len + 1
      BY <2>1
    <2>4. \A i \in 1 .. Len(s) - 1 : s[i].rest > 0 => LastOf(s[i + 1]) = LastOf(s[i])
      BY <2>1, <2>3
    <2> QED BY <1>1, <2>1, <2>2, <2>4, ConnectedPut
  <1>5. CASE Answer
    <2> DEFINE a == Token("answer", call.sock, IF call.sock \in open THEN 1 ELSE 0, 0)
               c == Token("closed", call.sock, 0, 0)
    <2>1. call.sock \in Links
      BY <1>5, CallTypes DEF Answer, Base, AnswersOnce
    <2>2. a \in Tokens /\ c \in Tokens /\ a.rest = 0 /\ c.rest = 0
      BY <2>1, TokenIn DEF Token
    <2>3. line' = line \o <<c>> \o <<a>> \/ line' = line \o <<>> \o <<a>>
      BY <1>5 DEF Answer
    <2> HIDE DEF a, c
    <2>4. line \in Seq(Tokens) /\ <<a>> \in Seq(Tokens) /\ <<c>> \in Seq(Tokens)
      BY <1>1, <2>2, Lengths
    <2>5. line \o <<>> = line /\ (line \o <<c>>) \o <<a>> = line \o (<<c>> \o <<a>>)
      BY <2>4, ConcatEmptySeq, ConcatAssociative
    <2>6. CASE line' = line \o <<a>>
      BY <1>2, <2>2, <2>6
    <2>7. CASE line' = line \o (<<c>> \o <<a>>)
      <3> DEFINE s == <<c>> \o <<a>>
      <3>1. Len(<<a>>) = 1 /\ Len(<<c>>) = 1 /\ <<c>>[1] = c
        OBVIOUS
      <3>2. /\ s \in Seq(Tokens) /\ Len(s) = 2
            /\ \A i \in 1 .. 2 : s[i] = IF i <= 1 THEN <<c>>[i] ELSE <<a>>[i - 1]
        BY <2>4, <3>1, ConcatProperties
      <3>3. line' = line \o s
        BY <2>7
      <3> HIDE DEF s
      <3>4. s[1] = c
        BY <3>1, <3>2
      <3>5. \A i \in 1 .. Len(s) - 1 : i = 1
        BY <3>2
      <3>6. \A i \in 1 .. Len(s) - 1 : s[i].rest > 0 => LastOf(s[i + 1]) = LastOf(s[i])
        BY <2>2, <3>4, <3>5
      <3> QED BY <1>1, <3>2, <3>3, <3>6, ConnectedPut
    <2> QED BY <2>3, <2>5, <2>6, <2>7, Zenon
  <1> QED BY <1>3, <1>4, <1>5 DEF Module

(* The steps of the driver, in step: which token they take, if any. *)
LEMMA StepsInStep ==
  ASSUME Base, Framing, ~lost, ~lost', [Next]_vars, ~Module
  PROVE  \/ UNCHANGED <<line, sent, ends, bufPos, connId, remote>>
         \/ /\ here > 0 /\ Pop /\ line[1].kind \notin {"hdr", "byte"} /\ bufPos = 0
            /\ UNCHANGED <<sent, ends, bufPos, connId, remote>>
         \/ pc = "answer" /\ here > 0 /\ Pop /\ bufPos = 0 /\ UNCHANGED <<sent, ends, bufPos, connId, remote>>
         \/ CmdSend /\ bufPos = 0 /\ UNCHANGED <<sent, ends, bufPos, connId, remote>>
         \/ /\ FindHeader /\ here > 0 /\ Pop /\ line[1].kind = "hdr" /\ bufPos = 0
            /\ bufPos' = line[1].rest /\ connId' = line[1].link /\ remote' = Byte(line[1].link, line[1].n)
            /\ UNCHANGED <<sent, ends>>
         \/ /\ DataByte \/ BufByte
            /\ here > 0 /\ Pop /\ line[1].kind = "byte" /\ line[1].link = connId
            /\ line[1].rest = bufPos - 1 /\ bufPos > 0 /\ connId = call.sock
            /\ bufPos' = line[1].rest /\ HeadChar = Byte(connId, line[1].n)
            /\ UNCHANGED <<sent, ends, connId, remote>>
  <1>0. /\ pc \in {"find", "closing", "notice", "cmd", "answer"} \/ (pc = "avail" /\ ~Buffered) => bufPos = 0
        /\ bufPos \in Nat
    <2>1. bufPos \in Nat
      BY BoundsAssumption DEF Base, TypeOK
    <2> QED BY <2>1 DEF Framing, Placed, Buffered
  <1>1. CASE Sketch \/ UNCHANGED vars
    BY <1>1 DEF Sketch, Call, Accept, vars, lineVars, drvVars, espVars
  <1>2. CASE Arrive
    BY <1>2 DEF Arrive, drvVars
  <1>3. CASE FindSkip \/ NoticeFound
    <2>1. here > 0 /\ Pop /\ UNCHANGED <<sent, ends, bufPos, connId, remote>> /\ pc # "answer"
      BY <1>3 DEF FindSkip, NoticeFound, espVars, drvVars
    <2>2. bufPos = 0
      BY <1>0, <1>3 DEF FindSkip, NoticeFound
    <2>3. Head(line) = line[1] /\ line[1].kind # "byte" /\ (pc = "notice" => IsNotice(line[1]))
      BY <2>1, <2>2, AtHead DEF Framing
    <2>4. line[1].kind # "hdr"
      BY <1>3, <2>3 DEF FindSkip, NoticeFound, IsNotice
    <2> QED BY <2>1, <2>2, <2>3, <2>4
  <1>4. CASE CmdSkip \/ CmdAnswered
    BY <1>0, <1>4 DEF CmdSkip, CmdAnswered, espVars, drvVars
  <1>5. CASE CmdSend
    BY <1>0, <1>5 DEF CmdSend, drvVars
  <1>6. CASE FindHeader
    <2>1. /\ here > 0 /\ Pop /\ UNCHANGED <<sent, ends>> /\ Head(line).kind = "hdr"
          /\ connId' = Head(line).link /\ bufPos' = Head(line).rest
          /\ remote' = <<Head(line).link, Head(line).n>>
          /\ pc = "find" \/ (pc = "avail" /\ ~Buffered)
      BY <1>6 DEF FindHeader, espVars
    <2>2. Head(line) = line[1]
      BY <2>1, PopLine DEF Base
    <2> QED BY <1>0, <1>6, <2>1, <2>2 DEF Byte
  <1>7. CASE DataByte \/ BufByte
    <2>1. /\ here > 0 /\ PopChar /\ bufPos' = bufPos - 1 /\ UNCHANGED <<sent, ends, connId, remote>>
          /\ pc \in {"data", "fill"}
      BY <1>7 DEF DataByte, BufByte, espVars
    <2>2. connId = call.sock
      BY <1>7 DEF DataByte, BufByte, Framing, Placed
    <2>3. bufPos > 0
      <3>1. want > 0 => bufPos > 0
        BY BoundsAssumption DEF Base, TypeOK
      <3> QED BY <1>7, <3>1 DEF DataByte, BufByte, Base, Calling
    <2>4. /\ Head(line) = line[1] /\ line[1].kind = "byte" /\ line[1].link = connId
          /\ line[1].rest = bufPos - 1
      BY <2>1, <2>3, AtHead
    <2>5. Pop /\ HeadChar = Byte(connId, line[1].n)
      BY <2>1, <2>4 DEF PopChar, HeadChar
    <2> QED BY <1>7, <2>1, <2>2, <2>3, <2>4, <2>5
  <1>8. CASE \/ AvailBuffered \/ AvailNothing \/ FindTimeout \/ DataMismatch \/ DataPeek
             \/ NotClosing \/ IsClosing \/ BufMismatch
             \/ (\E size \in 1 .. MaxLen : BufStart(size)) \/ BufDone \/ CmdTimeout
    BY <1>8 DEF AvailBuffered, AvailNothing, FindTimeout, DataMismatch, DataPeek,
       NotClosing, IsClosing, BufMismatch, BufStart, BufDone, CmdTimeout, lineVars, drvVars, espVars
  <1> QED BY <1>1, <1>2, <1>3, <1>4, <1>5, <1>6, <1>7, <1>8, NothingAwaited DEF Next, Driver

LEMMA NextConnected ==
  ASSUME Base, Base', Framing, ~lost, ~lost', Connected, [Next]_vars
  PROVE  Connected'
  <1>0. TypeOK /\ Whole /\ (pc = "cmd" => bufPos = 0)
    BY DEF Base, Framing, Placed
  <1>1. CASE Module
    BY <1>1, ConnectedModule
  <1>2. ASSUME ~Module PROVE Connected'
    <2>1. CASE UNCHANGED <<line, bufPos, connId, remote>>
      BY <2>1, ConnectedSame
    <2>2. CASE here > 0 /\ Pop /\ bufPos' = 0
      BY <1>0, <2>2, ConnectedPop
    <2>3. CASE CmdSend /\ bufPos' = 0
      <3>1. line' = SubSeq(line, here + 1, Len(line)) /\ here' = 0
        BY <2>3 DEF CmdSend
      <3>2. /\ line' \in Seq(Tokens) /\ Len(line') = Len(line) - here /\ here \in Nat
            /\ \A i \in 1 .. Len(line') : here + i \in 1 .. Len(line) /\ line'[i] = line[here + i]
        BY <1>0, <3>1, EmptyLine, Lengths
      <3>3. \A i \in 1 .. Len(line') : here + i = i + here
        BY <3>2, LenProperties
      <3>4. \A i \in 1 .. Len(line') : i + here \in 1 .. Len(line) /\ line'[i] = line[i + here]
        BY <3>2, <3>3
      <3>5. ~(bufPos' > 0)
        BY <2>3
      <3> QED BY <1>0, <3>2, <3>4, <3>5, ConnectedShift
    <2>4. CASE FindHeader
      <3>1. /\ here > 0 /\ Pop /\ Head(line).kind = "hdr" /\ bufPos' = Head(line).rest
            /\ connId' = Head(line).link /\ remote' = <<Head(line).link, Head(line).n>>
        BY <2>4 DEF FindHeader
      <3>2. Head(line) = line[1]
        BY <1>0, <3>1, PopLine
      <3>3. remote' = Byte(connId', LastOf(line[1]))
        BY <3>1, <3>2 DEF LastOf, Byte
      <3> QED BY <1>0, <3>1, <3>2, <3>3, ConnectedPop
    <2>5. CASE /\ here > 0 /\ Pop /\ bufPos > 0 /\ bufPos' = line[1].rest /\ UNCHANGED <<connId, remote>>
      BY <1>0, <2>5, ConnectedPop DEF Connected
    <2> QED BY <1>2, <2>1, <2>2, <2>3, <2>4, <2>5, StepsInStep
  <1> QED BY <1>1, <1>2

-----------------------------------------------------------------------------
(* What is read of a link are whole packets.                               *)

(* One more result of a read, which is a byte or is not. *)
LEMMA OneMore ==
  ASSUME NEW d \in Seq(Int \X Int), NEW e \in Int \X Int
  PROVE  /\ Append(d, e) \in Seq(Int \X Int) /\ Len(Append(d, e)) = Len(d) + 1 /\ Len(d) \in Nat
         /\ \A i \in 1 .. Len(d) : Append(d, e)[i] = d[i]
         /\ Append(d, e)[Len(d) + 1] = e
         /\ \A i \in 0 .. Len(d), j \in 0 .. Len(d) :
              /\ IsLast(Append(d, e), i, j) <=> IsLast(d, i, j)
              /\ \A l : ByteAt(l, Append(d, e), j) = ByteAt(l, d, j)
         /\ e # Unset => \A j \in 0 .. Len(d) : ~IsLast(Append(d, e), Len(d) + 1, j)
         /\ e = Unset => /\ ~IsLast(Append(d, e), Len(d) + 1, Len(d) + 1)
                         /\ \A j \in 0 .. Len(d) :
                              IsLast(Append(d, e), Len(d) + 1, j) => IsLast(d, Len(d), j)
         /\ \A l : ByteAt(l, Append(d, e), Len(d) + 1) = e
  <1> DEFINE s == Append(d, e)
             n == Len(d)
  <1>1. /\ s \in Seq(Int \X Int) /\ Len(s) = n + 1 /\ n \in Nat
        /\ \A i \in 1 .. n : s[i] = d[i]
        /\ s[n + 1] = e
    BY AppendProperties, LenProperties
  <1> HIDE DEF s, n
  <1>2. ASSUME NEW i \in 0 .. n, NEW j \in 0 .. n
        PROVE  (IsLast(s, i, j) <=> IsLast(d, i, j)) /\ \A l : ByteAt(l, s, j) = ByteAt(l, d, j)
    <2>0. j # 0 => j \in 1 .. n
      BY <1>1
    <2>1. j # 0 => s[j] = d[j]
      BY <1>1, <2>0
    <2>2. \A k \in j + 1 .. i : k \in 1 .. n
      BY <1>1
    <2>3. \A k \in j + 1 .. i : s[k] = d[k]
      BY <1>1, <2>2
    <2> QED BY <2>1, <2>3 DEF IsLast, ByteAt
  <1>3. ASSUME e # Unset, NEW j \in 0 .. n PROVE ~IsLast(s, n + 1, j)
    <2>1. n + 1 \in j + 1 .. n + 1
      BY <1>1
    <2> QED BY <1>1, <1>3, <2>1 DEF IsLast
  <1>4. e = Unset => ~IsLast(s, n + 1, n + 1)
    BY <1>1 DEF IsLast
  <1>5. ASSUME NEW j \in 0 .. n, IsLast(s, n + 1, j) PROVE IsLast(d, n, j)
    <2>1. IsLast(s, n, j)
      <3>1. \A k \in j + 1 .. n : k \in j + 1 .. n + 1
        BY <1>1
      <3> QED BY <1>5, <3>1 DEF IsLast
    <2>2. n \in 0 .. n
      BY <1>1
    <2> QED BY <1>2, <2>1, <2>2
  <1>6. \A l : ByteAt(l, s, n + 1) = e
    BY <1>1 DEF ByteAt
  <1> QED BY <1>1, <1>2, <1>3, <1>4, <1>5, <1>6 DEF s, n

(* The results so far, with one more that goes on with them. *)
LEMMA InPacketsAppend ==
  ASSUME NEW l \in Links, NEW d \in Seq(Int \X Int), NEW e \in Int \X Int, InPackets(l, d),
         e # Unset => \A j \in 0 .. Len(d) : IsLast(d, Len(d), j) => Continues(l, ByteAt(l, d, j), e)
  PROVE  InPackets(l, Append(d, e))
  <1> DEFINE s == Append(d, e)
  <1>1. /\ Len(s) = Len(d) + 1 /\ Len(d) \in Nat
        /\ \A i \in 1 .. Len(d) : s[i] = d[i]
        /\ s[Len(d) + 1] = e
        /\ \A i \in 0 .. Len(d), j \in 0 .. Len(d) :
             (IsLast(s, i, j) <=> IsLast(d, i, j)) /\ ByteAt(l, s, j) = ByteAt(l, d, j)
    BY OneMore
  <1> HIDE DEF s
  <1>2. ASSUME NEW i \in 1 .. Len(s), NEW j \in 0 .. Len(s), s[i] # Unset, j < i, IsLast(s, i - 1, j)
        PROVE  Continues(l, ByteAt(l, s, j), s[i])
    <2>1. i - 1 \in 0 .. Len(d) /\ j \in 0 .. Len(d)
      BY <1>1, <1>2
    <2>2. IsLast(d, i - 1, j) /\ ByteAt(l, s, j) = ByteAt(l, d, j)
      BY <1>1, <1>2, <2>1
    <2>3. CASE i \in 1 .. Len(d)
      BY <1>1, <1>2, <2>1, <2>2, <2>3 DEF InPackets
    <2>4. CASE i = Len(d) + 1
      <3>1. i - 1 = Len(d) /\ s[i] = e
        BY <1>1, <2>4
      <3> QED BY <1>2, <2>1, <2>2, <3>1
    <2> QED BY <1>1, <2>3, <2>4
  <1> QED BY <1>2 DEF InPackets, s

(* Packets that have ended stay so. *)
LEMMA InPacketsStay ==
  ASSUME ends \subseteq ends'
  PROVE  \A l, d : InPackets(l, d) => InPackets(l, d)'
  BY DEF InPackets, Continues, StartsPacket, EndsPacket

(* The line gets shorter, and the link that is being read is the same. *)
LEMMA GoesOnSame ==
  ASSUME NEW l, NEW p, GoesOn(l, p), NEW f, Thins(f), UNCHANGED <<sent, ends>>,
         \/ ~(bufPos > 0 /\ connId = l) /\ ~(bufPos' > 0 /\ connId' = l)
         \/ UNCHANGED <<bufPos, connId>> /\ (bufPos > 0 => line'[1] = line[1])
  PROVE  GoesOn(l, p)'
  <1>1. ASSUME NEW i \in 1 .. Len(line'), OfPacket(line'[i], l) PROVE p[2] < FirstOf(line'[i])
    <2>1. InPacket(line'[i])
      BY <1>1 DEF OfPacket, InPacket
    <2>2. f[i] \in 1 .. Len(line) /\ line'[i] = line[f[i]]
      BY <2>1 DEF Thins
    <2> QED BY <1>1, <2>2 DEF GoesOn
  <1>2. p[2] <= sent'[l]
    BY DEF GoesOn
  <1>3. IF bufPos' > 0 /\ connId' = l
          THEN p[2] + 1 = line'[1].n \/ (StartsPacket(l, line'[1].n) /\ EndsPacket(p))
          ELSE EndsPacket(p)
    BY DEF GoesOn
  <1> QED BY <1>1, <1>2, <1>3 DEF GoesOn, StartsPacket, EndsPacket

(* A header is read: its packet is a later one. *)
LEMMA GoesOnHeader ==
  ASSUME Base, Base', Whole, Numbered, Connected, NEW l \in Links, NEW p \in Int \X Int, GoesOn(l, p),
         here > 0, Pop, line[1].kind = "hdr", bufPos = 0, bufPos' = line[1].rest, connId' = line[1].link,
         UNCHANGED <<sent, ends>>, NEW f, Thins(f)
  PROVE  GoesOn(l, p)'
  <1>0. bufPos > 0 <=> FALSE
    OBVIOUS
  <1>1. CASE line[1].link # l
    BY <1>0, <1>1, GoesOnSame
  <1>2. CASE line[1].link = l
    <2>1. /\ Len(line') = Len(line) - 1 /\ Len(line) \in Nat /\ Len(line) > 0
          /\ \A i \in 1 .. Len(line') : i + 1 \in 1 .. Len(line) /\ line'[i] = line[i + 1]
          /\ line # <<>> /\ line[1] \in Tokens /\ \A i \in 1 .. Len(line) : line[i] \in Tokens
      BY PopLine, Lengths DEF Base
    <2>2. EndsPacket(p)
      BY <1>0 DEF GoesOn
    <2>3. line[1].rest > 0 /\ line[1].rest \in Nat /\ line[1].n \in Nat
      BY <2>1, Fields, BoundsAssumption
    <2>4. Len(line) # 1
      BY <2>1, <2>3 DEF Whole
    <2>5. 1 \in 1 .. Len(line) - 1 /\ 1 \in 1 .. Len(line') /\ 1 + 1 = 2 /\ 2 \in 1 .. Len(line) /\ 1 \in 1 .. Len(line)
      BY <2>1, <2>4
    <2>6. LastOf(line[2]) = LastOf(line[1]) /\ line'[1] = line[2]
      BY <2>1, <2>3, <2>5 DEF Connected
    <2>7. line[2].kind = "byte" /\ line[2].link = l /\ line[2].rest = line[1].rest - 1
      BY <1>2, <2>3, <2>5 DEF Whole, Chained, Follows
    <2>8. line[2].n = FirstOf(line[1]) /\ FirstOf(line[1]) = line[1].n - line[1].rest + 1
      <3>1. line[2].n \in Nat
        BY <2>1, <2>5, Fields
      <3> QED BY <2>3, <2>6, <2>7, <3>1 DEF LastOf, FirstOf
    <2>9. StartsPacket(l, line'[1].n)
      <3>1. InPacket(line[1])
        BY DEF InPacket
      <3>2. StartsPacket(l, FirstOf(line[1]))
        BY <1>2, <2>5, <3>1 DEF Numbered
      <3> QED BY <2>6, <2>8, <3>2
    <2>10. ASSUME NEW i \in 1 .. Len(line'), OfPacket(line'[i], l) PROVE p[2] < FirstOf(line'[i])
      BY <2>1, <2>10 DEF GoesOn
    <2>11. p[2] <= sent'[l]
      BY DEF GoesOn
    <2>12. bufPos' > 0 /\ connId' = l
      BY <1>2, <2>3
    <2> QED BY <2>2, <2>9, <2>10, <2>11, <2>12 DEF GoesOn, StartsPacket, EndsPacket
  <1> QED BY <1>1, <1>2

(* A byte is read: it goes on with what was read, and what follows with it.*)
LEMMA GoesOnByte ==
  ASSUME Base, Whole, Numbered, Connected, NEW l \in Links, NEW n, connId = l,
         here > 0, Pop, line[1].kind = "byte", line[1].link = l, line[1].n = n,
         line[1].rest = bufPos - 1, bufPos > 0, bufPos' = line[1].rest, UNCHANGED <<sent, ends, connId>>
  PROVE  /\ Byte(l, n) \in Int \X Int /\ Byte(l, n) # Unset
         /\ GoesOn(l, Byte(l, n))'
         /\ \A p \in Int \X Int : GoesOn(l, p) => Continues(l, p, Byte(l, n))
         /\ UpToEnd(l, n, LastOf(line[1]))
  <1>1. /\ Len(line') = Len(line) - 1 /\ Len(line) \in Nat /\ Len(line) > 0
        /\ \A i \in 1 .. Len(line') : i + 1 \in 1 .. Len(line) /\ line'[i] = line[i + 1]
        /\ line # <<>> /\ line[1] \in Tokens /\ \A i \in 1 .. Len(line) : line[i] \in Tokens
        /\ 1 \in 1 .. Len(line)
    BY PopLine, Lengths DEF Base
  <1>2. /\ line[1].rest \in Nat /\ n \in Nat /\ l \in Nat /\ sent[l] \in Nat
        /\ ends \subseteq Links \X Nat
    <2>1. line[1].rest \in Nat /\ n \in Nat
      BY <1>1, Fields
    <2> QED BY <2>1, LinksAssumption DEF Base, TypeOK
  <1>3. /\ FirstOf(line[1]) = n /\ LastOf(line[1]) = n + line[1].rest
        /\ InPacket(line[1]) /\ OfPacket(line[1], l)
    BY DEF FirstOf, LastOf, InPacket, OfPacket
  <1>4. /\ UpToEnd(l, n, LastOf(line[1]))
        /\ \A j \in 2 .. Len(line) : OfPacket(line[j], l) => n < FirstOf(line[j])
    <2>1. 1 + 1 = 2
      OBVIOUS
    <2> QED BY <1>1, <1>3, <2>1 DEF Numbered
  <1>5. Byte(l, n) \in Int \X Int /\ Byte(l, n) # Unset
    <2>1. l # None
      BY <1>2 DEF None
    <2> QED BY <1>2, <2>1 DEF Byte, Unset
  <1>6. LastOf(line[1]) <= sent[l] /\ n <= sent[l]
    <2>1. Byte(l, LastOf(line[1])) \in ends
      BY <1>4 DEF UpToEnd
    <2>2. LastOf(line[1]) <= sent[l]
      BY <2>1 DEF Numbered, Byte
    <2> QED BY <1>2, <1>3, <2>2
  <1>7. ASSUME NEW i \in 1 .. Len(line'), OfPacket(line'[i], l)
        PROVE  n < FirstOf(line'[i])
    <2>1. i + 1 \in 2 .. Len(line) /\ line'[i] = line[i + 1]
      BY <1>1
    <2> QED BY <1>4, <1>7, <2>1
  <1>8. bufPos' > 0 => n + 1 = line'[1].n
    <2> SUFFICES ASSUME bufPos' > 0 PROVE n + 1 = line'[1].n
      OBVIOUS
    <2>1. Len(line) # 1
      BY <1>1 DEF Whole
    <2>2. 1 \in 1 .. Len(line) - 1 /\ 1 \in 1 .. Len(line') /\ 1 + 1 = 2 /\ 2 \in 1 .. Len(line)
      BY <1>1, <2>1
    <2>3. LastOf(line[2]) = LastOf(line[1]) /\ line'[1] = line[2]
      BY <1>1, <2>2 DEF Connected
    <2>4. line[2].kind = "byte" /\ line[2].rest = line[1].rest - 1
      BY <2>2 DEF Whole, Chained, Follows
    <2>5. line[2].n \in Nat
      BY <1>1, <2>2, Fields
    <2> QED BY <1>2, <1>3, <2>3, <2>4, <2>5 DEF LastOf
  <1>9. ~(bufPos' > 0) => Byte(l, n) \in ends
    <2>1. ~(bufPos' > 0) => LastOf(line[1]) = n
      BY <1>2, <1>3
    <2> QED BY <1>4, <2>1 DEF UpToEnd
  <1>10. GoesOn(l, Byte(l, n))'
    <2>1. Byte(l, n)[2] = n
      BY DEF Byte
    <2> QED BY <1>6, <1>7, <1>8, <1>9, <2>1 DEF GoesOn, EndsPacket
  <1>11. ASSUME NEW p \in Int \X Int, GoesOn(l, p) PROVE Continues(l, p, Byte(l, n))
    <2>1. p[2] < n
      BY <1>1, <1>3, <1>11 DEF GoesOn
    <2>2. p[2] + 1 = n \/ (StartsPacket(l, n) /\ EndsPacket(p))
      BY <1>11 DEF GoesOn
    <2>3. Byte(l, n)[1] = l /\ Byte(l, n)[2] = n
      BY DEF Byte
    <2> QED BY <1>2, <2>1, <2>2, <2>3 DEF Continues
  <1> QED BY <1>4, <1>5, <1>10, <1>11

(* A packet is sent: it is a later one. *)
LEMMA GoesOnPacket ==
  ASSUME Base, Numbered, NEW l \in Links, NEW p \in Int \X Int, GoesOn(l, p),
         NEW m \in Links, NEW len \in 1 .. MaxLen, Packet(m, len), bufPos > 0 => line # <<>>
  PROVE  GoesOn(l, p)' /\ ends \subseteq ends'
  <1> DEFINE s == PacketOf(m, len)
  <1>1. /\ s \in Seq(Tokens) /\ Len(s) = len + 1 /\ sent[m] \in Nat /\ len \in Nat /\ len > 0
        /\ \A i \in 1 .. len + 1 : s[i].link = m /\ FirstOf(s[i]) \in Int /\ FirstOf(s[i]) > sent[m]
    <2>0. TypeOK
      BY DEF Base
    <2>1. /\ s \in Seq(Tokens) /\ Len(s) = len + 1 /\ sent[m] \in Nat /\ len \in Nat /\ len > 0
          /\ \A i \in 1 .. len + 1 :
               s[i].link = m /\ FirstOf(s[i]) = IF i = 1 THEN sent[m] + 1 ELSE sent[m] + i - 1
      BY <2>0, PacketNumbers
    <2> HIDE DEF s
    <2>2. \A i \in 1 .. len + 1 :
            LET k == IF i = 1 THEN sent[m] + 1 ELSE sent[m] + i - 1 IN k \in Int /\ k > sent[m]
      BY <2>1
    <2> QED BY <2>1, <2>2
  <1>2. line' = line \o s
    BY DEF Packet
  <1> HIDE DEF s
  <1>3. /\ Len(line) \in Nat /\ (line = <<>> <=> Len(line) = 0)
        /\ \A i \in 1 .. Len(line) : line'[i] = line[i]
        /\ \A i \in 1 .. Len(line') :
             i \in 1 .. Len(line) \/ (i - Len(line) \in 1 .. len + 1 /\ line'[i] = s[i - Len(line)])
    BY <1>1, <1>2, PutLine, Lengths DEF Base
  <1>4. /\ sent' = [sent EXCEPT ![m] = sent[m] + len] /\ sent \in [Links -> Nat]
        /\ ends \subseteq ends' /\ UNCHANGED <<bufPos, connId>>
    BY DEF Packet, Base, TypeOK, drvVars
  <1>5. p[2] <= sent[l] /\ p[2] \in Int
    BY DEF GoesOn
  <1>6. p[2] <= sent'[l]
    <2>1. sent[l] \in Nat /\ sent'[l] = IF l = m THEN sent[m] + len ELSE sent[l]
      BY <1>4
    <2> QED BY <1>1, <1>5, <2>1
  <1>7. ASSUME NEW i \in 1 .. Len(line'), OfPacket(line'[i], l) PROVE p[2] < FirstOf(line'[i])
    <2>1. CASE i \in 1 .. Len(line)
      BY <1>3, <1>7, <2>1 DEF GoesOn
    <2>2. CASE i - Len(line) \in 1 .. len + 1 /\ line'[i] = s[i - Len(line)]
      <3>1. line'[i].link = m /\ FirstOf(line'[i]) \in Int /\ FirstOf(line'[i]) > sent[m] /\ l = m
        BY <1>1, <1>7, <2>2 DEF OfPacket
      <3> QED BY <1>1, <1>5, <3>1
    <2> QED BY <1>3, <2>1, <2>2
  <1>8. bufPos > 0 => line'[1] = line[1]
    BY <1>3
  <1>9. IF bufPos > 0 /\ connId = l
          THEN p[2] + 1 = line[1].n \/ (StartsPacket(l, line[1].n) /\ EndsPacket(p))
          ELSE EndsPacket(p)
    BY DEF GoesOn
  <1>10. IF bufPos' > 0 /\ connId' = l
           THEN p[2] + 1 = line'[1].n \/ ((line'[1].n = 1 \/ Byte(l, line'[1].n - 1) \in ends') /\ EndsPacket(p)')
           ELSE EndsPacket(p)'
    BY <1>4, <1>8, <1>9 DEF StartsPacket, EndsPacket
  <1> QED BY <1>4, <1>6, <1>7, <1>10 DEF GoesOn, StartsPacket

(* What Ordered and WholePackets say of the results d of the reads.        *)
LEMMA OrderedBy ==
  \A l, d : Delivered(l) = d =>
    /\ Ordered(l) <=> \A j \in 0 .. Len(d) : IsLast(d, Len(d), j) => GoesOn(l, ByteAt(l, d, j))
    /\ InPackets(l, Delivered(l)) <=> InPackets(l, d)
  BY DEF Ordered

LEMMA ThenOrderedBy ==
  (\A l, d : Delivered(l) = d =>
     /\ Ordered(l) <=> \A j \in 0 .. Len(d) : IsLast(d, Len(d), j) => GoesOn(l, ByteAt(l, d, j))
     /\ InPackets(l, Delivered(l)) <=> InPackets(l, d))'
  BY OrderedBy, PTL

LEMMA BytesAt ==
  ASSUME NEW l \in Links, NEW d \in Seq(Int \X Int)
  PROVE  \A j \in 0 .. Len(d) : ByteAt(l, d, j) \in Int \X Int
  <1>1. l \in Int
    BY LinksAssumption
  <1>2. \A j \in 0 .. Len(d) : j # 0 => j \in 1 .. Len(d)
    BY LenProperties
  <1>3. \A j \in 1 .. Len(d) : d[j] \in Int \X Int
    BY ElementOfSeq
  <1> QED BY <1>1, <1>2, <1>3 DEF ByteAt, Byte

(* Nothing is delivered of the link, and what follows still goes on. *)
LEMMA OrderedSame ==
  ASSUME NEW l \in Links, NEW d \in Seq(Int \X Int), Delivered(l) = d, Delivered(l)' = d, ends \subseteq ends',
         Ordered(l), InPackets(l, Delivered(l)),
         \A p \in Int \X Int : GoesOn(l, p) => GoesOn(l, p)'
  PROVE  Ordered(l)' /\ InPackets(l, Delivered(l))'
  <1>1. \A j \in 0 .. Len(d) : IsLast(d, Len(d), j) => GoesOn(l, ByteAt(l, d, j))
    BY OrderedBy
  <1>2. \A j \in 0 .. Len(d) : IsLast(d, Len(d), j) => GoesOn(l, ByteAt(l, d, j))'
    BY <1>1, BytesAt
  <1>3. InPackets(l, d)'
    BY OrderedBy, InPacketsStay
  <1> QED BY <1>2, <1>3, ThenOrderedBy

(* A byte is delivered of the link, and goes on with those before it. *)
LEMMA OrderedByte ==
  ASSUME NEW l \in Links, NEW d \in Seq(Int \X Int), NEW e \in Int \X Int, e # Unset,
         Delivered(l) = d, Delivered(l)' = Append(d, e), ends \subseteq ends',
         Ordered(l), InPackets(l, Delivered(l)),
         GoesOn(l, e)', \A p \in Int \X Int : GoesOn(l, p) => Continues(l, p, e)
  PROVE  Ordered(l)' /\ InPackets(l, Delivered(l))'
  <1> DEFINE s == Append(d, e)
  <1>1. \A j \in 0 .. Len(d) : IsLast(d, Len(d), j) => GoesOn(l, ByteAt(l, d, j))
    BY OrderedBy
  <1>2. InPackets(l, s)
    <2>1. \A j \in 0 .. Len(d) : IsLast(d, Len(d), j) => Continues(l, ByteAt(l, d, j), e)
      BY <1>1, BytesAt
    <2>2. InPackets(l, d)
      BY OrderedBy
    <2> QED BY <2>1, <2>2, InPacketsAppend
  <1>3. /\ Len(s) = Len(d) + 1 /\ Len(d) \in Nat
        /\ \A j \in 0 .. Len(d) : ~IsLast(s, Len(d) + 1, j)
        /\ ByteAt(l, s, Len(d) + 1) = e
    BY OneMore
  <1>4. Delivered(l)' = s
    OBVIOUS
  <1> HIDE DEF s
  <1>5. InPackets(l, s)'
    BY <1>2, InPacketsStay
  <1>6. \A j \in 0 .. Len(s) : IsLast(s, Len(s), j) => GoesOn(l, ByteAt(l, s, j))'
    <2> SUFFICES ASSUME NEW j \in 0 .. Len(s), IsLast(s, Len(s), j) PROVE GoesOn(l, ByteAt(l, s, j))'
      OBVIOUS
    <2>1. j = Len(d) + 1
      BY <1>3
    <2> QED BY <1>3, <2>1
  <1> QED BY <1>4, <1>5, <1>6, ThenOrderedBy

(* A read of link 0 without a packet returns a byte that was never set. *)
LEMMA OrderedUnset ==
  ASSUME NEW l \in Links, NEW d \in Seq(Int \X Int),
         Delivered(l) = d, Delivered(l)' = Append(d, Unset), ends \subseteq ends',
         Ordered(l), InPackets(l, Delivered(l)),
         \A p \in Int \X Int : GoesOn(l, p) => GoesOn(l, p)'
  PROVE  Ordered(l)' /\ InPackets(l, Delivered(l))'
  <1> DEFINE s == Append(d, Unset)
  <1>0. Unset \in Int \X Int
    BY DEF Unset, None
  <1>1. \A j \in 0 .. Len(d) : IsLast(d, Len(d), j) => GoesOn(l, ByteAt(l, d, j))
    BY OrderedBy
  <1>2. \A j \in 0 .. Len(d) : IsLast(d, Len(d), j) => GoesOn(l, ByteAt(l, d, j))'
    BY <1>1, BytesAt
  <1>3. /\ Len(s) = Len(d) + 1 /\ Len(d) \in Nat
        /\ \A j \in 0 .. Len(d) : IsLast(s, Len(d) + 1, j) => IsLast(d, Len(d), j)
        /\ \A j \in 0 .. Len(d) : ByteAt(l, s, j) = ByteAt(l, d, j)
        /\ ~IsLast(s, Len(d) + 1, Len(d) + 1)
    <2>1. Len(d) \in 0 .. Len(d)
      BY LenProperties
    <2> QED BY <1>0, <2>1, OneMore
  <1>4. InPackets(l, s)
    BY <1>0, OrderedBy, InPacketsAppend
  <1>5. Delivered(l)' = s
    OBVIOUS
  <1> HIDE DEF s
  <1>6. InPackets(l, s)'
    BY <1>4, InPacketsStay
  <1>7. \A j \in 0 .. Len(s) : IsLast(s, Len(s), j) => GoesOn(l, ByteAt(l, s, j))'
    <2> SUFFICES ASSUME NEW j \in 0 .. Len(s), IsLast(s, Len(s), j) PROVE GoesOn(l, ByteAt(l, s, j))'
      OBVIOUS
    <2>1. j \in 0 .. Len(d)
      BY <1>3
    <2> QED BY <1>2, <1>3, <2>1
  <1> QED BY <1>5, <1>6, <1>7, ThenOrderedBy

(* A packet, a close or an answer comes after what is on the line. *)
LEMMA GoesOnModule ==
  ASSUME Base, Base', Framing, ~lost, Numbered, Module
  PROVE  ends \subseteq ends' /\ \A l \in Links, p \in Int \X Int : GoesOn(l, p) => GoesOn(l, p)'
  <1>1. bufPos > 0 => line # <<>>
    <2>1. pc = "answer" => bufPos = 0
      BY DEF Framing, Placed
    <2> QED BY <2>1, MoreToCome
  <1>2. CASE \E l \in Links, n \in 1 .. MaxLen : Packet(l, n)
    <2>1. ends \subseteq ends'
      BY <1>2 DEF Packet
    <2> QED BY <1>1, <1>2, <2>1, GoesOnPacket
  <1>3. CASE \A l \in Links, n \in 1 .. MaxLen : ~Packet(l, n)
    <2>1. (\E f : Thins(f)) /\ UNCHANGED <<sent, ends>>
      BY <1>3, LineThins DEF Next
    <2>2. PICK f : Thins(f)
      BY <2>1
    <2>3. UNCHANGED <<bufPos, connId>>
      BY <1>3 DEF Module, PeerCloses, Answer, drvVars
    <2>4. line \in Seq(Tokens) /\ Len(line) \in Nat /\ (line = <<>> <=> Len(line) = 0)
      BY Lengths DEF Base
    <2>5. \A s \in Seq(Tokens) : line' = line \o s => (line # <<>> => line'[1] = line[1])
      <3>1. line # <<>> => 1 \in 1 .. Len(line)
        BY <2>4
      <3> QED BY <3>1, PutLine DEF Base
    <2>6. line # <<>> => line'[1] = line[1]
      <3>1. ASSUME NEW l \in Links, PeerCloses(l) PROVE line # <<>> => line'[1] = line[1]
        <4>1. Token("closed", l, 0, 0) \in Tokens
          BY TokenIn
        <4>2. line' = line \o <<Token("closed", l, 0, 0)>> /\ <<Token("closed", l, 0, 0)>> \in Seq(Tokens)
          BY <2>4, <3>1, <4>1, AppendIsConcat DEF PeerCloses
        <4> QED BY <2>5, <4>2
      <3>2. CASE Answer
        <4> DEFINE a == Token("answer", call.sock, IF call.sock \in open THEN 1 ELSE 0, 0)
                   c == Token("closed", call.sock, 0, 0)
        <4>1. call.sock \in Links
          BY <3>2, CallTypes DEF Answer, Base, AnswersOnce
        <4>2. a \in Tokens /\ c \in Tokens
          BY <4>1, TokenIn
        <4>3. line' = line \o <<c>> \o <<a>> \/ line' = line \o <<>> \o <<a>>
          BY <3>2 DEF Answer
        <4> HIDE DEF a, c
        <4>4. <<a>> \in Seq(Tokens) /\ <<c>> \in Seq(Tokens)
          BY <4>2
        <4>5. line \o <<>> = line /\ (line \o <<c>>) \o <<a>> = line \o (<<c>> \o <<a>>)
          BY <2>4, <4>4, ConcatEmptySeq, ConcatAssociative
        <4>6. <<c>> \o <<a>> \in Seq(Tokens)
          BY <4>4, ConcatProperties
        <4>7. \E s \in Seq(Tokens) : line' = line \o s
          BY <4>3, <4>4, <4>5, <4>6, Zenon
        <4> QED BY <2>5, <4>7
      <3> QED BY <1>3, <3>1, <3>2 DEF Module
    <2> QED BY <1>1, <2>1, <2>2, <2>3, <2>6, GoesOnSame
  <1> QED BY <1>2, <1>3

(* So does what is left of the line when the driver has not read a byte.   *)
LEMMA GoesOnUnread ==
  ASSUME Base, Base', Framing, ~lost, ~lost', Numbered, Connected, [Next]_vars,
         ~Module, ~DataByte, ~BufByte
  PROVE  ends \subseteq ends' /\ \A l \in Links, p \in Int \X Int : GoesOn(l, p) => GoesOn(l, p)'
  <1>1. (\E f : Thins(f)) /\ UNCHANGED <<sent, ends>>
    BY LineThins DEF Module
  <1>2. PICK f : Thins(f)
    BY <1>1
  <1>3. CASE UNCHANGED <<line, bufPos, connId>>
    BY <1>1, <1>2, <1>3, GoesOnSame
  <1>4. CASE bufPos = 0 /\ bufPos' = 0
    <2>1. ~(bufPos > 0) /\ ~(bufPos' > 0)
      BY <1>4
    <2> QED BY <1>1, <1>2, <2>1, GoesOnSame
  <1>5. CASE /\ here > 0 /\ Pop /\ line[1].kind = "hdr" /\ bufPos = 0
             /\ bufPos' = line[1].rest /\ connId' = line[1].link
    <2>1. Whole
      BY DEF Framing
    <2> QED BY <1>1, <1>2, <1>5, <2>1, GoesOnHeader
  <1> QED BY <1>3, <1>4, <1>5, StepsInStep

LEMMA NextOrdered ==
  ASSUME Base, Base', Framing, ~lost, ~lost', Numbered, Connected, WholePackets,
         \A l \in Links : Ordered(l), [Next]_vars
  PROVE  WholePackets' /\ \A l \in Links : Ordered(l)'
  <1> SUFFICES ASSUME NEW l \in Links
               PROVE  Ordered(l)' /\ InPackets(l, Delivered(l))'
    BY DEF WholePackets
  <1>0. /\ Ordered(l) /\ InPackets(l, Delivered(l))
        /\ Delivered(l) \in Seq(Int \X Int)
    BY WhatIsDelivered DEF WholePackets
  <1>1. CASE DataByte \/ BufByte
    <2>1. bufPos' = bufPos - 1 /\ bufPos \in Nat /\ pc \in {"data", "fill"}
      BY <1>1, CallTypes DEF DataByte, BufByte
    <2>2. ~Module
      <3>1. bufPos' # bufPos
        BY <2>1
      <3> QED BY <3>1 DEF Module, PeerCloses, Packet, Answer, drvVars
    <2>3. /\ here > 0 /\ Pop /\ line[1].kind = "byte" /\ line[1].link = connId
          /\ line[1].rest = bufPos - 1 /\ bufPos > 0 /\ connId = call.sock
          /\ bufPos' = line[1].rest /\ HeadChar = Byte(connId, line[1].n)
          /\ UNCHANGED <<sent, ends, connId, remote>>
      <3>1. bufPos' # bufPos /\ ~FindHeader /\ ~CmdSend
        BY <2>1 DEF FindHeader, CmdSend
      <3> QED BY <2>1, <2>2, <3>1, StepsInStep
    <2>4. Delivered(l)' = IF call.sock = l THEN Append(Delivered(l), HeadChar) ELSE Delivered(l)
      BY <1>1, Reads
    <2>5. CASE call.sock = l
      <3>1. PICK n : n = line[1].n
        OBVIOUS
      <3>2. Whole
        BY DEF Framing
      <3>3. /\ Byte(l, n) \in Int \X Int /\ Byte(l, n) # Unset
            /\ GoesOn(l, Byte(l, n))'
            /\ \A p \in Int \X Int : GoesOn(l, p) => Continues(l, p, Byte(l, n))
        BY <2>3, <2>5, <3>1, <3>2, GoesOnByte
      <3>4. Delivered(l)' = Append(Delivered(l), Byte(l, n))
        BY <2>3, <2>4, <2>5, <3>1
      <3>5. PICK e : e = Byte(l, n)
        OBVIOUS
      <3>6. /\ e \in Int \X Int /\ e # Unset /\ GoesOn(l, e)'
            /\ \A p \in Int \X Int : GoesOn(l, p) => Continues(l, p, e)
            /\ Delivered(l)' = Append(Delivered(l), e)
        BY <3>3, <3>4, <3>5
      <3> QED BY <1>0, <2>3, <3>6, OrderedByte
    <2>6. CASE call.sock # l
      <3>1. PICK f : Thins(f)
        BY <2>2, LineThins DEF Module
      <3>2. ~(bufPos > 0 /\ connId = l) /\ ~(bufPos' > 0 /\ connId' = l)
        BY <2>3, <2>6
      <3>3. \A p \in Int \X Int : GoesOn(l, p) => GoesOn(l, p)'
        BY <2>3, <3>1, <3>2, GoesOnSame
      <3> QED BY <1>0, <2>3, <2>4, <2>6, <3>3, OrderedSame
    <2> QED BY <2>5, <2>6
  <1>2. CASE ~(DataByte \/ BufByte)
    <2>1. ends \subseteq ends' /\ \A p \in Int \X Int : GoesOn(l, p) => GoesOn(l, p)'
      BY <1>2, GoesOnModule, GoesOnUnread
    <2>2. Delivered(l)' = Delivered(l) \/ Delivered(l)' = Append(Delivered(l), Unset)
      <3>1. CASE ~DataMismatch
        BY <1>2, <3>1, Unread
      <3>2. CASE DataMismatch
        <4>1. /\ pc = "data" /\ pc' \in {"idle", "avail"} /\ call.sock \in Links
              /\ got' = got \/ got' = [got EXCEPT ![call.sock] = Append(@, Unset)]
          BY <3>2, CallTypes DEF DataMismatch, DataFailed, DataDone, Return
        <4>2. Delivered(l) = got[l] /\ Delivered(l)' = got'[l] /\ got \in [Links -> Seq(Int \X Int)]
          BY <4>1, WhatIsDelivered, ThenDelivered DEF Base, TypeOK
        <4>3. got'[l] = got[l] \/ got'[l] = Append(got[l], Unset)
          BY <4>1, <4>2
        <4> QED BY <4>2, <4>3
      <3> QED BY <3>1, <3>2
    <2> QED BY <1>0, <2>1, <2>2, OrderedSame, OrderedUnset
  <1> QED BY <1>1, <1>2

-----------------------------------------------------------------------------
(* What has been read is of the packet whose sender is remembered.         *)

(* OfRemote, of a sender and a set of last bytes. *)
From(rem, E, l, b) == rem[1] = l /\ Reaches(E, l, b[2], rem[2])

LEMMA SourcedFrom ==
  /\ Sourced <=>
       /\ pc \in {"closing", "notice"} => From(remote, ends, call.sock, val)
       /\ \A i \in 1 .. Len(buf) : From(remote, ends, call.sock, buf[i])
       /\ (pc = "idle" /\ ret.sock \in Links) =>
            \A i \in Len(got[ret.sock]) - Taken + 1 .. Len(got[ret.sock]) :
              From(remote, ends, ret.sock, got[ret.sock][i])
  /\ Sourced' <=>
       /\ pc' \in {"closing", "notice"} => From(remote', ends', call'.sock, val')
       /\ \A i \in 1 .. Len(buf') : From(remote', ends', call'.sock, buf'[i])
       /\ (pc' = "idle" /\ ret'.sock \in Links) =>
            \A i \in Len(got'[ret'.sock]) - Taken' + 1 .. Len(got'[ret'.sock]) :
              From(remote', ends', ret'.sock, got'[ret'.sock][i])
  BY DEF Sourced, OfRemote, UpToEnd, From, Reaches

(* A later packet leaves the senders of those before it alone. *)
LEMMA FromStays ==
  ASSUME Base, Base', Numbered, [Next]_vars, remote' = remote
  PROVE  \A l, b : From(remote, ends, l, b) => From(remote', ends', l, b)
  <1> SUFFICES ASSUME NEW l, NEW b, From(remote, ends, l, b)
               PROVE  From(remote', ends', l, b)
    OBVIOUS
  <1>1. CASE \A m \in Links, n \in 1 .. MaxLen : ~Packet(m, n)
    <2>1. ends' = ends
      BY <1>1, LineThins
    <2> QED BY <2>1 DEF From, Reaches
  <1>2. ASSUME NEW m \in Links, NEW len \in 1 .. MaxLen, Packet(m, len)
        PROVE  From(remote', ends', l, b)
    <2>1. /\ ends' = ends \cup {Byte(m, sent[m] + len)} /\ sent[m] \in Nat /\ len \in Nat
          /\ ends \subseteq Links \X Nat /\ remote[2] \in Nat
      <3>1. ends' = ends \cup {Byte(m, sent[m] + len)}
        BY <1>2 DEF Packet
      <3>2. len \in Nat
        BY BoundsAssumption
      <3> QED BY <3>1, <3>2 DEF Base, TypeOK
    <2>2. Byte(l, remote[2]) \in ends /\ b[2] <= remote[2] /\ remote[1] = l
          /\ \A e \in ends : e[1] = l /\ b[2] <= e[2] => remote[2] <= e[2]
      BY DEF From, Reaches
    <2>3. remote[2] <= sent[l]
      BY <2>2 DEF Numbered, Byte
    <2>4. ASSUME NEW e \in ends', e[1] = l, b[2] <= e[2] PROVE remote[2] <= e[2]
      <3>1. CASE e \in ends
        BY <2>2, <2>4, <3>1
      <3>2. CASE e = Byte(m, sent[m] + len)
        <4>1. e[1] = m /\ e[2] = sent[m] + len
          BY <3>2 DEF Byte
        <4> QED BY <2>1, <2>3, <2>4, <4>1
      <3> QED BY <2>1, <2>4, <3>1, <3>2
    <2> QED BY <2>1, <2>2, <2>4 DEF From, Reaches
  <1> QED BY <1>1, <1>2

(* The call is not over, or has read nothing. *)
LEMMA NothingTaken ==
  ASSUME Base', pc' \notin {"closing", "notice"}, buf' = <<>>, pc' = "idle" => Taken' = 0
  PROVE  Sourced'
  <1>1. \A i \in 1 .. Len(buf') : FALSE
    OBVIOUS
  <1>2. ASSUME pc' = "idle", ret'.sock \in Links
        PROVE  \A i \in Len(got'[ret'.sock]) - Taken' + 1 .. Len(got'[ret'.sock]) : FALSE
    <2>1. got'[ret'.sock] \in Seq(Int \X Int)
      BY <1>2 DEF Base, TypeOK
    <2>2. Len(got'[ret'.sock]) \in Nat /\ Taken' = 0
      BY <1>2, <2>1, LenProperties
    <2> QED BY <2>2
  <1> QED BY <1>1, <1>2, SourcedFrom

(* The call has read one byte. *)
LEMMA OneTaken ==
  ASSUME Base, pc' = "idle", buf' = <<>>, NEW l \in Links, NEW v \in Int \X Int, NEW op, op # "readBuf",
         ret' = [op |-> op, sock |-> l, value |-> v], got' = [got EXCEPT ![l] = Append(@, v)],
         From(remote', ends', l, v)
  PROVE  Sourced'
  <1>1. \A i \in 1 .. Len(buf') : FALSE
    OBVIOUS
  <1>2. got[l] \in Seq(Int \X Int) /\ got'[l] = Append(got[l], v)
    BY DEF Base, TypeOK
  <1>3. Len(got'[l]) = Len(got[l]) + 1 /\ Len(got[l]) \in Nat /\ got'[l][Len(got[l]) + 1] = v
    BY <1>2, AppendProperties, LenProperties
  <1>4. Taken' \in {0, 1}
    BY DEF Taken
  <1>5. \A i \in Len(got'[l]) - Taken' + 1 .. Len(got'[l]) : i = Len(got[l]) + 1
    BY <1>3, <1>4
  <1>6. ret'.sock = l
    OBVIOUS
  <1> QED BY <1>1, <1>3, <1>5, <1>6, SourcedFrom

LEMMA SourcedCalls ==
  ASSUME Base, Base',
         \/ Sketch \/ DataMismatch \/ DataPeek \/ BufMismatch
         \/ AvailBuffered \/ AvailNothing \/ FindSkip \/ FindHeader \/ FindTimeout
         \/ CmdSend \/ CmdSkip \/ CmdAnswered \/ CmdTimeout
  PROVE  Sourced'
  <1>1. CASE Sketch
    <2>1. pc' \in {"cmd", "avail"} /\ pc = "idle" /\ buf' = buf
      BY <1>1 DEF Sketch, Call, Accept, locals
    <2> QED BY <2>1, NothingTaken DEF Base, Calling
  <1>2. CASE DataMismatch \/ DataPeek
    <2>1. pc = "data" /\ buf' = buf /\ pc' \in {"idle", "avail"}
      BY <1>2 DEF DataMismatch, DataPeek, DataFailed, DataDone, Return, locals
    <2>2. pc' = "idle" => Taken' = 0
      BY <1>2 DEF DataMismatch, DataPeek, DataFailed, DataDone, Return, Taken, Base, Calling
    <2> QED BY <2>1, <2>2, NothingTaken DEF Base, Calling
  <1>3. CASE BufMismatch
    <2>1. pc = "buf" /\ buf' = buf /\ pc' = "idle" /\ ret'.op = call.op /\ ret'.value = 0 /\ call.op = "readBuf"
      BY <1>3 DEF BufMismatch, Return, locals, Base, Calling
    <2>2. Taken' = 0
      BY <2>1 DEF Taken, None
    <2> QED BY <2>1, <2>2, NothingTaken DEF Base, Calling
  <1>4. CASE AvailBuffered \/ AvailNothing \/ FindSkip \/ FindHeader \/ FindTimeout
    <2>1. pc \in {"avail", "find"} /\ buf' = buf /\ (pc' = "find" \/ \E n, id : AvailDone(n, id))
      BY <1>4 DEF AvailBuffered, AvailNothing, FindSkip, FindHeader, FindTimeout, locals
    <2>2. ASSUME NEW n, NEW id, AvailDone(n, id)
          PROVE  pc' \notin {"closing", "notice"} /\ (pc' = "idle" => Taken' = 0)
      <3>1. CASE call.op \in {"available", "accept", "status", "peek", "flush", "udpPeek"}
        BY <2>2, <3>1 DEF AvailDone, Return, Taken
      <3>2. CASE call.op \in {"read", "readBuf"}
        BY <2>2, <3>2 DEF AvailDone, Return, Taken
      <3> QED BY <2>2, <3>1, <3>2 DEF AvailDone
    <2>3. pc' \notin {"closing", "notice"} /\ (pc' = "idle" => Taken' = 0)
      BY <2>1, <2>2
    <2> QED BY <2>1, <2>3, NothingTaken DEF Base, Calling
  <1>5. CASE CmdSend \/ CmdSkip \/ CmdAnswered \/ CmdTimeout
    <2>1. pc \in {"cmd", "answer"} /\ buf' = buf
      BY <1>5 DEF CmdSend, CmdSkip, CmdAnswered, CmdTimeout, locals
    <2>2. \/ pc' \in {"cmd", "answer"}
          \/ pc' = "idle" /\ ret'.op = call.op
      BY <1>5 DEF CmdSend, CmdSkip, CmdAnswered, CmdTimeout, CmdDone, Return
    <2>3. call.op \notin {"read", "readBuf"}
      BY <2>1 DEF Base, Calling
    <2>4. pc' = "idle" => Taken' = 0
      BY <2>2, <2>3 DEF Taken
    <2> QED BY <2>1, <2>2, <2>4, NothingTaken DEF Base, Calling
  <1> QED BY <1>1, <1>2, <1>3, <1>4, <1>5

(* The reads give what they hold. *)
LEMMA SourcedReads ==
  ASSUME Base, Base', Sourced,
         NotClosing \/ IsClosing \/ NoticeFound \/ BufDone \/ (\E size \in 1 .. MaxLen : BufStart(size))
  PROVE  Sourced'
  <1>0. /\ pc \in {"closing", "notice"} => From(remote, ends, call.sock, val)
        /\ \A i \in 1 .. Len(buf) : From(remote, ends, call.sock, buf[i])
    BY SourcedFrom
  <1>1. /\ remote' = remote /\ ends' = ends /\ call.sock \in Links
        /\ pc # "fill" => buf = <<>>
    <2>1. pc \in {"closing", "notice", "buf", "fill"} /\ remote' = remote /\ ends' = ends
      BY DEF NotClosing, IsClosing, NoticeFound, BufDone, BufStart, drvVars, espVars
    <2> QED BY <2>1, CallTypes DEF Base, Calling
  <1>2. CASE NotClosing \/ NoticeFound
    <2>1. pc \in {"closing", "notice"} /\ call.op \in {"read", "flush"} /\ buf' = buf
      BY <1>2 DEF NotClosing, NoticeFound, Base, Calling
    <2>2. val \in Int \X Int /\ From(remote', ends', call.sock, val)
      BY <1>0, <1>1, <2>1 DEF Base, TypeOK
    <2>3. CASE pc' = "avail"
      BY <1>1, <2>1, <2>3, NothingTaken
    <2>4. CASE pc' # "avail"
      <3>1. /\ pc' = "idle" /\ got' = [got EXCEPT ![call.sock] = Append(@, val)]
            /\ ret' = [op |-> call.op, sock |-> call.sock, value |-> val]
        BY <1>2, <2>1, <2>4 DEF NotClosing, NoticeFound, CloseDone, DataDone, Return
      <3>2. PICK v : v = val
        OBVIOUS
      <3> QED BY <1>1, <2>1, <2>2, <3>1, <3>2, OneTaken
    <2> QED BY <2>3, <2>4
  <1>3. CASE IsClosing \/ (\E size \in 1 .. MaxLen : BufStart(size))
    <2>1. /\ (pc' = "notice" /\ pc = "closing") \/ pc' = "fill"
          /\ UNCHANGED <<call, val, buf>>
      BY <1>3 DEF IsClosing, BufStart, locals
    <2>2. pc' \in {"closing", "notice"} => pc \in {"closing", "notice"}
      BY <2>1
    <2>3. pc' # "idle"
      BY <2>1
    <2> QED BY <1>0, <1>1, <2>1, <2>2, <2>3, SourcedFrom
  <1>4. CASE BufDone
    <2> DEFINE l == call.sock
    <2>1. /\ pc = "fill" /\ pc' = "idle" /\ buf' = <<>> /\ got' = [got EXCEPT ![l] = @ \o buf]
          /\ ret' = [op |-> call.op, sock |-> l, value |-> Len(buf)] /\ call.op = "readBuf"
      BY <1>4 DEF BufDone, Return, Base, Calling
    <2>2. got[l] \in Seq(Int \X Int) /\ got'[l] = got[l] \o buf /\ buf \in Seq(Int \X Int)
      BY <1>1, <2>1 DEF Base, TypeOK
    <2>3. /\ Len(got'[l]) = Len(got[l]) + Len(buf) /\ Len(got[l]) \in Nat /\ Len(buf) \in Nat
          /\ \A i \in 1 .. Len(got[l]) + Len(buf) :
               got'[l][i] = IF i <= Len(got[l]) THEN got[l][i] ELSE buf[i - Len(got[l])]
      BY <2>2, ConcatProperties, LenProperties
    <2>4. Taken' = Len(buf)
      BY <2>1, <2>3 DEF Taken, None
    <2>5. ret'.sock = l
      BY <2>1
    <2> HIDE DEF l
    <2>6. ASSUME NEW i \in Len(got'[l]) - Taken' + 1 .. Len(got'[l])
          PROVE  From(remote', ends', l, got'[l][i])
      <3>1. /\ i \in 1 .. Len(got[l]) + Len(buf) /\ ~(i <= Len(got[l]))
            /\ i - Len(got[l]) \in 1 .. Len(buf)
        BY <2>3, <2>4
      <3>2. got'[l][i] = buf[i - Len(got[l])]
        BY <2>3, <3>1
      <3> QED BY <1>0, <1>1, <3>1, <3>2 DEF l
    <2>7. \A i \in 1 .. Len(buf') : FALSE
      BY <2>1
    <2> QED BY <2>1, <2>5, <2>6, <2>7, SourcedFrom
  <1> QED BY <1>2, <1>3, <1>4

(* A byte is of the packet whose header was the last. *)
LEMMA SourcedByte ==
  ASSUME Base, Base', Framing, ~lost, ~lost', Numbered, Connected, Sourced, [Next]_vars,
         DataByte \/ BufByte
  PROVE  Sourced'
  <1>1. bufPos' = bufPos - 1 /\ bufPos \in Nat /\ pc \in {"data", "fill"} /\ call' = call
    BY CallTypes DEF DataByte, BufByte
  <1>2. ~Module
    <2>1. bufPos' # bufPos
      BY <1>1
    <2> QED BY <2>1 DEF Module, PeerCloses, Packet, Answer, drvVars
  <1>3. /\ here > 0 /\ Pop /\ line[1].kind = "byte" /\ line[1].link = connId
        /\ line[1].rest = bufPos - 1 /\ bufPos > 0 /\ connId = call.sock
        /\ bufPos' = line[1].rest /\ HeadChar = Byte(connId, line[1].n)
        /\ UNCHANGED <<sent, ends, connId, remote>>
    <2>1. bufPos' # bufPos /\ ~FindHeader /\ ~CmdSend
      BY <1>1 DEF FindHeader, CmdSend
    <2> QED BY <1>1, <1>2, <2>1, StepsInStep
  <1>4. call.sock \in Links /\ Whole
    BY <1>1, CallTypes DEF Framing
  <1>5. PICK l : l = call.sock
    OBVIOUS
  <1>6. PICK v : v = HeadChar
    OBVIOUS
  <1>7. v \in Int \X Int /\ From(remote', ends', l, v)
    <2>1. PICK n : n = line[1].n
      OBVIOUS
    <2>2. Byte(l, n) \in Int \X Int /\ UpToEnd(l, n, LastOf(line[1]))
      BY <1>3, <1>4, <1>5, <2>1, GoesOnByte
    <2>3. remote = Byte(l, LastOf(line[1])) /\ v = Byte(l, n)
      BY <1>3, <1>5, <1>6, <2>1 DEF Connected
    <2>4. remote[1] = l /\ remote[2] = LastOf(line[1]) /\ v[2] = n
      BY <2>3 DEF Byte
    <2> QED BY <1>3, <2>2, <2>3, <2>4 DEF From, Reaches, UpToEnd
  <1>8. CASE DataByte
    <2>1. pc = "data" /\ call.op \in {"read", "flush"} /\ buf' = <<>>
      BY <1>8 DEF DataByte, Base, Calling
    <2>2. CASE bufPos = 1
      <3>1. pc' = "closing" /\ val' = v
        BY <1>6, <1>8, <2>2 DEF DataByte
      <3>2. \A i \in 1 .. Len(buf') : FALSE
        BY <2>1
      <3>3. pc' # "idle"
        BY <3>1
      <3> QED BY <1>1, <1>5, <1>7, <3>1, <3>2, <3>3, SourcedFrom
    <2>3. CASE bufPos # 1
      <3>1. DataDone(v)
        BY <1>6, <1>8, <2>3 DEF DataByte
      <3>2. CASE call.op = "flush"
        BY <2>1, <3>1, <3>2, NothingTaken DEF DataDone
      <3>3. CASE call.op # "flush"
        <4>1. /\ pc' = "idle" /\ got' = [got EXCEPT ![l] = Append(@, v)]
              /\ ret' = [op |-> call.op, sock |-> l, value |-> v] /\ call.op # "readBuf"
          BY <1>5, <2>1, <3>1, <3>3 DEF DataDone, Return
        <4> QED BY <1>4, <1>5, <1>7, <2>1, <4>1, OneTaken
      <3> QED BY <3>2, <3>3
    <2> QED BY <2>2, <2>3
  <1>9. CASE BufByte
    <2>1. pc' = "fill" /\ buf' = Append(buf, v)
      BY <1>6, <1>9 DEF BufByte
    <2>2. buf \in Seq(Int \X Int)
      BY DEF Base, TypeOK
    <2>3. /\ Len(buf') = Len(buf) + 1 /\ Len(buf) \in Nat /\ buf'[Len(buf) + 1] = v
          /\ \A i \in 1 .. Len(buf) : buf'[i] = buf[i]
      BY <1>7, <2>1, <2>2, AppendProperties, LenProperties
    <2>4. \A i \in 1 .. Len(buf) : From(remote, ends, call.sock, buf[i])
      BY SourcedFrom
    <2>5. ASSUME NEW i \in 1 .. Len(buf') PROVE From(remote', ends', call'.sock, buf'[i])
      <3>1. CASE i \in 1 .. Len(buf)
        BY <1>1, <1>3, <2>3, <2>4, <3>1
      <3>2. CASE i = Len(buf) + 1
        BY <1>1, <1>5, <1>7, <2>3, <3>2
      <3> QED BY <2>3, <3>1, <3>2
    <2>6. pc' \notin {"idle", "closing", "notice"}
      BY <2>1
    <2> QED BY <2>5, <2>6, SourcedFrom
  <1> QED BY <1>8, <1>9

LEMMA NextSourced ==
  ASSUME Base, Base', Framing, ~lost, ~lost', Numbered, Connected, Sourced, [Next]_vars
  PROVE  Sourced'
  <1>1. CASE DataByte \/ BufByte
    BY <1>1, SourcedByte
  <1>2. CASE \/ Sketch \/ DataMismatch \/ DataPeek \/ BufMismatch
             \/ AvailBuffered \/ AvailNothing \/ FindSkip \/ FindHeader \/ FindTimeout
             \/ CmdSend \/ CmdSkip \/ CmdAnswered \/ CmdTimeout
    BY <1>2, SourcedCalls
  <1>3. CASE NotClosing \/ IsClosing \/ NoticeFound \/ BufDone \/ (\E size \in 1 .. MaxLen : BufStart(size))
    BY <1>3, SourcedReads
  <1>4. CASE Module \/ Arrive \/ UNCHANGED vars
    <2>1. UNCHANGED <<remote, pc, call, val, buf, got, ret>>
      BY <1>4 DEF Module, PeerCloses, Packet, Answer, Arrive, vars, drvVars, locals
    <2>2. \A l, b : From(remote, ends, l, b) => From(remote', ends', l, b)
      BY <2>1, FromStays
    <2>3. Taken' = Taken
      BY <2>1 DEF Taken
    <2> QED BY <2>1, <2>2, <2>3, SourcedFrom
  <1> QED BY <1>1, <1>2, <1>3, <1>4, NothingAwaited DEF Next, Driver

-----------------------------------------------------------------------------
LEMMA InitTracing == Init => Tracing
  <1> SUFFICES ASSUME Init PROVE Tracing
    OBVIOUS
  <1>1. Base /\ Framing
    BY InitBase, InitFraming
  <1>2. line = <<>> /\ Len(line) = 0 /\ bufPos = 0 /\ ends = {} /\ sent = [l \in Links |-> 0]
        /\ pc = "idle" /\ ret.sock = 0 /\ ret.op = "none" /\ buf = <<>> /\ got = [l \in Links |-> <<>>]
    BY DEF Init, NoRet
  <1>3. \A i \in 1 .. Len(line) : FALSE
    BY <1>2
  <1>4. Numbered
    BY <1>2, <1>3 DEF Numbered
  <1>5. Connected
    <2>1. \A i \in 1 .. Len(line) - 1 : FALSE
      BY <1>2
    <2> QED BY <1>2, <2>1 DEF Connected
  <1>6. \A l \in Links : Delivered(l) = <<>> /\ Len(Delivered(l)) = 0
    BY <1>1, <1>2, WhatIsDelivered
  <1>7. \A l \in Links : InPackets(l, Delivered(l))
    <2> SUFFICES ASSUME NEW l \in Links PROVE InPackets(l, Delivered(l))
      OBVIOUS
    <2>1. \A i \in 1 .. Len(Delivered(l)) : FALSE
      BY <1>6
    <2> QED BY <2>1 DEF InPackets
  <1>8. \A l \in Links : Ordered(l)
    <2> SUFFICES ASSUME NEW l \in Links, NEW j \in 0 .. Len(Delivered(l))
                 PROVE  GoesOn(l, ByteAt(l, Delivered(l), j))
      BY DEF Ordered
    <2>1. j = 0
      BY <1>6
    <2>2. ByteAt(l, Delivered(l), j)[2] = 0
      BY <2>1 DEF ByteAt, Byte
    <2>3. sent[l] = 0
      BY <1>2
    <2>4. ~(bufPos > 0)
      BY <1>2
    <2> QED BY <1>3, <2>2, <2>3, <2>4 DEF GoesOn, EndsPacket
  <1>9. Sourced
    <2>1. Taken = 0
      BY <1>2 DEF Taken
    <2>2. ASSUME ret.sock \in Links
          PROVE  \A i \in Len(got[ret.sock]) - Taken + 1 .. Len(got[ret.sock]) : FALSE
      <3>1. Len(got[ret.sock]) = 0
        BY <1>2, <2>2
      <3> QED BY <2>1, <3>1
    <2>3. \A i \in 1 .. Len(buf) : FALSE
      BY <1>2
    <2> QED BY <1>2, <2>2, <2>3, SourcedFrom
  <1> QED BY <1>1, <1>4, <1>5, <1>7, <1>8, <1>9 DEF Tracing, WholePackets

LEMMA NextTracing ==
  ASSUME Base, Base', Framing, Framing', Tracing, [Next]_vars
  PROVE  Tracing'
  <1>1. Numbered'
    BY NextNumbered DEF Tracing
  <1>2. ASSUME ~lost' PROVE Connected' /\ Sourced' /\ WholePackets' /\ \A l \in Links : Ordered(l)'
    <2>1. ~lost
      BY <1>2, LostStays
    <2> QED BY <1>2, <2>1, NextConnected, NextSourced, NextOrdered DEF Tracing
  <1> QED BY <1>1, <1>2 DEF Tracing

(* The inductive invariant behind the next two: the numbers on the line,   *)
(* the packet that _connId, _bufPos and the remembered sender describe, and*)
(* what each link has read go together in every state, for every sketch    *)
(* that keeps the driver in step (availData, getData, getDataBuf,          *)
(* espEmptyBuf).                                                           *)
THEOREM TracingHolds ==
  ASSUME KeepsStep
  PROVE  Spec => []Tracing
  <1>1. Init => Tracing
    BY InitTracing
  <1>2. Base /\ Base' /\ Framing /\ Framing' /\ Tracing /\ [Next]_vars => Tracing'
    BY NextTracing
  <1> QED BY <1>1, <1>2, BaseInvariance, FramingHolds, PTL DEF Spec

(* A sketch that drains its packets before it turns to another link or     *)
(* gives a command reads whole packets, in the order sent, however many a  *)
(* command throws away in between: no command cuts a packet, and no byte of*)
(* another link gets into one (getData, getDataBuf, espEmptyBuf).          *)
THEOREM PacketsAreWhole ==
  ASSUME KeepsStep
  PROVE  Spec => []WholePackets
  <1>1. Tracing => WholePackets
    BY DEF Tracing, WholePackets
  <1> QED BY <1>1, TracingHolds, PTL

(* After a read of a UDP object remoteIP and remotePort are those of the   *)
(* datagram it was from, and a read of many bytes is of one datagram, for  *)
(* every number of sockets, whichever of them the poll that found the      *)
(* header was for (availData, WiFiEspUDP::read, remoteIP, remotePort).     *)
THEOREM SenderIsRemote ==
  ASSUME KeepsStep
  PROVE  Spec => []RemoteIsSender
  <1>1. Tracing => RemoteIsSender
    BY LinksAssumption DEF Tracing, Sourced, RemoteIsSender
  <1> QED BY <1>1, TracingHolds, PTL
=============================================================================
