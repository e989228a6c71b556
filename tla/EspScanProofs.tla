---------------------------- MODULE EspScanProofs ----------------------------
(* The scan for networks, for a list and an answer of any length: the list *)
(* that is printed is that of this answer, a pause of the module spoils at *)
(* most the entry it falls in, and an answer that fits is read to its end. *)
EXTENDS EspScan, SequenceTheorems, FiniteSetTheorems, WellFoundedInduction, TLAPS

-----------------------------------------------------------------------------
(* Why it holds.                                                           *)

Pause == Token("pause", 0)

(* What is left of a line after its first p tokens. *)
From(L, p) == SubSeq(L, p + 1, Len(L))

(* The networks of an answer, as Networks gives them: a name has no number *)
(* in it, and one that is too long has no quote either.                    *)
Net == [encr : Nat, rssi : Nat, name : Seq(Tokens)]
Named(net) ==
  /\ net \in Net
  /\ \A k \in 1 .. Len(net.name) : net.name[k].kind \in {"text", "comma", "quote", "long"}
  /\ (\E k \in 1 .. Len(net.name) : net.name[k].kind = "long") => Len(net.name) = 1

(* The answer up to the end of each network, and where each one starts; the*)
(* last start is that of OK.                                               *)
Upto(seqs) ==
  LET f[i \in 1 .. Len(seqs)] == IF i = 1 THEN seqs[i] ELSE f[i - 1] \o seqs[i]
  IN  f
Before(f, j) == IF j = 1 THEN 0 ELSE Len(f[j - 1])
Starts(nets) ==
  LET f == Upto([i \in DOMAIN nets |-> Fields(nets[i])])
  IN  [j \in 1 .. Len(nets) + 1 |-> Before(f, j) + 1]

(* The line with a pause before the z-th token of the answer, or none, and *)
(* where the x-th token of the answer is then.                             *)
Laid(R, z) == IF z = 0 THEN R ELSE InsertAt(R, z, Pause)
Moved(z, x) == IF z # 0 /\ z <= x THEN x + 1 ELSE x

(* A network as the code lists it: a name is cut at its first quote, and    *)
(* missing when it fills the ring buffer.                                  *)
Shown(net) ==
  LET quotes == {k \in DOMAIN net.name : net.name[k].kind = "quote"}
      long == \E k \in DOMAIN net.name : net.name[k].kind = "long"
      name == CASE long        -> <<>>
                [] quotes # {} -> SubSeq(net.name, 1, Min(quotes) - 1)
                [] OTHER       -> net.name
  IN  [net EXCEPT !.name = name]

(* The i-th place of the list is that of the i-th network of the answer. *)
Right(i) == [encr |-> encr[i - 1], name |-> ssid[i - 1], rssi |-> rssi[i - 1]] = Shown(seen[i])

(* All of the first n places are right but for one that a pause has spoilt.*)
Spared(n, spoilt) ==
  IF spoilt THEN late /\ \E s \in 1 .. n : \A i \in 1 .. n : i = s \/ Right(i)
  ELSE \A i \in 1 .. n : Right(i)

(* The scan has got as far as the place that is to be filled next. *)
Reading ==
  \E R \in Replies(seen) : \E z \in 0 .. Len(R) :
    LET e == Starts(seen)
        j == ssidListNum + 1
    IN  /\ z # 0 => late
        /\ pc = "first" => line = Laid(R, z)
        /\ pc = "entry" =>
             /\ j <= Len(seen) /\ line = From(Laid(R, z), Moved(z, e[j]))
             /\ Spared(ssidListNum, z # 0 /\ z <= e[j])

(* The list is that of the answer. *)
Complete(n) ==
  /\ n = (IF Len(seen) < MaxNum THEN Len(seen) ELSE MaxNum - 1)
  /\ Spared(n, FALSE) \/ Spared(n, TRUE)
  /\ Len(seen) <= MaxNum => line = <<>>

(* What was printed is what the code lists of the answer: of a full list    *)
(* the last entry is left out.                                             *)
Misread(i) == printed[i] # Shown(seen[i])

ListAsRead ==
  (Listed /\ quiet) =>
    /\ DOMAIN printed = 1 .. Len(printed)
    /\ Len(printed) = Min({Len(seen), MaxNum - 1})
    /\ Cardinality({i \in DOMAIN printed : Misread(i)}) <= IF late THEN 1 ELSE 0

(* The inductive invariant for ListIsAnswer and QuietAfter. *)
Scanning ==
  /\ TypeOK
  /\ seen \in Seq(Net) /\ \A i \in 1 .. Len(seen) : Named(seen[i])
  /\ quiet /\ pc \in {"first", "entry"} => Reading
  /\ quiet /\ pc = "first" => ssidListNum = 0
  /\ quiet /\ pc = "done" /\ idx # NoTag => Complete(ssidListNum)
  /\ quiet /\ pc = "list" /\ ret # -1 => Complete(ret)
  /\ pc = "idle" /\ scans > 0 => ListAsRead /\ QuietAfter

-----------------------------------------------------------------------------
(* Numbers and sequences.                                                  *)

(* A set of naturals that is not empty has a least element. *)
LEMMA LeastNat ==
  ASSUME NEW T, T \subseteq Nat, T # {}
  PROVE  Min(T) \in T /\ \A y \in T : Min(T) <= y
  <1>1. PICK x \in T : \A y \in T : ~(<<y, x>> \in OpToRel(<, Nat))
    BY WFMin, NatLessThanWellFounded
  <1>2. \A y \in T : ~(y < x)
    BY <1>1 DEF OpToRel
  <1>3. \E m \in T : \A y \in T : m <= y
    BY <1>2
  <1> QED BY <1>3 DEF Min

(* Induction over 0 .. n, of a set. *)
LEMMA UpToNat ==
  ASSUME NEW n \in Nat, NEW S, 0 \in S, \A m \in 0 .. n - 1 : m \in S => m + 1 \in S
  PROVE  \A m \in 0 .. n : m \in S
  <1> SUFFICES ASSUME NEW m \in 0 .. n, m \notin S PROVE FALSE
    OBVIOUS
  <1> DEFINE T == {k \in 0 .. n : k \notin S}
  <1>1. T # {} /\ T \subseteq Nat
    OBVIOUS
  <1>2. Min(T) \in T /\ \A y \in T : Min(T) <= y
    BY <1>1, LeastNat
  <1>3. Min(T) \in 0 .. n /\ Min(T) \notin S
    BY <1>2
  <1> DEFINE k == Min(T) - 1
  <1>4. k \in 0 .. n - 1 /\ k + 1 = Min(T) /\ ~(Min(T) <= k)
    BY <1>3
  <1> HIDE DEF k
  <1>5. k \in S
    <2>1. k \notin T /\ k \in 0 .. n
      BY <1>2, <1>4
    <2> QED BY <2>1
  <1> QED BY <1>3, <1>4, <1>5

LEMMA FromProperties ==
  ASSUME NEW S, NEW L \in Seq(S), NEW p \in 0 .. Len(L)
  PROVE  /\ From(L, p) \in Seq(S) /\ Len(From(L, p)) = Len(L) - p /\ Len(L) \in Nat
         /\ \A i \in 1 .. Len(L) - p : p + i \in 1 .. Len(L) /\ From(L, p)[i] = L[p + i]
  <1>1. Len(L) \in Nat /\ \A i \in 1 .. Len(L) : L[i] \in S
    BY LenProperties, ElementOfSeq
  <1>2. \A i \in p + 1 .. Len(L) : L[i] \in S
    BY <1>1
  <1>3. /\ From(L, p) \in Seq(S)
        /\ Len(From(L, p)) = IF p + 1 <= Len(L) THEN Len(L) - (p + 1) + 1 ELSE 0
        /\ \A i \in 1 .. Len(L) - (p + 1) + 1 : From(L, p)[i] = L[(p + 1) + i - 1]
    BY <1>1, <1>2, SubSeqProperties DEF From
  <1>4. Len(From(L, p)) = Len(L) - p
    BY <1>1, <1>3
  <1>5. ASSUME NEW i \in 1 .. Len(L) - p PROVE p + i \in 1 .. Len(L) /\ From(L, p)[i] = L[p + i]
    <2>1. i \in 1 .. Len(L) - (p + 1) + 1 /\ (p + 1) + i - 1 = p + i /\ p + i \in 1 .. Len(L)
      BY <1>1
    <2> QED BY <1>3, <2>1
  <1> QED BY <1>1, <1>3, <1>4, <1>5

(* Two sequences with the same elements are one. *)
LEMMA SameSeq ==
  ASSUME NEW S, NEW a \in Seq(S), NEW b \in Seq(S), Len(a) = Len(b), \A i \in 1 .. Len(a) : a[i] = b[i]
  PROVE  a = b
  BY SeqEqual

LEMMA FromFrom ==
  ASSUME NEW S, NEW L \in Seq(S), NEW p \in 0 .. Len(L), NEW q \in 0 .. Len(L) - p
  PROVE  From(From(L, p), q) = From(L, p + q)
  <1>1. /\ From(L, p) \in Seq(S) /\ Len(From(L, p)) = Len(L) - p /\ Len(L) \in Nat
        /\ \A i \in 1 .. Len(L) - p : From(L, p)[i] = L[p + i]
    BY FromProperties
  <1>2. p + q \in 0 .. Len(L)
    BY <1>1
  <1>3. /\ From(L, p + q) \in Seq(S) /\ Len(From(L, p + q)) = Len(L) - (p + q)
        /\ \A i \in 1 .. Len(L) - (p + q) : From(L, p + q)[i] = L[p + q + i]
    BY <1>2, FromProperties
  <1> DEFINE M == From(L, p)
  <1>4. /\ From(M, q) \in Seq(S) /\ Len(From(M, q)) = Len(M) - q
        /\ \A i \in 1 .. Len(M) - q : From(M, q)[i] = M[q + i]
    <2>1. M \in Seq(S) /\ q \in 0 .. Len(M)
      BY <1>1
    <2> HIDE DEF M
    <2> QED BY <2>1, FromProperties
  <1> HIDE DEF M
  <1>5. Len(From(M, q)) = Len(From(L, p + q))
    <2>1. Len(M) = Len(L) - p /\ Len(L) \in Nat
      BY <1>1 DEF M
    <2> QED BY <1>3, <1>4, <2>1
  <1>6. ASSUME NEW i \in 1 .. Len(From(M, q)) PROVE From(M, q)[i] = From(L, p + q)[i]
    <2>1. /\ i \in 1 .. Len(M) - q /\ q + i \in 1 .. Len(L) - p /\ i \in 1 .. Len(L) - (p + q)
          /\ p + (q + i) = p + q + i
      BY <1>1, <1>2, <1>4, <1>5 DEF M
    <2>2. From(M, q)[i] = L[p + (q + i)]
      BY <1>1, <1>4, <2>1 DEF M
    <2>3. From(L, p + q)[i] = L[p + q + i]
      BY <1>3, <2>1
    <2> QED BY <2>1, <2>2, <2>3
  <1> QED BY <1>3, <1>4, <1>5, <1>6, SameSeq DEF M

-----------------------------------------------------------------------------
(* What a wait reads.                                                      *)

Stop(t, kinds) == t.kind \in kinds \cup {"pause"}

(* The tokens after the p-th up to the first that stops the wait, the q-th.*)
LEMMA WaitStops ==
  ASSUME NEW S, NEW L \in Seq(S), NEW p \in 0 .. Len(L), NEW kinds, NEW q \in p + 1 .. Len(L),
         Stop(L[q], kinds), \A i \in p + 1 .. q - 1 : ~Stop(L[i], kinds)
  PROVE  LET w == Wait(From(L, p), kinds)
         IN  /\ w.found = (L[q].kind # "pause") /\ w.at = L[q] /\ w.rest = From(L, q)
             /\ w.text = SubSeq(From(L, p), 1, q - p - 1)
  <1> DEFINE M == From(L, p)
             stops == {i \in DOMAIN M : M[i].kind \in kinds \cup {"pause"}}
             k == IF stops = {} THEN Len(M) + 1 ELSE Min(stops)
             at == IF stops = {} THEN Pause ELSE M[k]
  <1>0. /\ M \in Seq(S) /\ Len(M) = Len(L) - p /\ Len(L) \in Nat
        /\ \A i \in 1 .. Len(L) - p : M[i] = L[p + i]
    <2>1. /\ From(L, p) \in Seq(S) /\ Len(From(L, p)) = Len(L) - p /\ Len(L) \in Nat
          /\ \A i \in 1 .. Len(L) - p : p + i \in 1 .. Len(L) /\ From(L, p)[i] = L[p + i]
      BY FromProperties
    <2> QED BY <2>1
  <1> HIDE DEF M
  <1>1. DOMAIN M = 1 .. Len(M) /\ Len(M) \in Nat
    BY <1>0, LenProperties
  <1>2. q - p \in stops
    <2>1. q - p \in 1 .. Len(M) /\ p + (q - p) = q
      BY <1>0
    <2> QED BY <1>0, <1>1, <2>1 DEF Stop
  <1>3. \A i \in stops : i \in 1 .. Len(M) /\ Stop(M[i], kinds)
    BY <1>1 DEF Stop
  <1>4. k \in stops /\ k <= q - p /\ k = Min(stops) /\ at = M[k]
    <2>1. stops \subseteq Nat /\ stops # {}
      BY <1>2, <1>3
    <2>2. Min(stops) \in stops /\ \A y \in stops : Min(stops) <= y
      BY <2>1, LeastNat
    <2> QED BY <1>2, <2>1, <2>2
  <1>9. Wait(M, kinds) = [found |-> at.kind # "pause", at |-> at,
                          text |-> SubSeq(M, 1, k - 1), rest |-> From(M, k)]
    BY DEF Wait, From, Pause
  <1> HIDE DEF k, at, stops
  <1>5. k \in 1 .. Len(M) /\ Stop(M[k], kinds) /\ p + k \in p + 1 .. Len(L) /\ M[k] = L[p + k]
    BY <1>0, <1>1, <1>3, <1>4
  <1>6. k = q - p /\ p + k = q
    <2>2. Stop(L[p + k], kinds)
      BY <1>5
    <2>1. p + k \notin p + 1 .. q - 1
      BY <2>2
    <2>3. k \in Nat /\ k > 0 /\ k <= q - p
      BY <1>1, <1>4, <1>5
    <2> QED BY <1>0, <2>1, <2>3
  <1>8. From(M, k) = From(L, q)
    <2>1. k \in 0 .. Len(L) - p
      BY <1>0, <1>5
    <2>2. From(From(L, p), k) = From(L, p + k)
      BY <2>1, FromFrom
    <2> QED BY <1>6, <2>2 DEF M
  <1>7. at = L[q] /\ k - 1 = q - p - 1
    BY <1>4, <1>5, <1>6
  <1>10. Wait(M, kinds) = [found |-> L[q].kind # "pause", at |-> L[q],
                           text |-> SubSeq(M, 1, q - p - 1), rest |-> From(L, q)]
    BY <1>7, <1>8, <1>9
  <1> QED BY <1>10 DEF M

(* A wait for something that is there ends at it, or before it. *)
LEMMA WaitEnds ==
  ASSUME NEW S, NEW L \in Seq(S), NEW p \in 0 .. Len(L), NEW kinds, NEW t \in p + 1 .. Len(L),
         Stop(L[t], kinds)
  PROVE  \E q \in p + 1 .. t :
           /\ Stop(L[q], kinds) /\ \A i \in p + 1 .. q - 1 : ~Stop(L[i], kinds)
           /\ Wait(From(L, p), kinds).rest = From(L, q)
           /\ Wait(From(L, p), kinds).at = L[q]
  <1> DEFINE T == {i \in p + 1 .. t : Stop(L[i], kinds)}
             q == Min(T)
  <1>1. Len(L) \in Nat
    BY LenProperties
  <1>2. t \in T /\ T \subseteq Nat
    BY <1>1
  <1>3. q \in T /\ \A y \in T : q <= y
    BY <1>2, LeastNat
  <1> HIDE DEF q
  <1>4. q \in p + 1 .. t /\ q \in p + 1 .. Len(L) /\ Stop(L[q], kinds)
    BY <1>1, <1>3
  <1>5. ASSUME NEW i \in p + 1 .. q - 1 PROVE ~Stop(L[i], kinds)
    <2>1. i \notin T /\ i \in p + 1 .. t
      BY <1>3, <1>4
    <2> QED BY <2>1
  <1>6. Wait(From(L, p), kinds).rest = From(L, q) /\ Wait(From(L, p), kinds).at = L[q]
    BY <1>4, <1>5, WaitStops
  <1> QED BY <1>4, <1>5, <1>6

(* What a wait returns, whatever is on the line. *)
LEMMA WaitTypes ==
  ASSUME NEW L \in Seq(Tokens), NEW kinds
  PROVE  LET w == Wait(L, kinds)
         IN  /\ w.found = (w.at.kind # "pause") /\ w.at \in Tokens /\ w.at.kind \in kinds \cup {"pause"}
             /\ w.text \in Seq(Tokens) /\ w.rest \in Seq(Tokens)
  <1> DEFINE stops == {i \in DOMAIN L : L[i].kind \in kinds \cup {"pause"}}
             k == IF stops = {} THEN Len(L) + 1 ELSE Min(stops)
             at == IF stops = {} THEN Pause ELSE L[k]
  <1>1. Len(L) \in Nat /\ DOMAIN L = 1 .. Len(L) /\ \A i \in 1 .. Len(L) : L[i] \in Tokens
    BY LenProperties, ElementOfSeq
  <1>2. stops # {} => Min(stops) \in stops
    <2>1. stops \subseteq Nat
      BY <1>1
    <2> HIDE DEF stops
    <2> QED BY <2>1, LeastNat
  <1>3. k \in 1 .. Len(L) + 1
    BY <1>1, <1>2
  <1>4. at \in Tokens /\ at.kind \in kinds \cup {"pause"}
    <2>1. Pause \in Tokens /\ Pause.kind = "pause"
      BY DEF Pause, Token, Tokens, Kinds
    <2>2. stops # {} => L[k] \in Tokens /\ L[k].kind \in kinds \cup {"pause"}
      BY <1>1, <1>2
    <2> QED BY <2>1, <2>2
  <1> HIDE DEF k, at, stops
  <1>5. SubSeq(L, 1, k - 1) \in Seq(Tokens)
    <2>1. \A i \in 1 .. k - 1 : L[i] \in Tokens
      BY <1>1, <1>3
    <2> QED BY <1>3, <2>1, SubSeqProperties
  <1>6. SubSeq(L, k + 1, Len(L)) \in Seq(Tokens)
    <2>1. \A i \in k + 1 .. Len(L) : L[i] \in Tokens
      BY <1>1, <1>3
    <2> QED BY <1>1, <1>3, <2>1, SubSeqProperties
  <1>7. Wait(L, kinds) = [found |-> at.kind # "pause", at |-> at, text |-> SubSeq(L, 1, k - 1),
                          rest |-> SubSeq(L, k + 1, Len(L))]
    BY DEF Wait, stops, k, at, Pause
  <1> QED BY <1>4, <1>5, <1>6, <1>7

LEMMA ReadTypes ==
  ASSUME NEW L \in Seq(Tokens)
  PROVE  /\ parseInt(L).val \in Nat /\ parseInt(L).rest \in Seq(Tokens)
         /\ \A tag, findTags :
              /\ readUntil(L, tag, findTags).rest \in Seq(Tokens)
              /\ readUntil(L, tag, findTags).text \in Seq(Tokens)
              /\ readUntil(L, tag, findTags).idx \in {NoTag, 0, 1, NUMESPTAGS}
  <1>1. parseInt(L).val \in Nat /\ parseInt(L).rest \in Seq(Tokens)
    <2>1. Wait(L, {"number"}).at \in Tokens /\ Wait(L, {"number"}).rest \in Seq(Tokens)
      BY WaitTypes
    <2> QED BY <2>1 DEF parseInt, Tokens
  <1>2. ASSUME NEW tag, NEW findTags
        PROVE  /\ readUntil(L, tag, findTags).rest \in Seq(Tokens)
               /\ readUntil(L, tag, findTags).text \in Seq(Tokens)
               /\ readUntil(L, tag, findTags).idx \in {NoTag, 0, 1, NUMESPTAGS}
    <2> DEFINE kinds == {tag} \cup (IF findTags THEN {"OK", "ERROR"} ELSE {})
               w == Wait(L, kinds)
    <2>1. /\ w.found = (w.at.kind # "pause") /\ w.at.kind \in kinds \cup {"pause"}
          /\ w.text \in Seq(Tokens) /\ w.rest \in Seq(Tokens)
      BY WaitTypes
    <2>2. w.found => w.at.kind \in {tag, "OK", "ERROR"}
      BY <2>1
    <2> HIDE DEF w
    <2>3. /\ readUntil(L, tag, findTags).text = w.text /\ readUntil(L, tag, findTags).rest = w.rest
          /\ readUntil(L, tag, findTags).idx =
               CASE ~w.found -> NoTag [] w.at.kind = tag -> NUMESPTAGS
                 [] w.at.kind = "OK" -> 0 [] w.at.kind = "ERROR" -> 1
      BY DEF readUntil, w
    <2> HIDE DEF kinds
    <2>4. readUntil(L, tag, findTags).idx \in {NoTag, 0, 1, NUMESPTAGS}
      BY <2>2, <2>3
    <2> QED BY <2>1, <2>3, <2>4
  <1> QED BY <1>1, <1>2

-----------------------------------------------------------------------------
(* The answer.                                                             *)

LEMMA AlphabetIn ==
  /\ \A v \in Nat : /\ Text(v) \in Tokens /\ Text(v).kind = "text"
                    /\ Token("long", v) \in Tokens /\ Token("long", v).kind = "long"
                    /\ Token("number", v) \in Tokens /\ Token("number", v).kind = "number"
                    /\ Token("number", v).val = v
                    /\ Token("entry", v) \in Tokens /\ Token("entry", v).kind = "entry"
                    /\ Token("OK", v) \in Tokens /\ Token("OK", v).kind = "OK"
                    /\ Token("ERROR", v) \in Tokens /\ Token("ERROR", v).kind = "ERROR"
  /\ Comma \in Tokens /\ Comma.kind = "comma" /\ Quote \in Tokens /\ Quote.kind = "quote"
  /\ Pause \in Tokens /\ Pause.kind = "pause"
  BY DEF Text, Comma, Quote, Pause, Token, Tokens, Kinds

LEMMA NamesAre ==
  ASSUME NEW v \in Nat, NEW name \in Names(v)
  PROVE  /\ name \in Seq(Tokens)
         /\ \A k \in 1 .. Len(name) : name[k].kind \in {"text", "comma", "quote", "long"}
         /\ (\E k \in 1 .. Len(name) : name[k].kind = "long") => Len(name) = 1
  <1> DEFINE x == Text(v)
             y == Token("long", v)
             c == Comma
             q == Quote
  <1>1. /\ x \in Tokens /\ x.kind = "text" /\ y \in Tokens /\ y.kind = "long"
        /\ c \in Tokens /\ c.kind = "comma" /\ q \in Tokens /\ q.kind = "quote"
    BY AlphabetIn
  <1>2. name \in {<<>>, <<x>>, <<x, c, x>>, <<x, q, x>>, <<y>>}
    BY DEF Names
  <1> HIDE DEF x, y, c, q
  <1>3. CASE name = <<>>
    BY <1>3
  <1>4. CASE name = <<x>>
    BY <1>1, <1>4
  <1>5. CASE name = <<x, c, x>>
    BY <1>1, <1>5
  <1>6. CASE name = <<x, q, x>>
    BY <1>1, <1>6
  <1>7. CASE name = <<y>>
    BY <1>1, <1>7
  <1> QED BY <1>2, <1>3, <1>4, <1>5, <1>6, <1>7

LEMMA NetworksAre ==
  ASSUME scans \in Nat, NEW n \in Nat, NEW nets \in Networks(n)
  PROVE  /\ nets \in Seq(Net) /\ Len(nets) = n
         /\ \A i \in 1 .. n : Named(nets[i])
  <1> DEFINE v(i) == 10 * (scans + 1) + i
  <1>1. PICK name \in Names(v(1)) :
          nets = [i \in 1 .. n |-> [encr |-> v(i), rssi |-> v(i),
                                    name |-> IF i = 1 THEN name ELSE <<Text(v(i))>>]]
    BY DEF Networks
  <1>2. \A i \in 1 .. n : v(i) \in Nat
    OBVIOUS
  <1>3. v(1) \in Nat
    OBVIOUS
  <1> HIDE DEF v
  <1>4. ASSUME NEW i \in 1 .. n PROVE Named(nets[i])
    <2> DEFINE nm == IF i = 1 THEN name ELSE <<Text(v(i))>>
    <2>1. nm \in Names(v(i))
      BY <1>1 DEF Names
    <2> HIDE DEF nm
    <2>2. /\ nm \in Seq(Tokens)
          /\ \A k \in 1 .. Len(nm) : nm[k].kind \in {"text", "comma", "quote", "long"}
          /\ (\E k \in 1 .. Len(nm) : nm[k].kind = "long") => Len(nm) = 1
      BY <1>2, <2>1, NamesAre
    <2>3. nets[i] = [encr |-> v(i), rssi |-> v(i), name |-> nm]
      BY <1>1 DEF nm
    <2>4. nets[i] \in Net /\ nets[i].name = nm
      BY <1>2, <2>2, <2>3 DEF Net
    <2> QED BY <2>2, <2>4 DEF Named
  <1>5. \A i \in 1 .. n : nets[i] \in Net
    BY <1>4 DEF Named
  <1>6. DOMAIN nets = 1 .. n
    BY <1>1
  <1>7. nets = [i \in 1 .. n |-> nets[i]]
    BY <1>1
  <1>8. nets \in [1 .. n -> Net]
    BY <1>5, <1>7
  <1> QED BY <1>4, <1>6, <1>8, SeqDef, LenProperties

(* The fields of a network by their places. *)
LEMMA FieldsAre ==
  ASSUME NEW net \in Net
  PROVE  LET F == Fields(net)
             m == Len(net.name)
         IN  /\ m \in Nat /\ F \in Seq(Tokens) /\ Len(F) = m + 14
             /\ F[1].kind = "entry" /\ F[2].kind = "number" /\ F[2].val = net.encr
             /\ F[3].kind = "comma" /\ F[4].kind = "quote"
             /\ \A i \in 1 .. m : F[i + 4] = net.name[i]
             /\ F[m + 5].kind = "quote" /\ F[m + 6].kind = "comma"
             /\ F[m + 7].kind = "number" /\ F[m + 7].val = net.rssi
             /\ F[m + 8].kind = "comma" /\ F[m + 9].kind = "quote" /\ F[m + 10].kind = "number"
             /\ F[m + 11].kind = "quote" /\ F[m + 12].kind = "comma"
             /\ F[m + 13].kind = "number" /\ F[m + 14].kind = "text"
  <1> DEFINE e == Token("entry", 0)
             x == Token("number", net.encr)
             y == Token("number", net.rssi)
             z == Token("number", 0)
             t == Text(0)
             c == Comma
             q == Quote
             A == <<e, x, c, q>>
             B == <<q, c, y, c, q, z, q, c, z, t>>
             name == net.name
             m == Len(name)
  <1>1. /\ name \in Seq(Tokens) /\ m \in Nat /\ net.encr \in Nat /\ net.rssi \in Nat
    BY LenProperties DEF Net
  <1>2. /\ e \in Tokens /\ e.kind = "entry" /\ c \in Tokens /\ c.kind = "comma"
        /\ q \in Tokens /\ q.kind = "quote" /\ t \in Tokens /\ t.kind = "text"
        /\ x \in Tokens /\ x.kind = "number" /\ x.val = net.encr
        /\ y \in Tokens /\ y.kind = "number" /\ y.val = net.rssi
        /\ z \in Tokens /\ z.kind = "number"
    BY <1>1, AlphabetIn
  <1>3. Fields(net) = (A \o name) \o B
    BY DEF Fields
  <1> HIDE DEF e, x, y, z, t, c, q, name
  <1>4. /\ A \in Seq(Tokens) /\ Len(A) = 4 /\ A[1] = e /\ A[2] = x /\ A[3] = c /\ A[4] = q
    BY <1>2
  <1>5. /\ B \in Seq(Tokens) /\ Len(B) = 10
        /\ B[1] = q /\ B[2] = c /\ B[3] = y /\ B[4] = c /\ B[5] = q /\ B[6] = z /\ B[7] = q
        /\ B[8] = c /\ B[9] = z /\ B[10] = t
    BY <1>2
  <1> HIDE DEF A, B
  <1> DEFINE C == A \o name
  <1>6. /\ C \in Seq(Tokens) /\ Len(C) = 4 + m
        /\ \A i \in 1 .. 4 + m : C[i] = IF i <= 4 THEN A[i] ELSE name[i - 4]
    <2>1. /\ C \in Seq(Tokens) /\ Len(C) = Len(A) + Len(name)
          /\ \A i \in 1 .. Len(A) + Len(name) :
                C[i] = IF i <= Len(A) THEN A[i] ELSE name[i - Len(A)]
      BY <1>1, <1>4, ConcatProperties
    <2> QED BY <1>4, <2>1
  <1> HIDE DEF C
  <1>7. /\ C \o B \in Seq(Tokens) /\ Len(C \o B) = m + 14
        /\ \A i \in 1 .. m + 14 : (C \o B)[i] = IF i <= 4 + m THEN C[i] ELSE B[i - (4 + m)]
    <2>1. C \in Seq(Tokens) /\ B \in Seq(Tokens)
      BY <1>5, <1>6
    <2>2. /\ C \o B \in Seq(Tokens) /\ Len(C \o B) = Len(C) + Len(B)
          /\ \A i \in 1 .. Len(C) + Len(B) :
                (C \o B)[i] = IF i <= Len(C) THEN C[i] ELSE B[i - Len(C)]
      BY <2>1, ConcatProperties
    <2>3. Len(C) + Len(B) = m + 14 /\ Len(C) = 4 + m
      BY <1>1, <1>5, <1>6
    <2> QED BY <2>2, <2>3
  <1> DEFINE F == Fields(net)
  <1>8. F = C \o B
    BY <1>3 DEF C
  <1> HIDE DEF F, m
  <1>9. F \in Seq(Tokens) /\ Len(F) = m + 14
    BY <1>7, <1>8
  <1>10. F[1] = e /\ F[2] = x /\ F[3] = c /\ F[4] = q
    <2>1. \A i \in 1 .. 4 : F[i] = A[i]
      <3>1. \A i \in 1 .. 4 : i \in 1 .. 4 + m /\ i \in 1 .. m + 14 /\ i <= 4 + m
        BY <1>1
      <3> QED BY <1>6, <1>7, <1>8, <3>1
    <2> QED BY <1>4, <2>1
  <1>11. \A i \in 1 .. m : F[i + 4] = name[i]
    <2> SUFFICES ASSUME NEW i \in 1 .. m PROVE F[i + 4] = name[i]
      OBVIOUS
    <2>1. i + 4 \in 1 .. 4 + m /\ i + 4 \in 1 .. m + 14 /\ i + 4 <= 4 + m /\ ~(i + 4 <= 4) /\ i + 4 - 4 = i
      BY <1>1
    <2>2. C[i + 4] = name[i]
      BY <1>6, <2>1
    <2> QED BY <1>7, <1>8, <2>1, <2>2
  <1>12. \A k \in 1 .. 10 : F[m + 4 + k] = B[k]
    <2> SUFFICES ASSUME NEW k \in 1 .. 10 PROVE F[m + 4 + k] = B[k]
      OBVIOUS
    <2> DEFINE p == m + 4 + k
    <2>1. p \in 1 .. m + 14 /\ ~(p <= 4 + m) /\ p - (4 + m) = k
      BY <1>1 DEF m
    <2> HIDE DEF p
    <2>2. (C \o B)[p] = B[p - (4 + m)]
      BY <1>7, <2>1
    <2>3. F[p] = B[k]
      BY <1>8, <2>1, <2>2
    <2> QED BY <2>3 DEF p
  <1>13. /\ F[m + 5] = q /\ F[m + 6] = c /\ F[m + 7] = y /\ F[m + 8] = c /\ F[m + 9] = q
         /\ F[m + 10] = z /\ F[m + 11] = q /\ F[m + 12] = c /\ F[m + 13] = z /\ F[m + 14] = t
    <2>1. /\ m + 5 = m + 4 + 1 /\ m + 6 = m + 4 + 2 /\ m + 7 = m + 4 + 3 /\ m + 8 = m + 4 + 4
          /\ m + 9 = m + 4 + 5 /\ m + 10 = m + 4 + 6 /\ m + 11 = m + 4 + 7 /\ m + 12 = m + 4 + 8
          /\ m + 13 = m + 4 + 9 /\ m + 14 = m + 4 + 10
      BY <1>1
    <2> QED BY <1>5, <1>12, <2>1
  <1>14. name = net.name
    BY DEF name
  <1> QED BY <1>1, <1>2, <1>9, <1>10, <1>11, <1>13, <1>14 DEF F, m

(* Where a kind of token can be in a network. *)
LEMMA FieldKinds ==
  ASSUME NEW net, Named(net)
  PROVE  LET F == Fields(net)
         IN  \A i \in 1 .. Len(F) : /\ F[i].kind \notin {"pause", "OK", "ERROR"}
                                    /\ F[i].kind = "entry" <=> i = 1
  <1> DEFINE F == Fields(net)
             m == Len(net.name)
  <1>1. net \in Net
    BY DEF Named
  <1>2. /\ m \in Nat /\ Len(F) = m + 14
        /\ F[1].kind = "entry" /\ F[2].kind = "number"
        /\ F[3].kind = "comma" /\ F[4].kind = "quote"
        /\ \A i \in 1 .. m : F[i + 4] = net.name[i]
        /\ F[m + 5].kind = "quote" /\ F[m + 6].kind = "comma"
        /\ F[m + 7].kind = "number"
        /\ F[m + 8].kind = "comma" /\ F[m + 9].kind = "quote" /\ F[m + 10].kind = "number"
        /\ F[m + 11].kind = "quote" /\ F[m + 12].kind = "comma"
        /\ F[m + 13].kind = "number" /\ F[m + 14].kind = "text"
    BY <1>1, FieldsAre
  <1>3. \A k \in 1 .. m : net.name[k].kind \in {"text", "comma", "quote", "long"}
    BY DEF Named
  <1> HIDE DEF F, m
  <1>4. ASSUME NEW i \in 1 .. Len(F)
        PROVE  F[i].kind \notin {"pause", "OK", "ERROR"} /\ (F[i].kind = "entry" <=> i = 1)
    <2>1. CASE i \in 1 .. 4
      BY <1>2, <2>1
    <2>2. CASE i \in 5 .. m + 4
      <3>1. i - 4 \in 1 .. m /\ i - 4 + 4 = i /\ i # 1
        BY <1>2, <2>2
      <3>2. F[i].kind \in {"text", "comma", "quote", "long"}
        <4> DEFINE k == i - 4
        <4>1. k \in 1 .. m /\ k + 4 = i
          BY <3>1
        <4> HIDE DEF k
        <4>2. F[k + 4] = net.name[k] /\ net.name[k].kind \in {"text", "comma", "quote", "long"}
          BY <1>2, <1>3, <4>1
        <4> QED BY <4>1, <4>2
      <3> QED BY <3>1, <3>2
    <2>3. CASE i \in m + 5 .. m + 14
      <3>1. i # 1 /\ i \in {m + 5, m + 6, m + 7, m + 8, m + 9, m + 10, m + 11, m + 12, m + 13, m + 14}
        BY <1>2, <2>3
      <3>2. F[i].kind \in {"quote", "comma", "number", "text"}
        BY <1>2, <3>1
      <3> QED BY <3>1, <3>2
    <2>4. i \in 1 .. 4 \/ i \in 5 .. m + 4 \/ i \in m + 5 .. m + 14
      BY <1>2
    <2> QED BY <2>1, <2>2, <2>3, <2>4
  <1> QED BY <1>4 DEF F

(* Upto is the recursive function it looks like. *)
LEMMA UptoExists ==
  ASSUME NEW seqs, NEW n \in Nat
  PROVE  \E f : f = [i \in 1 .. n |-> IF i = 1 THEN seqs[i] ELSE f[i - 1] \o seqs[i]]
  <1> DEFINE Good(m, f) ==
               f = [i \in 1 .. m |-> IF i = 1 THEN seqs[i] ELSE f[i - 1] \o seqs[i]]
             S == {m \in 0 .. n : \E f : Good(m, f)}
  <1>1. 0 \in S
    <2> DEFINE f == [i \in 1 .. 0 |-> seqs[i]]
    <2>2. \A i \in 1 .. 0 : f[i] = IF i = 1 THEN seqs[i] ELSE f[i - 1] \o seqs[i]
      OBVIOUS
    <2>3. f = [i \in 1 .. 0 |-> f[i]]
      OBVIOUS
    <2> HIDE DEF f
    <2>1. Good(0, f)
      BY <2>2, <2>3
    <2> HIDE DEF Good
    <2> QED BY <2>1
  <1>2. ASSUME NEW m \in 0 .. n - 1, m \in S PROVE m + 1 \in S
    <2>1. PICK f : Good(m, f)
      BY <1>2
    <2> DEFINE g == [i \in 1 .. m + 1 |-> IF i = m + 1
                                            THEN IF i = 1 THEN seqs[i] ELSE f[i - 1] \o seqs[i]
                                            ELSE f[i]]
    <2>2. ASSUME NEW i \in 1 .. m + 1
          PROVE  g[i] = IF i = 1 THEN seqs[i] ELSE g[i - 1] \o seqs[i]
      <3>1. CASE i = m + 1
        <4>1. i # 1 => i - 1 \in 1 .. m + 1 /\ i - 1 # m + 1
          BY <3>1
        <4>2. i # 1 => g[i - 1] = f[i - 1]
          BY <4>1
        <4> QED BY <3>1, <4>2
      <3>2. CASE i # m + 1
        <4>1. i \in 1 .. m /\ g[i] = f[i]
          BY <3>2
        <4>2. f[i] = IF i = 1 THEN seqs[i] ELSE f[i - 1] \o seqs[i]
          BY <2>1, <4>1
        <4>3. i # 1 => i - 1 \in 1 .. m + 1 /\ i - 1 # m + 1 /\ g[i - 1] = f[i - 1]
          BY <4>1
        <4> QED BY <4>1, <4>2, <4>3
      <3> QED BY <3>1, <3>2
    <2>3. DOMAIN g = 1 .. m + 1 /\ g = [i \in 1 .. m + 1 |-> g[i]]
      OBVIOUS
    <2> HIDE DEF g
    <2>4. Good(m + 1, g)
      BY <2>2, <2>3
    <2>5. m + 1 \in 0 .. n
      OBVIOUS
    <2> HIDE DEF Good
    <2> QED BY <2>4, <2>5
  <1> HIDE DEF Good
  <1>3. \A m \in 0 .. n : m \in S
    <2> HIDE DEF S
    <2> QED BY <1>1, <1>2, UpToNat
  <1>4. \E f : Good(n, f)
    BY <1>3
  <1> QED BY <1>4 DEF Good

LEMMA UptoIs ==
  ASSUME NEW seqs, Len(seqs) \in Nat
  PROVE  LET f == Upto(seqs)
         IN  \A i \in 1 .. Len(seqs) : f[i] = IF i = 1 THEN seqs[i] ELSE f[i - 1] \o seqs[i]
  <1> DEFINE f == Upto(seqs)
  <1>1. \E g : g = [i \in 1 .. Len(seqs) |-> IF i = 1 THEN seqs[i] ELSE g[i - 1] \o seqs[i]]
    BY UptoExists
  <1>2. f = [i \in 1 .. Len(seqs) |-> IF i = 1 THEN seqs[i] ELSE f[i - 1] \o seqs[i]]
    BY <1>1, Zenon DEF Upto
  <1> HIDE DEF f
  <1>3. \A i \in 1 .. Len(seqs) : f[i] = IF i = 1 THEN seqs[i] ELSE f[i - 1] \o seqs[i]
    BY <1>2
  <1> QED BY <1>3 DEF f

LEMMA FlattenIs ==
  ASSUME NEW seqs, Len(seqs) # 0
  PROVE  FlattenSeq(seqs) = Upto(seqs)[Len(seqs)]
  BY DEF FlattenSeq, Upto

(* Sequences put together keep their types, and each is where it was put. *)
LEMMA UptoProperties ==
  ASSUME NEW S, NEW seqs \in Seq(Seq(S))
  PROVE  LET n == Len(seqs)
             f == Upto(seqs)
         IN  \A j \in 1 .. n :
               /\ f[j] \in Seq(S) /\ Len(f[j]) \in Nat /\ Before(f, j) \in Nat
               /\ Len(f[j]) = Before(f, j) + Len(seqs[j])
               /\ \A i \in j .. n :
                    /\ Len(f[j]) <= Len(f[i])
                    /\ \A k \in 1 .. Len(seqs[j]) : f[i][Before(f, j) + k] = seqs[j][k]
  <1> DEFINE n == Len(seqs)
             f == Upto(seqs)
             b(j) == Before(f, j)
  <1>0. n \in Nat /\ \A i \in 1 .. n : seqs[i] \in Seq(S)
    BY LenProperties, ElementOfSeq
  <1>1. \A i \in 1 .. n : f[i] = IF i = 1 THEN seqs[i] ELSE f[i - 1] \o seqs[i]
    BY <1>0, UptoIs
  <1> USE <1>0
  <1> HIDE DEF f, n
  <1>2. \A m \in 0 .. n : m = 0 \/ f[m] \in Seq(S)
    <2> DEFINE T == {m \in 0 .. n : m = 0 \/ f[m] \in Seq(S)}
    <2>1. ASSUME NEW m \in 0 .. n - 1, m \in T PROVE m + 1 \in T
      <3>1. CASE m = 0
        BY <1>1, <3>1
      <3>2. CASE m # 0
        <4> DEFINE p == m + 1
        <4>1. f[m] \in Seq(S) /\ p \in 1 .. n /\ p # 1 /\ p - 1 = m
          BY <2>1, <3>2
        <4> HIDE DEF p
        <4>2. f[p] = f[m] \o seqs[p]
          BY <1>1, <4>1
        <4>3. f[p] \in Seq(S)
          BY <4>1, <4>2, ConcatProperties
        <4> QED BY <4>1, <4>3 DEF p
      <3> QED BY <3>1, <3>2
    <2>2. 0 \in T
      OBVIOUS
    <2> HIDE DEF T
    <2>3. \A m \in 0 .. n : m \in T
      BY <2>1, <2>2, UpToNat
    <2> QED BY <2>3 DEF T
  <1>3. \A i \in 1 .. n : f[i] \in Seq(S) /\ Len(f[i]) \in Nat
    BY <1>2, LenProperties
  <1>4. ASSUME NEW j \in 2 .. n
        PROVE  /\ j - 1 \in 1 .. n /\ f[j] = f[j - 1] \o seqs[j]
               /\ Len(f[j]) = Len(f[j - 1]) + Len(seqs[j]) /\ Len(seqs[j]) \in Nat
               /\ \A k \in 1 .. Len(f[j - 1]) : f[j][k] = f[j - 1][k]
               /\ \A k \in 1 .. Len(seqs[j]) : f[j][Len(f[j - 1]) + k] = seqs[j][k]
    <2> DEFINE s == f[j - 1]
               t == seqs[j]
    <2>1. j - 1 \in 1 .. n /\ j \in 1 .. n /\ j # 1
      OBVIOUS
    <2>2. f[j] = s \o t
      BY <1>1, <2>1
    <2>3. s \in Seq(S) /\ t \in Seq(S) /\ Len(s) \in Nat /\ Len(t) \in Nat
      BY <1>3, <2>1, LenProperties
    <2> HIDE DEF s, t
    <2>4. /\ Len(s \o t) = Len(s) + Len(t)
          /\ \A i \in 1 .. Len(s) + Len(t) : (s \o t)[i] = IF i <= Len(s) THEN s[i] ELSE t[i - Len(s)]
      BY <2>3, ConcatProperties
    <2>5. \A k \in 1 .. Len(s) : (s \o t)[k] = s[k]
      BY <2>3, <2>4
    <2>6. ASSUME NEW k \in 1 .. Len(t) PROVE (s \o t)[Len(s) + k] = t[k]
      <3> DEFINE p == Len(s) + k
      <3>1. p \in 1 .. Len(s) + Len(t) /\ ~(p <= Len(s)) /\ p - Len(s) = k
        BY <2>3
      <3> HIDE DEF p
      <3>2. (s \o t)[p] = t[k]
        BY <2>4, <3>1
      <3> QED BY <3>2 DEF p
    <2>7. j - 1 \in 1 .. n
      BY <2>1
    <2> QED BY <2>2, <2>3, <2>4, <2>5, <2>6, <2>7 DEF s, t
  <1>5. \A j \in 1 .. n : /\ b(j) \in Nat /\ Len(f[j]) = b(j) + Len(seqs[j]) /\ Len(seqs[j]) \in Nat
                          /\ \A k \in 1 .. Len(seqs[j]) : f[j][b(j) + k] = seqs[j][k]
    <2> SUFFICES ASSUME NEW j \in 1 .. n
                 PROVE  /\ b(j) \in Nat /\ Len(f[j]) = b(j) + Len(seqs[j]) /\ Len(seqs[j]) \in Nat
                        /\ \A k \in 1 .. Len(seqs[j]) : f[j][b(j) + k] = seqs[j][k]
      OBVIOUS
    <2>1. CASE j = 1
      <3>1. f[j] = seqs[j] /\ Len(seqs[j]) \in Nat /\ b(j) = 0
        BY <1>1, <1>3, <2>1 DEF Before
      <3> QED BY <3>1
    <2>2. CASE j # 1
      <3>1. j \in 2 .. n /\ b(j) = Len(f[j - 1])
        BY <2>2 DEF Before
      <3>2. j - 1 \in 1 .. n
        BY <3>1
      <3> HIDE DEF b
      <3>3. b(j) \in Nat
        BY <1>3, <3>1, <3>2
      <3>4. j \in 2 .. n
        BY <3>1
      <3>5. /\ Len(f[j]) = Len(f[j - 1]) + Len(seqs[j]) /\ Len(seqs[j]) \in Nat
            /\ \A k \in 1 .. Len(seqs[j]) : f[j][Len(f[j - 1]) + k] = seqs[j][k]
        BY <1>4, <3>4
      <3>6. \A k \in 1 .. Len(seqs[j]) : f[j][b(j) + k] = seqs[j][k]
        BY <3>1, <3>5
      <3> QED BY <3>1, <3>3, <3>5, <3>6
    <2> QED BY <2>1, <2>2
  <1>6. ASSUME NEW j \in 1 .. n
        PROVE  \A i \in j .. n : /\ Len(f[j]) <= Len(f[i])
                                 /\ \A k \in 1 .. Len(seqs[j]) : f[i][b(j) + k] = seqs[j][k]
    <2> DEFINE T == {m \in 0 .. n - j :
                       /\ Len(f[j]) <= Len(f[j + m])
                       /\ \A k \in 1 .. Len(seqs[j]) : f[j + m][b(j) + k] = seqs[j][k]}
    <2>1. 0 \in T
      <3>1. j + 0 = j /\ 0 \in 0 .. n - j
        OBVIOUS
      <3> QED BY <1>3, <1>5, <3>1
    <2>2. ASSUME NEW m \in 0 .. n - j - 1, m \in T PROVE m + 1 \in T
      <3> DEFINE i == j + (m + 1)
      <3>1. i \in 2 .. n /\ i - 1 = j + m /\ m + 1 \in 0 .. n - j
        OBVIOUS
      <3>2. /\ Len(f[j]) <= Len(f[i - 1])
            /\ \A k \in 1 .. Len(seqs[j]) : f[i - 1][b(j) + k] = seqs[j][k]
        BY <2>2, <3>1
      <3> HIDE DEF i
      <3>3. /\ Len(f[i]) = Len(f[i - 1]) + Len(seqs[i]) /\ Len(seqs[i]) \in Nat
            /\ \A k \in 1 .. Len(f[i - 1]) : f[i][k] = f[i - 1][k]
            /\ Len(f[i - 1]) \in Nat /\ Len(f[j]) \in Nat
        BY <1>3, <1>4, <3>1
      <3>4. Len(f[j]) <= Len(f[i])
        <4> DEFINE x == Len(f[j])
                   y == Len(f[i - 1])
                   u == Len(f[i])
                   v == Len(seqs[i])
        <4>1. x <= y /\ u = y + v /\ v \in Nat /\ y \in Nat /\ x \in Nat
          BY <3>2, <3>3
        <4> HIDE DEF x, y, u, v
        <4>2. x <= u
          BY <4>1
        <4> QED BY <4>2 DEF x, u
      <3>5. ASSUME NEW k \in 1 .. Len(seqs[j]) PROVE f[i][b(j) + k] = seqs[j][k]
        <4> DEFINE q == b(j) + k
        <4>1. b(j) \in Nat /\ Len(f[j]) = b(j) + Len(seqs[j]) /\ Len(seqs[j]) \in Nat
          BY <1>5
        <4> HIDE DEF b
        <4>4. q \in 1 .. Len(f[i - 1])
          <5>1. PICK x : x = Len(f[j])
            OBVIOUS
          <5>2. PICK y : y = Len(f[i - 1])
            OBVIOUS
          <5>3. PICK v : v = Len(seqs[j])
            OBVIOUS
          <5>4. PICK u : u = b(j)
            OBVIOUS
          <5>5. u \in Nat /\ v \in Nat /\ x = u + v /\ x <= y /\ y \in Nat /\ k \in 1 .. v
            BY <3>2, <3>3, <4>1, <5>1, <5>2, <5>3, <5>4
          <5>6. u + k \in 1 .. y
            BY <5>5
          <5> QED BY <5>2, <5>4, <5>6
        <4>5. f[i - 1][q] = seqs[j][k]
          BY <3>2
        <4>2. q \in 1 .. Len(f[i - 1]) /\ f[i - 1][q] = seqs[j][k]
          BY <4>4, <4>5
        <4> HIDE DEF q
        <4>3. f[i][q] = seqs[j][k]
          BY <3>3, <4>2
        <4> QED BY <4>3 DEF q
      <3> HIDE DEF b
      <3>6. m + 1 \in 0 .. n - j /\ i = j + (m + 1)
        BY <3>1 DEF i
      <3> QED BY <3>4, <3>5, <3>6
    <2>3. \A m \in 0 .. n - j : m \in T
      <3> DEFINE d == n - j
      <3>1. d \in Nat /\ \A m \in 0 .. d - 1 : m \in T => m + 1 \in T
        BY <2>2
      <3> HIDE DEF T, d
      <3>2. \A m \in 0 .. d : m \in T
        BY <2>1, <3>1, UpToNat
      <3> QED BY <3>2 DEF d
    <2>4. ASSUME NEW i \in j .. n
          PROVE  /\ Len(f[j]) <= Len(f[i])
                 /\ \A k \in 1 .. Len(seqs[j]) : f[i][b(j) + k] = seqs[j][k]
      <3>1. i - j \in 0 .. n - j /\ j + (i - j) = i
        OBVIOUS
      <3> HIDE DEF b
      <3> QED BY <2>3, <3>1
    <2> QED BY <2>4
  <1> QED BY <1>3, <1>5, <1>6 DEF f, n

(* The answer by the places of its networks. *)
LEMMA Layout ==
  ASSUME NEW nets \in Seq(Net), NEW R \in Replies(nets)
  PROVE  LET e == Starts(nets)
             n == Len(nets)
         IN  /\ n \in Nat /\ R \in Seq(Tokens) /\ Len(R) \in Nat
             /\ e[1] = 1 /\ e[n + 1] = Len(R) /\ R[Len(R)].kind \in {"OK", "ERROR"}
             /\ \A j \in 1 .. n + 1 : e[j] \in 1 .. Len(R)
             /\ \A j \in 1 .. n :
                  /\ e[j + 1] = e[j] + Len(Fields(nets[j]))
                  /\ \A k \in 1 .. Len(Fields(nets[j])) : R[e[j] - 1 + k] = Fields(nets[j])[k]
  <1> DEFINE n == Len(nets)
             seqs == [i \in DOMAIN nets |-> Fields(nets[i])]
             f == Upto(seqs)
             e == Starts(nets)
             ok == Token("OK", 0)
             er == Token("ERROR", 0)
  <1>1. n \in Nat /\ DOMAIN nets = 1 .. n /\ \A i \in 1 .. n : nets[i] \in Net
    BY LenProperties, ElementOfSeq
  <1>2. ok \in Tokens /\ ok.kind = "OK" /\ er \in Tokens /\ er.kind = "ERROR"
    BY AlphabetIn
  <1>3. R = FlattenSeq(seqs) \o <<ok>> \/ (nets = <<>> /\ R = <<er>>)
    BY DEF Replies
  <1>4. e = [j \in 1 .. n + 1 |-> Before(f, j) + 1]
    BY DEF Starts
  <1> HIDE DEF ok, er, e, f
  <1>5. /\ \A i \in 1 .. n : seqs[i] = Fields(nets[i]) /\ seqs[i] \in Seq(Tokens) /\ Len(seqs[i]) \in Nat
        /\ DOMAIN seqs = 1 .. n
    BY <1>1, FieldsAre, LenProperties
  <1>6. Len(seqs) = n /\ seqs \in Seq(Seq(Tokens))
    <2>1. seqs = [i \in 1 .. n |-> seqs[i]]
      BY <1>1
    <2>2. seqs \in [1 .. n -> Seq(Tokens)]
      BY <1>5, <2>1
    <2>3. seqs \in Seq(Seq(Tokens))
      BY <1>1, <2>2, SeqDef
    <2> HIDE DEF seqs
    <2> QED BY <1>1, <1>5, <2>3, LenProperties
  <1> HIDE DEF n
  <1>7. CASE n = 0
    <2>1. nets = <<>>
      BY <1>7, EmptySeq DEF n
    <2>2. FlattenSeq(seqs) = <<>>
      <3>1. seqs = <<>>
        BY <2>1
      <3> QED BY <1>6, <1>7, <3>1 DEF FlattenSeq
    <2>3. R = <<ok>> \/ R = <<er>>
      <3>1. <<>> \o <<ok>> = <<ok>>
        BY <1>2, ConcatEmptySeq
      <3> HIDE DEF seqs
      <3> QED BY <1>3, <2>2, <3>1
    <2>4. R \in Seq(Tokens) /\ Len(R) = 1 /\ R[1].kind \in {"OK", "ERROR"}
      <3>1. CASE R = <<ok>>
        BY <1>2, <3>1
      <3>2. CASE R = <<er>>
        BY <1>2, <3>2
      <3> QED BY <2>3, <3>1, <3>2
    <2>5. e[1] = 1
      BY <1>4, <1>7 DEF Before
    <2>6. n + 1 = 1 /\ 1 .. n = {} /\ 1 .. n + 1 = {1} /\ 1 \in 1 .. Len(R)
      BY <1>7, <2>4
    <2> QED BY <1>1, <1>7, <2>4, <2>5, <2>6 DEF e, n
  <1>8. CASE n # 0
    <2> DEFINE b(j) == Before(f, j)
               F == f[n]
    <2>1. nets # <<>>
      BY <1>8 DEF n
    <2>2. R = F \o <<ok>>
      BY <1>3, <1>6, <1>8, <2>1, FlattenIs DEF f
    <2>3. \A j \in 1 .. n :
            /\ f[j] \in Seq(Tokens) /\ Len(f[j]) \in Nat /\ b(j) \in Nat
            /\ Len(f[j]) = b(j) + Len(seqs[j])
            /\ \A i \in j .. n : /\ Len(f[j]) <= Len(f[i])
                                 /\ \A k \in 1 .. Len(seqs[j]) : f[i][b(j) + k] = seqs[j][k]
      <3> HIDE DEF seqs
      <3> DEFINE g == Upto(seqs)
      <3>1. \A j \in 1 .. Len(seqs) :
              /\ g[j] \in Seq(Tokens) /\ Len(g[j]) \in Nat /\ Before(g, j) \in Nat
              /\ Len(g[j]) = Before(g, j) + Len(seqs[j])
              /\ \A i \in j .. Len(seqs) :
                   /\ Len(g[j]) <= Len(g[i])
                   /\ \A k \in 1 .. Len(seqs[j]) : g[i][Before(g, j) + k] = seqs[j][k]
        BY <1>6, UptoProperties
      <3>2. f = g
        BY DEF f
      <3> HIDE DEF g
      <3> QED BY <1>6, <3>1, <3>2
    <2>4. n \in 1 .. n
      BY <1>1, <1>8 DEF n
    <2>5. F \in Seq(Tokens) /\ Len(F) \in Nat
      BY <2>3, <2>4
    <2>6. <<ok>> \in Seq(Tokens) /\ Len(<<ok>>) = 1 /\ <<ok>>[1] = ok
      BY <1>2
    <2>7. \A j \in 1 .. n + 1 : e[j] = b(j) + 1 /\ (j # n + 1 => j \in 1 .. n)
      BY <1>1, <1>4, <2>3 DEF n
    <2>8. \A j \in 1 .. n : j + 1 \in 1 .. n + 1 /\ b(j + 1) = Len(f[j])
      <3> SUFFICES ASSUME NEW j \in 1 .. n PROVE j + 1 \in 1 .. n + 1 /\ b(j + 1) = Len(f[j])
        OBVIOUS
      <3>1. j + 1 # 1 /\ j + 1 - 1 = j /\ j + 1 \in 1 .. n + 1
        BY <1>1 DEF n
      <3> QED BY <3>1 DEF Before
    <2> HIDE DEF F, seqs
    <2>9. /\ R \in Seq(Tokens) /\ Len(R) = Len(F) + 1
          /\ \A i \in 1 .. Len(F) : R[i] = F[i]
          /\ R[Len(F) + 1] = ok
      <3>1. /\ R \in Seq(Tokens) /\ Len(R) = Len(F) + Len(<<ok>>)
            /\ \A i \in 1 .. Len(F) + Len(<<ok>>) :
                 R[i] = IF i <= Len(F) THEN F[i] ELSE <<ok>>[i - Len(F)]
        BY <2>2, <2>5, <2>6, ConcatProperties
      <3>2. Len(R) = Len(F) + 1
        BY <2>6, <3>1
      <3>3. \A i \in 1 .. Len(F) : R[i] = F[i]
        BY <2>5, <2>6, <3>1
      <3> DEFINE p == Len(F) + 1
      <3>4. p \in 1 .. Len(F) + Len(<<ok>>) /\ ~(p <= Len(F)) /\ p - Len(F) = 1
        BY <2>5, <2>6
      <3> HIDE DEF p
      <3>5. R[p] = ok
        BY <2>6, <3>1, <3>4
      <3> QED BY <3>1, <3>2, <3>3, <3>5 DEF p
    <2>10. b(1) = 0 /\ b(n + 1) = Len(F) /\ 1 \in 1 .. n + 1 /\ n + 1 \in 1 .. n + 1
      BY <1>1, <2>4, <2>8 DEF F, n, Before
    <2>11. \A j \in 1 .. n : Len(f[j]) <= Len(F) /\ b(j) + Len(seqs[j]) <= Len(F) /\ b(j) \in Nat
      <3>1. \A j \in 1 .. n : n \in j .. n
        BY <1>1 DEF n
      <3> HIDE DEF b
      <3> QED BY <2>3, <3>1 DEF F
    <2>12. \A j \in 1 .. n : \A k \in 1 .. Len(seqs[j]) : F[b(j) + k] = seqs[j][k]
      <3>1. \A j \in 1 .. n : n \in j .. n
        BY <1>1 DEF n
      <3> HIDE DEF b
      <3> QED BY <2>3, <3>1 DEF F
    <2> HIDE DEF b
    <2>13. e[1] = 1 /\ e[n + 1] = Len(R) /\ R[Len(R)].kind \in {"OK", "ERROR"}
      BY <1>2, <2>7, <2>9, <2>10
    <2>14. ASSUME NEW j \in 1 .. n + 1 PROVE e[j] \in 1 .. Len(R)
      <3>1. CASE j = n + 1
        <4>1. Len(R) \in Nat /\ Len(R) >= 1
          BY <2>5, <2>9
        <4> QED BY <2>13, <3>1, <4>1
      <3>2. CASE j # n + 1
        <4>1. j \in 1 .. n
          BY <2>7, <3>2
        <4>2. b(j) \in Nat /\ b(j) + Len(seqs[j]) <= Len(F) /\ Len(seqs[j]) \in Nat
          BY <1>5, <2>11, <4>1
        <4>3. e[j] = b(j) + 1 /\ Len(R) = Len(F) + 1 /\ Len(F) \in Nat
          BY <2>5, <2>7, <2>9
        <4> QED BY <4>2, <4>3
      <3> QED BY <3>1, <3>2
    <2>15. ASSUME NEW j \in 1 .. n
           PROVE  /\ e[j + 1] = e[j] + Len(Fields(nets[j]))
                  /\ \A k \in 1 .. Len(Fields(nets[j])) : R[e[j] - 1 + k] = Fields(nets[j])[k]
      <3>1. seqs[j] = Fields(nets[j]) /\ Len(seqs[j]) \in Nat
        BY <1>5
      <3>2. e[j + 1] = b(j + 1) + 1 /\ b(j + 1) = Len(f[j])
        BY <2>7, <2>8
      <3>3. j \in 1 .. n + 1
        BY <1>1 DEF n
      <3>4. e[j] = b(j) + 1 /\ b(j) \in Nat /\ Len(f[j]) = b(j) + Len(seqs[j])
        BY <2>3, <2>7, <3>3
      <3>5. e[j + 1] = e[j] + Len(seqs[j])
        BY <3>1, <3>2, <3>4
      <3>6. ASSUME NEW k \in 1 .. Len(seqs[j]) PROVE R[e[j] - 1 + k] = seqs[j][k]
        <4> DEFINE p == e[j] - 1 + k
        <4>1. p = b(j) + k /\ p \in 1 .. Len(F)
          <5> DEFINE x == b(j)
                     y == Len(seqs[j])
                     z == Len(F)
          <5>1. x + y <= z /\ x \in Nat /\ y \in Nat /\ z \in Nat /\ e[j] = x + 1 /\ k \in 1 .. y
            BY <2>5, <2>11, <3>1, <3>4
          <5> HIDE DEF x, y, z
          <5>2. p = x + k /\ p \in 1 .. z
            BY <5>1
          <5> QED BY <5>2 DEF x, z
        <4>2. F[p] = seqs[j][k]
          BY <2>12, <4>1
        <4> HIDE DEF p
        <4>3. R[p] = seqs[j][k]
          BY <2>9, <4>1, <4>2
        <4> QED BY <4>3 DEF p
      <3> QED BY <3>1, <3>5, <3>6
    <2>16. Len(R) \in Nat
      BY <2>5, <2>9
    <2> QED BY <1>1, <2>9, <2>13, <2>14, <2>15, <2>16 DEF e, n
  <1> QED BY <1>7, <1>8

(* A pause in the answer moves what comes after it by one. *)
LEMMA LaidAt ==
  ASSUME NEW R \in Seq(Tokens), NEW z \in 0 .. Len(R)
  PROVE  LET L == Laid(R, z)
         IN  /\ L \in Seq(Tokens) /\ Len(L) = Len(R) + (IF z = 0 THEN 0 ELSE 1)
             /\ \A x \in 1 .. Len(R) : Moved(z, x) \in 1 .. Len(L) /\ L[Moved(z, x)] = R[x]
             /\ z # 0 => z \in 1 .. Len(L) /\ L[z].kind = "pause"
  <1>1. Len(R) \in Nat /\ \A i \in 1 .. Len(R) : R[i] \in Tokens
    BY LenProperties, ElementOfSeq
  <1>2. CASE z = 0
    <2>1. Laid(R, z) = R /\ \A x \in 1 .. Len(R) : Moved(z, x) = x
      BY <1>2 DEF Laid, Moved
    <2> QED BY <1>1, <1>2, <2>1
  <1>3. CASE z # 0
    <2> DEFINE L == Laid(R, z)
               A == SubSeq(R, 1, z - 1)
               B == <<Pause>>
               C == SubSeq(R, z, Len(R))
               D == A \o B
    <2>1. L = D \o C
      BY <1>3 DEF Laid, InsertAt
    <2>2. z \in 1 .. Len(R)
      BY <1>1, <1>3
    <2>3. A \in Seq(Tokens) /\ Len(A) = z - 1 /\ \A i \in 1 .. z - 1 : A[i] = R[i]
      <3>1. \A i \in 1 .. z - 1 : R[i] \in Tokens
        BY <1>1
      <3>2. /\ A \in Seq(Tokens)
            /\ Len(A) = IF 1 <= z - 1 THEN z - 1 - 1 + 1 ELSE 0
            /\ \A i \in 1 .. z - 1 - 1 + 1 : A[i] = R[1 + i - 1]
        BY <2>2, <3>1, SubSeqProperties
      <3> HIDE DEF A
      <3>3. Len(A) = z - 1
        BY <2>2, <3>2
      <3>4. \A i \in 1 .. z - 1 : i \in 1 .. z - 1 - 1 + 1 /\ 1 + i - 1 = i
        BY <2>2
      <3> QED BY <3>2, <3>3, <3>4
    <2>4. /\ C \in Seq(Tokens) /\ Len(C) = Len(R) - z + 1
          /\ \A i \in 1 .. Len(R) - z + 1 : C[i] = R[z + i - 1]
      <3>1. \A i \in z .. Len(R) : R[i] \in Tokens
        BY <1>1, <2>2
      <3>2. /\ C \in Seq(Tokens)
            /\ Len(C) = IF z <= Len(R) THEN Len(R) - z + 1 ELSE 0
            /\ \A i \in 1 .. Len(R) - z + 1 : C[i] = R[z + i - 1]
        BY <1>1, <2>2, <3>1, SubSeqProperties
      <3> HIDE DEF C
      <3> QED BY <2>2, <3>2
    <2>5. B \in Seq(Tokens) /\ Len(B) = 1 /\ B[1].kind = "pause"
      BY AlphabetIn
    <2> HIDE DEF A, B, C
    <2>6. /\ D \in Seq(Tokens) /\ Len(D) = z
          /\ \A i \in 1 .. z - 1 : D[i] = R[i]
          /\ D[z] = B[1]
      <3>1. /\ D \in Seq(Tokens) /\ Len(D) = Len(A) + Len(B)
            /\ \A i \in 1 .. Len(A) + Len(B) : D[i] = IF i <= Len(A) THEN A[i] ELSE B[i - Len(A)]
        BY <2>3, <2>5, ConcatProperties
      <3> HIDE DEF D
      <3>2. Len(A) + Len(B) = z /\ z - Len(A) = 1 /\ ~(z <= Len(A))
        BY <2>2, <2>3, <2>5
      <3>3. z \in 1 .. z /\ \A i \in 1 .. z - 1 : i \in 1 .. z /\ i <= Len(A)
        BY <2>2, <2>3
      <3> QED BY <2>3, <3>1, <3>2, <3>3
    <2> HIDE DEF D
    <2>7. /\ L \in Seq(Tokens) /\ Len(L) = Len(R) + 1
          /\ \A i \in 1 .. Len(R) + 1 : L[i] = IF i <= z THEN D[i] ELSE C[i - z]
      <3>1. /\ L \in Seq(Tokens) /\ Len(L) = Len(D) + Len(C)
            /\ \A i \in 1 .. Len(D) + Len(C) : L[i] = IF i <= Len(D) THEN D[i] ELSE C[i - Len(D)]
        <4> HIDE DEF L
        <4>1. D \in Seq(Tokens) /\ C \in Seq(Tokens)
          BY <2>4, <2>6
        <4> QED BY <2>1, <4>1, ConcatProperties
      <3> HIDE DEF L
      <3>2. Len(D) + Len(C) = Len(R) + 1 /\ Len(D) = z
        BY <1>1, <2>2, <2>4, <2>6
      <3> QED BY <3>1, <3>2
    <2> HIDE DEF L
    <2>8. z \in 1 .. Len(L) /\ L[z].kind = "pause"
      <3>1. z \in 1 .. Len(R) + 1 /\ z <= z
        BY <1>1, <2>2
      <3> QED BY <2>5, <2>6, <2>7, <3>1
    <2>9. ASSUME NEW x \in 1 .. Len(R) PROVE Moved(z, x) \in 1 .. Len(L) /\ L[Moved(z, x)] = R[x]
      <3>1. CASE z <= x
        <4> DEFINE p == x + 1
        <4>1. Moved(z, x) = p
          BY <1>3, <3>1 DEF Moved
        <4>2. p \in 1 .. Len(R) + 1 /\ ~(p <= z) /\ p - z \in 1 .. Len(R) - z + 1 /\ z + (p - z) - 1 = x
          BY <1>1, <2>2, <3>1
        <4> HIDE DEF p
        <4>3. L[p] = R[x]
          BY <2>4, <2>7, <4>2
        <4> QED BY <2>7, <4>1, <4>2, <4>3
      <3>2. CASE ~(z <= x)
        <4>1. Moved(z, x) = x /\ x \in 1 .. Len(R) + 1 /\ x <= z /\ x \in 1 .. z - 1
          BY <1>1, <2>2, <3>2 DEF Moved
        <4> QED BY <2>6, <2>7, <4>1
      <3> QED BY <3>1, <3>2
    <2> QED BY <1>3, <2>7, <2>8, <2>9 DEF L
  <1> QED BY <1>2, <1>3

-----------------------------------------------------------------------------
(* What a turn of the loop reads.                                          *)

Sought(tag, findTags) == {tag} \cup (IF findTags THEN {"OK", "ERROR"} ELSE {})

LEMMA ReadStops ==
  ASSUME NEW L \in Seq(Tokens), NEW p \in 0 .. Len(L), NEW tag, NEW findTags,
         tag \notin {"OK", "ERROR", "pause"},
         NEW q \in p + 1 .. Len(L), Stop(L[q], Sought(tag, findTags)),
         \A i \in p + 1 .. q - 1 : ~Stop(L[i], Sought(tag, findTags))
  PROVE  LET r == readUntil(From(L, p), tag, findTags)
         IN  /\ r.rest = From(L, q) /\ r.text = SubSeq(From(L, p), 1, q - p - 1)
             /\ L[q].kind = "pause" => r.idx = NoTag
             /\ L[q].kind = tag => r.idx = NUMESPTAGS
             /\ L[q].kind = "OK" => r.idx = 0
             /\ L[q].kind = "ERROR" => r.idx = 1
  <1> DEFINE kinds == Sought(tag, findTags)
             w == Wait(From(L, p), kinds)
  <1>1. /\ w.found = (L[q].kind # "pause") /\ w.at = L[q] /\ w.rest = From(L, q)
        /\ w.text = SubSeq(From(L, p), 1, q - p - 1)
    <2>1. Stop(L[q], kinds) /\ \A i \in p + 1 .. q - 1 : ~Stop(L[i], kinds)
      OBVIOUS
    <2> HIDE DEF kinds
    <2> QED BY <2>1, WaitStops
  <1> DEFINE r == readUntil(From(L, p), tag, findTags)
  <1>2. /\ r.rest = w.rest /\ r.text = w.text
        /\ r.idx = CASE ~w.found -> NoTag [] w.at.kind = tag -> NUMESPTAGS
                     [] w.at.kind = "OK" -> 0 [] w.at.kind = "ERROR" -> 1
    BY DEF readUntil, Sought
  <1> HIDE DEF r, w
  <1>3. L[q].kind \in Sought(tag, findTags) \cup {"pause"}
    BY DEF Stop
  <1>4. L[q].kind = "pause" => r.idx = NoTag
    BY <1>1, <1>2, <1>3
  <1>5. L[q].kind = tag => r.idx = NUMESPTAGS
    BY <1>1, <1>2, <1>3
  <1>6. L[q].kind = "OK" => r.idx = 0
    BY <1>1, <1>2, <1>3
  <1>7. L[q].kind = "ERROR" => r.idx = 1
    BY <1>1, <1>2, <1>3
  <1> QED BY <1>1, <1>2, <1>4, <1>5, <1>6, <1>7 DEF r

LEMMA ReadEnds ==
  ASSUME NEW L \in Seq(Tokens), NEW p \in 0 .. Len(L), NEW tag, NEW findTags,
         NEW t \in p + 1 .. Len(L), Stop(L[t], Sought(tag, findTags))
  PROVE  \E q \in p + 1 .. t :
           /\ Stop(L[q], Sought(tag, findTags))
           /\ \A i \in p + 1 .. q - 1 : ~Stop(L[i], Sought(tag, findTags))
           /\ readUntil(From(L, p), tag, findTags).rest = From(L, q)
  <1> DEFINE w == Wait(From(L, p), Sought(tag, findTags))
  <1>1. \E q \in p + 1 .. t :
          /\ Stop(L[q], Sought(tag, findTags))
          /\ \A i \in p + 1 .. q - 1 : ~Stop(L[i], Sought(tag, findTags))
          /\ w.rest = From(L, q)
    BY WaitEnds
  <1>2. readUntil(From(L, p), tag, findTags).rest = w.rest
    BY DEF readUntil, Sought
  <1> HIDE DEF w
  <1> QED BY <1>1, <1>2

LEMMA NumberStops ==
  ASSUME NEW L \in Seq(Tokens), NEW p \in 0 .. Len(L), NEW q \in p + 1 .. Len(L),
         L[q].kind \in {"number", "pause"},
         \A i \in p + 1 .. q - 1 : L[i].kind \notin {"number", "pause"}
  PROVE  parseInt(From(L, p)).val = L[q].val /\ parseInt(From(L, p)).rest = From(L, q)
  <1>1. Stop(L[q], {"number"}) /\ \A i \in p + 1 .. q - 1 : ~Stop(L[i], {"number"})
    BY DEF Stop
  <1> DEFINE w == Wait(From(L, p), {"number"})
  <1>2. w.at = L[q] /\ w.rest = From(L, q)
    BY <1>1, WaitStops
  <1>3. parseInt(From(L, p)) = [val |-> w.at.val, rest |-> w.rest]
    BY DEF parseInt
  <1> HIDE DEF w
  <1> QED BY <1>2, <1>3

LEMMA NumberEnds ==
  ASSUME NEW L \in Seq(Tokens), NEW p \in 0 .. Len(L), NEW t \in p + 1 .. Len(L),
         L[t].kind \in {"number", "pause"}
  PROVE  \E q \in p + 1 .. t : /\ L[q].kind \in {"number", "pause"}
                               /\ \A i \in p + 1 .. q - 1 : L[i].kind \notin {"number", "pause"}
                               /\ parseInt(From(L, p)).rest = From(L, q)
  <1> DEFINE w == Wait(From(L, p), {"number"})
  <1>1. Stop(L[t], {"number"})
    BY DEF Stop
  <1>2. \E q \in p + 1 .. t : /\ Stop(L[q], {"number"}) /\ \A i \in p + 1 .. q - 1 : ~Stop(L[i], {"number"})
                              /\ w.rest = From(L, q)
    BY <1>1, WaitEnds
  <1>3. parseInt(From(L, p)).rest = w.rest
    BY DEF parseInt
  <1> HIDE DEF w
  <1> QED BY <1>2, <1>3 DEF Stop

(* The network at the p-th token of the line, and the end of its fields. *)
At(L, p, net) ==
  LET m == Len(net.name)
  IN  /\ L[p].kind = "entry"
      /\ L[p + 1].kind = "number" /\ L[p + 1].val = net.encr
      /\ L[p + 2].kind = "comma" /\ L[p + 3].kind = "quote"
      /\ \A k \in 1 .. m : L[p + 3 + k] = net.name[k]
      /\ L[p + m + 4].kind = "quote" /\ L[p + m + 5].kind = "comma"
      /\ L[p + m + 6].kind = "number" /\ L[p + m + 6].val = net.rssi
      /\ L[p + m + 7].kind = "comma" /\ L[p + m + 8].kind = "quote"
      /\ L[p + m + 9].kind = "number" /\ L[p + m + 10].kind = "quote"
      /\ L[p + m + 11].kind = "comma" /\ L[p + m + 12].kind = "number"
      /\ L[p + m + 13].kind = "text"
      /\ L[p + m + 14].kind \in {"entry", "OK", "ERROR"}

LEMMA FieldsAt ==
  ASSUME NEW L \in Seq(Tokens), NEW net \in Net, NEW p \in 1 .. Len(L),
         p + Len(Fields(net)) \in 1 .. Len(L),
         \A k \in 1 .. Len(Fields(net)) : L[p - 1 + k] = Fields(net)[k],
         L[p + Len(Fields(net))].kind \in {"entry", "OK", "ERROR"}
  PROVE  At(L, p, net) /\ Len(net.name) \in Nat /\ p + Len(net.name) + 14 \in 1 .. Len(L)
  <1> DEFINE F == Fields(net)
             m == Len(net.name)
  <1>1. /\ m \in Nat /\ Len(F) = m + 14
        /\ F[1].kind = "entry" /\ F[2].kind = "number" /\ F[2].val = net.encr
        /\ F[3].kind = "comma" /\ F[4].kind = "quote"
        /\ \A i \in 1 .. m : F[i + 4] = net.name[i]
        /\ F[m + 5].kind = "quote" /\ F[m + 6].kind = "comma"
        /\ F[m + 7].kind = "number" /\ F[m + 7].val = net.rssi
        /\ F[m + 8].kind = "comma" /\ F[m + 9].kind = "quote" /\ F[m + 10].kind = "number"
        /\ F[m + 11].kind = "quote" /\ F[m + 12].kind = "comma"
        /\ F[m + 13].kind = "number" /\ F[m + 14].kind = "text"
    BY FieldsAre
  <1> HIDE DEF F
  <1>2. Len(L) \in Nat
    BY LenProperties
  <1>3. \A x \in p .. p + m + 13 : L[x] = F[x - p + 1]
    <2> HIDE DEF m
    <2> SUFFICES ASSUME NEW x \in p .. p + m + 13 PROVE L[x] = F[x - p + 1]
      OBVIOUS
    <2> DEFINE k == x - p + 1
    <2>1. k \in 1 .. Len(F) /\ p - 1 + k = x
      BY <1>1, <1>2
    <2> HIDE DEF k
    <2>2. L[p - 1 + k] = F[k]
      BY <2>1 DEF F
    <2>3. L[x] = F[k]
      BY <2>1, <2>2
    <2> QED BY <2>3 DEF k
  <1> HIDE DEF m
  <1>4. L[p] = F[1] /\ L[p + 1] = F[2] /\ L[p + 2] = F[3] /\ L[p + 3] = F[4]
    <2>1. /\ p \in p .. p + m + 13 /\ p + 1 \in p .. p + m + 13 /\ p + 2 \in p .. p + m + 13
          /\ p + 3 \in p .. p + m + 13
          /\ p - p + 1 = 1 /\ p + 1 - p + 1 = 2 /\ p + 2 - p + 1 = 3 /\ p + 3 - p + 1 = 4
      BY <1>1
    <2> QED BY <1>3, <2>1
  <1>5. ASSUME NEW k \in 1 .. m PROVE L[p + 3 + k] = net.name[k]
    <2> DEFINE x == p + 3 + k
    <2>1. x \in p .. p + m + 13 /\ x - p + 1 = k + 4
      BY <1>1
    <2> HIDE DEF x
    <2>2. L[x] = F[k + 4]
      BY <1>3, <2>1
    <2> QED BY <1>1, <2>2 DEF x
  <1>6. \A i \in 4 .. 13 : L[p + m + i] = F[m + i + 1]
    <2> SUFFICES ASSUME NEW i \in 4 .. 13 PROVE L[p + m + i] = F[m + i + 1]
      OBVIOUS
    <2> DEFINE x == p + m + i
    <2>1. x \in p .. p + m + 13 /\ x - p + 1 = m + i + 1
      BY <1>1
    <2> HIDE DEF x
    <2>2. L[x] = F[m + i + 1]
      BY <1>3, <2>1
    <2> QED BY <2>2 DEF x
  <1>7. /\ L[p + m + 4] = F[m + 5] /\ L[p + m + 5] = F[m + 6] /\ L[p + m + 6] = F[m + 7]
        /\ L[p + m + 7] = F[m + 8] /\ L[p + m + 8] = F[m + 9] /\ L[p + m + 9] = F[m + 10]
        /\ L[p + m + 10] = F[m + 11] /\ L[p + m + 11] = F[m + 12] /\ L[p + m + 12] = F[m + 13]
        /\ L[p + m + 13] = F[m + 14]
    <2>1. /\ m + 4 + 1 = m + 5 /\ m + 5 + 1 = m + 6 /\ m + 6 + 1 = m + 7 /\ m + 7 + 1 = m + 8
          /\ m + 8 + 1 = m + 9 /\ m + 9 + 1 = m + 10 /\ m + 10 + 1 = m + 11 /\ m + 11 + 1 = m + 12
          /\ m + 12 + 1 = m + 13 /\ m + 13 + 1 = m + 14
      <3>1. m \in Nat
        BY <1>1
      <3> QED BY <3>1
    <2> QED BY <1>6, <2>1
  <1>8. p + Len(F) = p + m + 14
    BY <1>1
  <1>9. L[p + m + 14].kind \in {"entry", "OK", "ERROR"} /\ p + m + 14 \in 1 .. Len(L)
    BY <1>8 DEF F
  <1> QED BY <1>1, <1>4, <1>5, <1>7, <1>9 DEF At, m

(* A network as it is to be listed; a name that is too long has no quote.  *)
LEMMA ShownIs ==
  ASSUME NEW net, Named(net)
  PROVE  LET quotes == {k \in 1 .. Len(net.name) : net.name[k].kind = "quote"}
             long == \E k \in 1 .. Len(net.name) : net.name[k].kind = "long"
         IN  /\ Shown(net) = [encr |-> net.encr, name |-> Shown(net).name, rssi |-> net.rssi]
             /\ long => Shown(net).name = <<>>
             /\ ~long /\ quotes # {} => Shown(net).name = SubSeq(net.name, 1, Min(quotes) - 1)
             /\ ~long /\ quotes = {} => Shown(net).name = net.name
  <1> DEFINE quotes == {k \in 1 .. Len(net.name) : net.name[k].kind = "quote"}
             long == \E k \in 1 .. Len(net.name) : net.name[k].kind = "long"
             cut == SubSeq(net.name, 1, Min(quotes) - 1)
             name == CASE long -> <<>> [] quotes # {} -> cut [] OTHER -> net.name
  <1>1. net \in Net /\ DOMAIN net.name = 1 .. Len(net.name)
    BY LenProperties DEF Net, Named
  <1>2. Shown(net) = [net EXCEPT !.name = name]
    BY <1>1 DEF Shown
  <1>3. long => quotes = {}
    <2> SUFFICES ASSUME long, NEW k \in quotes PROVE FALSE
      OBVIOUS
    <2>1. PICK i \in 1 .. Len(net.name) : net.name[i].kind = "long"
      OBVIOUS
    <2>2. Len(net.name) = 1 /\ i = 1 /\ k = 1
      BY <2>1 DEF Named
    <2> QED BY <2>1, <2>2
  <1> HIDE DEF cut, quotes, long
  <1>4. (long => name = <<>>) /\ (~long /\ quotes # {} => name = cut) /\ (~long /\ quotes = {} => name = net.name)
    BY <1>3
  <1> HIDE DEF name
  <1>5. Shown(net) = [encr |-> net.encr, name |-> name, rssi |-> net.rssi]
    BY <1>1, <1>2 DEF Net
  <1> QED BY <1>4, <1>5 DEF quotes, long, cut

(* The name is read up to its first quote. *)
LEMMA NameRead ==
  ASSUME NEW L \in Seq(Tokens), NEW net, Named(net), NEW p \in 1 .. Len(L), At(L, p, net),
         p + Len(net.name) + 14 \in 1 .. Len(L)
  PROVE  LET r == readUntil(From(L, p + 3), "quote", FALSE)
         IN  /\ r.idx = NUMESPTAGS /\ \A old : Stored(r.text, old) = Shown(net).name
             /\ \E q \in p + 4 .. p + Len(net.name) + 4 : r.rest = From(L, q)
  <1> DEFINE m == Len(net.name)
             name == net.name
             T == {k \in 1 .. m + 1 : L[p + 3 + k].kind = "quote"}
             c == Min(T)
             q == p + 3 + c
             r == readUntil(From(L, p + 3), "quote", FALSE)
             quotes == {k \in 1 .. Len(net.name) : net.name[k].kind = "quote"}
             long == \E k \in 1 .. Len(net.name) : net.name[k].kind = "long"
  <1>1. /\ name \in Seq(Tokens) /\ m \in Nat /\ Len(L) \in Nat /\ net \in Net
        /\ \A k \in 1 .. m : name[k].kind \in {"text", "comma", "quote", "long"}
        /\ long => m = 1
    BY LenProperties DEF Named, Net
  <1>2. /\ \A k \in 1 .. m : L[p + 3 + k] = name[k]
        /\ L[p + m + 4].kind = "quote"
    BY DEF At
  <1> HIDE DEF m, name
  <1>3. m + 1 \in T
    <2>1. p + 3 + (m + 1) = p + m + 4 /\ m + 1 \in 1 .. m + 1
      BY <1>1
    <2> QED BY <1>2, <2>1
  <1>4. c \in T /\ \A k \in T : c <= k
    <2>1. T \subseteq Nat
      BY <1>1
    <2> HIDE DEF T
    <2> QED BY <1>3, <2>1, LeastNat
  <1>5. c \in 1 .. m + 1 /\ L[p + 3 + c].kind = "quote" /\ c \in Nat
    BY <1>4
  <1> HIDE DEF c
  <1>6. \A k \in 1 .. c - 1 : k \in 1 .. m /\ name[k].kind # "quote"
    <2> SUFFICES ASSUME NEW k \in 1 .. c - 1 PROVE k \in 1 .. m /\ name[k].kind # "quote"
      OBVIOUS
    <2>1. k \in 1 .. m /\ k \in 1 .. m + 1 /\ ~(c <= k)
      BY <1>1, <1>5
    <2>2. k \notin T
      BY <1>4, <2>1
    <2> QED BY <1>2, <2>1, <2>2
  <1>7. \A i \in p + 4 .. q - 1 : ~Stop(L[i], Sought("quote", FALSE))
    <2> SUFFICES ASSUME NEW i \in p + 4 .. q - 1 PROVE ~Stop(L[i], Sought("quote", FALSE))
      OBVIOUS
    <2> DEFINE k == i - p - 3
    <2>1. k \in 1 .. c - 1 /\ p + 3 + k = i
      BY <1>5
    <2> HIDE DEF k
    <2>2. L[i] = name[k] /\ k \in 1 .. m /\ name[k].kind # "quote"
      BY <1>2, <1>6, <2>1
    <2>3. name[k].kind # "pause"
      BY <1>1, <2>2
    <2> QED BY <2>2, <2>3 DEF Stop, Sought
  <1>8. /\ p + 3 \in 0 .. Len(L) /\ q \in p + 3 + 1 .. Len(L) /\ q - (p + 3) - 1 = c - 1
        /\ p + 3 + 1 = p + 4 /\ q \in p + 4 .. p + m + 4
    BY <1>1, <1>5 DEF m
  <1>9. Stop(L[q], Sought("quote", FALSE)) /\ L[q].kind = "quote"
    BY <1>5 DEF Stop, Sought
  <1> HIDE DEF q
  <1>10. r.rest = From(L, q) /\ r.text = SubSeq(From(L, p + 3), 1, c - 1) /\ r.idx = NUMESPTAGS
    <2> DEFINE s == p + 3
    <2>1. s \in 0 .. Len(L) /\ q \in s + 1 .. Len(L) /\ q - s - 1 = c - 1
      BY <1>8
    <2>2. \A i \in s + 1 .. q - 1 : ~Stop(L[i], Sought("quote", FALSE))
      BY <1>7, <1>8
    <2> HIDE DEF s
    <2> DEFINE tag == "quote"
               ft == FALSE
               x == readUntil(From(L, s), tag, ft)
    <2>3. /\ tag \notin {"OK", "ERROR", "pause"} /\ L[q].kind = tag /\ Stop(L[q], Sought(tag, ft))
          /\ \A i \in s + 1 .. q - 1 : ~Stop(L[i], Sought(tag, ft))
      BY <1>9, <2>2
    <2> HIDE DEF tag, ft
    <2>4. x.rest = From(L, q) /\ x.text = SubSeq(From(L, s), 1, q - s - 1) /\ x.idx = NUMESPTAGS
      BY <2>1, <2>3, ReadStops
    <2> QED BY <2>1, <2>4 DEF s, tag, ft
  <1> DEFINE text == SubSeq(From(L, p + 3), 1, c - 1)
  <1>11. text = SubSeq(name, 1, c - 1)
    <2> DEFINE M == From(L, p + 3)
               s == p + 3
    <2>1. M \in Seq(Tokens) /\ Len(M) = Len(L) - (p + 3) /\ \A i \in 1 .. Len(L) - (p + 3) : M[i] = L[p + 3 + i]
      <3>1. s \in 0 .. Len(L)
        BY <1>8
      <3> HIDE DEF s
      <3>2. From(L, s) \in Seq(Tokens) /\ Len(From(L, s)) = Len(L) - s /\ \A i \in 1 .. Len(L) - s : From(L, s)[i] = L[s + i]
        BY <3>1, FromProperties
      <3> QED BY <3>2 DEF s
    <2> HIDE DEF M, s
    <2>2. \A i \in 1 .. c - 1 : i \in 1 .. m /\ i \in 1 .. Len(L) - (p + 3) /\ M[i] = name[i] /\ name[i] \in Tokens
      <3> SUFFICES ASSUME NEW i \in 1 .. c - 1
                   PROVE  i \in 1 .. m /\ i \in 1 .. Len(L) - (p + 3) /\ M[i] = name[i] /\ name[i] \in Tokens
        OBVIOUS
      <3>1. i \in 1 .. m /\ i \in 1 .. Len(L) - (p + 3)
        BY <1>1, <1>5 DEF m
      <3>2. name[i] \in Tokens
        BY <1>1, <3>1, ElementOfSeq DEF m, name
      <3> QED BY <1>2, <2>1, <3>1, <3>2
    <2>3. /\ SubSeq(M, 1, c - 1) \in Seq(Tokens) /\ SubSeq(name, 1, c - 1) \in Seq(Tokens)
          /\ Len(SubSeq(M, 1, c - 1)) = Len(SubSeq(name, 1, c - 1))
          /\ \A i \in 1 .. Len(SubSeq(M, 1, c - 1)) : SubSeq(M, 1, c - 1)[i] = SubSeq(name, 1, c - 1)[i]
      <3> DEFINE d == c - 1
      <3>1. d \in Nat /\ \A i \in 1 .. d : M[i] = name[i] /\ M[i] \in Tokens /\ name[i] \in Tokens
        BY <1>5, <2>2
      <3> HIDE DEF d
      <3>2. /\ SubSeq(M, 1, d) \in Seq(Tokens) /\ Len(SubSeq(M, 1, d)) = IF 1 <= d THEN d - 1 + 1 ELSE 0
            /\ \A i \in 1 .. d - 1 + 1 : SubSeq(M, 1, d)[i] = M[1 + i - 1]
        BY <3>1, SubSeqProperties
      <3>3. /\ SubSeq(name, 1, d) \in Seq(Tokens) /\ Len(SubSeq(name, 1, d)) = IF 1 <= d THEN d - 1 + 1 ELSE 0
            /\ \A i \in 1 .. d - 1 + 1 : SubSeq(name, 1, d)[i] = name[1 + i - 1]
        BY <3>1, SubSeqProperties
      <3>4. Len(SubSeq(M, 1, d)) = d
        BY <3>1, <3>2
      <3>5. \A i \in 1 .. d : i \in 1 .. d - 1 + 1 /\ 1 + i - 1 = i
        BY <3>1
      <3>6. \A i \in 1 .. d : SubSeq(M, 1, d)[i] = SubSeq(name, 1, d)[i]
        BY <3>1, <3>2, <3>3, <3>5
      <3> QED BY <3>2, <3>3, <3>4, <3>6 DEF d
    <2> QED BY <2>3, SameSeq DEF M
  <1>12. quotes = {} => c = m + 1
    <2> SUFFICES ASSUME c # m + 1 PROVE quotes # {}
      OBVIOUS
    <2>1. c \in 1 .. m
      BY <1>1, <1>5
    <2>2. name[c].kind = "quote"
      BY <1>2, <1>5, <2>1
    <2> QED BY <2>1, <2>2 DEF m, name
  <1>13. quotes # {} => c = Min(quotes)
    <2> SUFFICES ASSUME quotes # {} PROVE c = Min(quotes)
      OBVIOUS
    <2>1. quotes \subseteq Nat
      BY <1>1
    <2>2. Min(quotes) \in quotes /\ \A k \in quotes : Min(quotes) <= k
      <3> HIDE DEF quotes
      <3> QED BY <2>1, LeastNat
    <2> DEFINE d == Min(quotes)
    <2> HIDE DEF d
    <2>3. d \in 1 .. m /\ name[d].kind = "quote" /\ \A k \in quotes : d <= k
      BY <2>2 DEF d, m, name
    <2>4. d \in T
      BY <1>1, <1>2, <2>3
    <2>5. c <= d
      BY <1>4, <2>4
    <2>6. c \in quotes
      <3>1. c \in 1 .. m
        BY <1>1, <1>5, <2>3, <2>5
      <3>2. name[c].kind = "quote"
        BY <1>2, <1>5, <3>1
      <3> QED BY <3>1, <3>2 DEF m, name
    <2> QED BY <1>5, <2>3, <2>5, <2>6 DEF d
  <1>14. text = IF quotes = {} THEN name ELSE SubSeq(name, 1, Min(quotes) - 1)
    <2>1. CASE quotes = {}
      <3>1. c - 1 = m
        BY <1>1, <1>12, <2>1
      <3>2. SubSeq(name, 1, m) = name
        BY <1>1, SubSeqFull DEF m, name
      <3> HIDE DEF text, quotes
      <3> QED BY <1>11, <2>1, <3>1, <3>2
    <2>2. CASE quotes # {}
      <3> HIDE DEF text, quotes
      <3> QED BY <1>11, <1>13, <2>2
    <2> QED BY <2>1, <2>2
  <1>15. DOMAIN text = 1 .. c - 1 /\ \A i \in 1 .. c - 1 : i \in 1 .. m /\ text[i] = name[i]
    <2> DEFINE d == c - 1
    <2>1. d \in Nat /\ \A i \in 1 .. d : i \in 1 .. m /\ name[i] \in Tokens
      BY <1>1, <1>5, <1>6, ElementOfSeq DEF m, name
    <2> HIDE DEF d
    <2>2. /\ SubSeq(name, 1, d) \in Seq(Tokens) /\ Len(SubSeq(name, 1, d)) = IF 1 <= d THEN d - 1 + 1 ELSE 0
          /\ \A i \in 1 .. d - 1 + 1 : SubSeq(name, 1, d)[i] = name[1 + i - 1]
      BY <2>1, SubSeqProperties
    <2>3. Len(SubSeq(name, 1, d)) = d /\ DOMAIN SubSeq(name, 1, d) = 1 .. d
      BY <2>1, <2>2, LenProperties
    <2>4. \A i \in 1 .. d : i \in 1 .. d - 1 + 1 /\ 1 + i - 1 = i
      BY <2>1
    <2>5. \A i \in 1 .. d : SubSeq(name, 1, d)[i] = name[i]
      BY <2>2, <2>4
    <2> HIDE DEF text
    <2> QED BY <1>11, <2>1, <2>3, <2>5 DEF d
  <1> HIDE DEF text
  <1>16. ASSUME NEW old PROVE Stored(text, old) = Shown(net).name
    <2>1. CASE long
      <3>1. PICK k \in 1 .. m : name[k].kind = "long"
        BY <2>1 DEF m, name
      <3>2. m = 1 /\ k = 1
        BY <1>1, <2>1, <3>1
      <3>3. c # 1
        BY <1>2, <1>5, <3>1, <3>2
      <3>4. 1 \in DOMAIN text /\ text[1].kind = "long"
        <4>1. 1 \in 1 .. c - 1
          BY <1>5, <3>3
        <4> QED BY <1>15, <3>1, <3>2, <4>1
      <3>5. Stored(text, old) = <<>>
        BY <3>4 DEF Stored
      <3>6. Shown(net).name = <<>>
        BY <2>1, ShownIs
      <3> QED BY <3>5, <3>6
    <2>2. CASE ~long
      <3>1. \A i \in DOMAIN text : text[i].kind # "long"
        BY <1>15, <2>2 DEF m, name
      <3>2. Stored(text, old) = text
        BY <3>1 DEF Stored
      <3>3. Shown(net).name = IF quotes = {} THEN name ELSE SubSeq(name, 1, Min(quotes) - 1)
        BY <2>2, ShownIs DEF name
      <3> QED BY <1>14, <3>2, <3>3
    <2> QED BY <2>1, <2>2
  <1>17. r.text = text
    BY <1>10 DEF text
  <1>18. \A old : Stored(r.text, old) = Shown(net).name
    <2> HIDE DEF r
    <2> QED BY <1>16, <1>17
  <1>19. \E x \in p + 4 .. p + Len(net.name) + 4 : r.rest = From(L, x)
    <2> HIDE DEF r
    <2> QED BY <1>8, <1>10 DEF m
  <1> QED BY <1>10, <1>18, <1>19

(* With the tags OK and ERROR. *)
Tags == TRUE
Ends(tag) == {tag, "OK", "ERROR", "pause"}
Wanted == {"quote", "comma", "entry"}

LEMMA TagStops ==
  ASSUME NEW L \in Seq(Tokens), NEW p \in 0 .. Len(L), NEW tag \in Wanted,
         NEW q \in p + 1 .. Len(L), L[q].kind \in Ends(tag),
         \A i \in p + 1 .. q - 1 : L[i].kind \notin Ends(tag)
  PROVE  LET r == readUntil(From(L, p), tag, Tags)
         IN  /\ r.rest = From(L, q)
             /\ L[q].kind = "pause" => r.idx = NoTag
             /\ L[q].kind = tag => r.idx = NUMESPTAGS
             /\ L[q].kind = "OK" => r.idx = 0
             /\ L[q].kind = "ERROR" => r.idx = 1
  <1> DEFINE ft == Tags
             r == readUntil(From(L, p), tag, ft)
  <1>1. /\ tag \notin {"OK", "ERROR", "pause"} /\ Stop(L[q], Sought(tag, ft))
        /\ \A i \in p + 1 .. q - 1 : ~Stop(L[i], Sought(tag, ft))
    BY DEF Stop, Sought, Ends, Tags, Wanted
  <1> HIDE DEF ft
  <1>2. /\ r.rest = From(L, q)
        /\ L[q].kind = "pause" => r.idx = NoTag
        /\ L[q].kind = tag => r.idx = NUMESPTAGS
        /\ L[q].kind = "OK" => r.idx = 0
        /\ L[q].kind = "ERROR" => r.idx = 1
    BY <1>1, ReadStops
  <1> HIDE DEF r
  <1> QED BY <1>2 DEF r, ft

LEMMA TagEnds ==
  ASSUME NEW L \in Seq(Tokens), NEW p \in 0 .. Len(L), NEW tag \in Wanted,
         NEW t \in p + 1 .. Len(L), L[t].kind \in Ends(tag)
  PROVE  \E q \in p + 1 .. t :
           /\ L[q].kind \in Ends(tag)
           /\ \A i \in p + 1 .. q - 1 : L[i].kind \notin Ends(tag)
           /\ readUntil(From(L, p), tag, Tags).rest = From(L, q)
  <1> DEFINE ft == Tags
             r == readUntil(From(L, p), tag, ft)
  <1>1. Stop(L[t], Sought(tag, ft))
    BY DEF Stop, Sought, Ends, Tags, Wanted
  <1>2. \A x : Stop(x, Sought(tag, ft)) <=> x.kind \in Ends(tag)
    BY DEF Stop, Sought, Ends, Tags, Wanted
  <1> HIDE DEF ft
  <1>3. \E q \in p + 1 .. t :
          /\ Stop(L[q], Sought(tag, ft))
          /\ \A i \in p + 1 .. q - 1 : ~Stop(L[i], Sought(tag, ft))
          /\ r.rest = From(L, q)
    BY <1>1, ReadEnds
  <1> HIDE DEF r
  <1>4. \E q \in p + 1 .. t :
          /\ L[q].kind \in Ends(tag)
          /\ \A i \in p + 1 .. q - 1 : L[i].kind \notin Ends(tag)
          /\ r.rest = From(L, q)
    BY <1>2, <1>3
  <1> QED BY <1>4 DEF r, ft

(* Nothing from its first field to its last makes another wait end there.  *)
LEMMA KindsAt ==
  ASSUME NEW L \in Seq(Tokens), NEW net, Named(net), NEW p \in 1 .. Len(L), At(L, p, net)
  PROVE  LET m == Len(net.name)
         IN  /\ m \in Nat
             /\ \A i \in p + 1 .. p + m + 13 : L[i].kind \notin {"entry", "OK", "ERROR", "pause"}
             /\ \A i \in p + 2 .. p + m + 5 : L[i].kind # "number"
  <1> DEFINE m == Len(net.name)
             name == net.name
  <1>1. m \in Nat /\ \A k \in 1 .. m : name[k].kind \in {"text", "comma", "quote", "long"}
    BY LenProperties DEF Named, Net
  <1>2. /\ L[p + 1].kind = "number" /\ L[p + 2].kind = "comma" /\ L[p + 3].kind = "quote"
        /\ \A k \in 1 .. m : L[p + 3 + k] = name[k]
        /\ L[p + m + 4].kind = "quote" /\ L[p + m + 5].kind = "comma"
        /\ L[p + m + 6].kind = "number" /\ L[p + m + 7].kind = "comma" /\ L[p + m + 8].kind = "quote"
        /\ L[p + m + 9].kind = "number" /\ L[p + m + 10].kind = "quote"
        /\ L[p + m + 11].kind = "comma" /\ L[p + m + 12].kind = "number"
        /\ L[p + m + 13].kind = "text"
    BY DEF At
  <1> HIDE DEF m, name
  <1>3. \A i \in p + 4 .. p + m + 3 : L[i].kind \in {"text", "comma", "quote", "long"}
    <2> SUFFICES ASSUME NEW i \in p + 4 .. p + m + 3 PROVE L[i].kind \in {"text", "comma", "quote", "long"}
      OBVIOUS
    <2> DEFINE k == i - p - 3
    <2>1. k \in 1 .. m /\ p + 3 + k = i
      BY <1>1
    <2> HIDE DEF k
    <2> QED BY <1>1, <1>2, <2>1
  <1>4. \A i \in p + 2 .. p + m + 5 : L[i].kind \in {"text", "comma", "quote", "long"}
    <2> SUFFICES ASSUME NEW i \in p + 2 .. p + m + 5 PROVE L[i].kind \in {"text", "comma", "quote", "long"}
      OBVIOUS
    <2>1. i \in {p + 2, p + 3, p + m + 4, p + m + 5} \/ i \in p + 4 .. p + m + 3
      BY <1>1
    <2>2. \A j \in {p + 2, p + 3, p + m + 4, p + m + 5} : L[j].kind \in {"text", "comma", "quote", "long"}
      BY <1>2
    <2> QED BY <1>3, <2>1, <2>2
  <1>5. \A i \in {p + m + 6, p + m + 7, p + m + 8, p + m + 9, p + m + 10, p + m + 11, p + m + 12, p + m + 13} :
          L[i].kind \in {"text", "comma", "quote", "number"}
    BY <1>2
  <1>6. \A i \in p + 1 .. p + m + 13 : L[i].kind \in {"text", "comma", "quote", "long", "number"}
    <2> SUFFICES ASSUME NEW i \in p + 1 .. p + m + 13
                 PROVE  L[i].kind \in {"text", "comma", "quote", "long", "number"}
      OBVIOUS
    <2>1. \/ i = p + 1 \/ i \in p + 2 .. p + m + 5
          \/ i \in {p + m + 6, p + m + 7, p + m + 8, p + m + 9, p + m + 10, p + m + 11, p + m + 12, p + m + 13}
      BY <1>1
    <2> QED BY <1>2, <1>4, <1>5, <2>1
  <1>7. \A i \in p + 1 .. p + m + 13 : L[i].kind \notin {"entry", "OK", "ERROR", "pause"}
    BY <1>6
  <1>8. \A i \in p + 2 .. p + m + 5 : L[i].kind # "number"
    BY <1>4
  <1> QED BY <1>1, <1>7, <1>8 DEF m

(* A turn in which the module does not pause reads the network as it is to *)
(* be listed, up to the token after its fields.                            *)
LEMMA TurnExact ==
  ASSUME NEW L \in Seq(Tokens), NEW net, Named(net), NEW p \in 1 .. Len(L), At(L, p, net),
         p + Len(net.name) + 14 \in 1 .. Len(L)
  PROVE  LET turn == Turn(From(L, p))
             q == p + Len(net.name) + 14
         IN  /\ turn.encr = net.encr /\ turn.rssi = net.rssi
             /\ turn.named /\ \A old : Stored(turn.name, old) = Shown(net).name
             /\ turn.rest = From(L, q)
             /\ L[q].kind = "entry" => turn.idx = NUMESPTAGS
             /\ L[q].kind = "OK" => turn.idx = 0
             /\ L[q].kind = "ERROR" => turn.idx = 1
  <1> DEFINE m == Len(net.name)
             type == parseInt(From(L, p))
             opening == readUntil(type.rest, "quote", Tags)
             name == readUntil(opening.rest, "quote", FALSE)
             comma == readUntil(name.rest, "comma", Tags)
             signal == parseInt(comma.rest)
             w == readUntil(signal.rest, "entry", Tags)
             q == p + m + 14
  <1>1. /\ L[p + 1].kind = "number" /\ L[p + 1].val = net.encr
        /\ L[p + 2].kind = "comma" /\ L[p + 3].kind = "quote"
        /\ L[p + m + 5].kind = "comma" /\ L[p + m + 6].kind = "number" /\ L[p + m + 6].val = net.rssi
        /\ L[q].kind \in {"entry", "OK", "ERROR"}
    BY DEF At
  <1>2. /\ m \in Nat /\ Len(L) \in Nat
        /\ \A i \in p + 1 .. p + m + 13 : L[i].kind \notin {"entry", "OK", "ERROR", "pause"}
        /\ \A i \in p + 2 .. p + m + 5 : L[i].kind # "number"
    BY KindsAt, LenProperties
  <1> HIDE DEF m
  <1>3. q \in 1 .. Len(L)
    BY DEF m
  <1>4. type.val = net.encr /\ type.rest = From(L, p + 1)
    <2>1. p \in 0 .. Len(L) /\ p + 1 \in p + 1 .. Len(L) /\ p + 1 .. p + 1 - 1 = {}
      BY <1>2, <1>3
    <2> QED BY <1>1, <2>1, NumberStops
  <1> HIDE DEF type
  <1>5. opening.rest = From(L, p + 3)
    <2> DEFINE a == p + 1
               b == p + 3
    <2>1. a \in 0 .. Len(L) /\ b \in a + 1 .. Len(L) /\ \A i \in a + 1 .. b - 1 : i = p + 2
      <3>1. PICK N : N = Len(L)
        OBVIOUS
      <3>2. m \in Nat /\ N \in Nat /\ p \in 1 .. N /\ p + m + 14 <= N
        BY <1>2, <1>3, <3>1
      <3>3. a \in 0 .. N /\ b \in a + 1 .. N
        BY <3>2
      <3>4. \A i \in a + 1 .. b - 1 : i = p + 2
        BY <3>2
      <3> QED BY <3>1, <3>3, <3>4
    <2>2. L[b].kind \in Ends("quote")
      BY <1>1 DEF Ends
    <2>3. \A i \in a + 1 .. b - 1 : L[i].kind \notin Ends("quote")
      <3> HIDE DEF a, b
      <3> QED BY <1>1, <2>1 DEF Ends
    <2> HIDE DEF a, b
    <2>4. readUntil(From(L, a), "quote", Tags).rest = From(L, b)
      BY <2>1, <2>2, <2>3, TagStops DEF Wanted
    <2> QED BY <1>4, <2>4 DEF a, b
  <1> HIDE DEF opening
  <1>6. /\ name.idx = NUMESPTAGS /\ \A old : Stored(name.text, old) = Shown(net).name
        /\ \E x \in p + 4 .. p + m + 4 : name.rest = From(L, x)
    <2> DEFINE y == readUntil(From(L, p + 3), "quote", FALSE)
    <2>1. /\ y.idx = NUMESPTAGS /\ \A old : Stored(y.text, old) = Shown(net).name
          /\ \E x \in p + 4 .. p + Len(net.name) + 4 : y.rest = From(L, x)
      BY NameRead, Zenon
    <2>2. name = y
      BY <1>5
    <2> HIDE DEF y, name
    <2> QED BY <2>1, <2>2 DEF m
  <1> HIDE DEF name
  <1>7. PICK a \in p + 4 .. p + m + 4 : name.rest = From(L, a)
    BY <1>6
  <1>8. \E x \in p + 5 .. p + m + 5 : comma.rest = From(L, x)
    <2> DEFINE t == p + m + 5
    <2>1. a \in 0 .. Len(L) /\ t \in a + 1 .. Len(L)
      BY <1>2, <1>3
    <2>2. L[t].kind \in Ends("comma")
      BY <1>1 DEF Ends
    <2> DEFINE y == readUntil(From(L, a), "comma", Tags)
    <2> HIDE DEF t
    <2>3. \E x \in a + 1 .. t :
            /\ L[x].kind \in Ends("comma")
            /\ \A i \in a + 1 .. x - 1 : L[i].kind \notin Ends("comma")
            /\ y.rest = From(L, x)
      BY <2>1, <2>2, TagEnds DEF Wanted
    <2>4. \A x \in a + 1 .. t : x \in p + 5 .. p + m + 5
      BY <1>2 DEF t
    <2>5. comma = y
      BY <1>7
    <2> HIDE DEF y, comma
    <2> QED BY <2>3, <2>4, <2>5
  <1> HIDE DEF comma
  <1>9. PICK b \in p + 5 .. p + m + 5 : comma.rest = From(L, b)
    BY <1>8
  <1>10. signal.val = net.rssi /\ signal.rest = From(L, p + m + 6)
    <2> DEFINE t == p + m + 6
    <2>1. b \in 0 .. Len(L) /\ t \in b + 1 .. Len(L)
      BY <1>2, <1>3
    <2>2. L[t].kind \in {"number", "pause"} /\ L[t].val = net.rssi
      BY <1>1
    <2>3. \A i \in b + 1 .. t - 1 : L[i].kind \notin {"number", "pause"}
      <3>1. \A i \in b + 1 .. t - 1 : i \in p + 1 .. p + m + 13 /\ i \in p + 2 .. p + m + 5
        BY <1>2
      <3> QED BY <1>2, <3>1
    <2> HIDE DEF t
    <2>4. parseInt(From(L, b)).val = net.rssi /\ parseInt(From(L, b)).rest = From(L, t)
      BY <2>1, <2>2, <2>3, NumberStops
    <2> QED BY <1>9, <2>4 DEF t
  <1> HIDE DEF signal
  <1>11. /\ w.rest = From(L, q)
         /\ L[q].kind = "entry" => w.idx = NUMESPTAGS
         /\ L[q].kind = "OK" => w.idx = 0
         /\ L[q].kind = "ERROR" => w.idx = 1
    <2> DEFINE c == p + m + 6
               x == readUntil(From(L, c), "entry", Tags)
    <2>1. c \in 0 .. Len(L) /\ q \in c + 1 .. Len(L)
      BY <1>2, <1>3
    <2>2. L[q].kind \in Ends("entry")
      BY <1>1 DEF Ends
    <2>3. \A i \in c + 1 .. q - 1 : L[i].kind \notin Ends("entry")
      <3>1. \A i \in c + 1 .. q - 1 : i \in p + 1 .. p + m + 13
        BY <1>2
      <3> QED BY <1>2, <3>1 DEF Ends
    <2> HIDE DEF c, q
    <2>4. /\ x.rest = From(L, q)
          /\ L[q].kind = "entry" => x.idx = NUMESPTAGS
          /\ L[q].kind = "OK" => x.idx = 0
          /\ L[q].kind = "ERROR" => x.idx = 1
      BY <2>1, <2>2, <2>3, TagStops DEF Wanted
    <2>5. w = x
      BY <1>10 DEF c
    <2> HIDE DEF w, x
    <2> QED BY <2>4, <2>5
  <1>12. Turn(From(L, p)) = [encr |-> type.val, rssi |-> signal.val, named |-> name.idx = NUMESPTAGS,
                             name |-> name.text, afterRssi |-> signal.rest, idx |-> w.idx, rest |-> w.rest]
    BY DEF Turn, type, opening, name, comma, signal, Tags
  <1> HIDE DEF w, q
  <1>13. LET turn == Turn(From(L, p))
         IN  /\ turn.encr = net.encr /\ turn.rssi = net.rssi
             /\ turn.named /\ \A old : Stored(turn.name, old) = Shown(net).name
             /\ turn.rest = From(L, q) /\ turn.idx = w.idx
    <2> DEFINE turn == Turn(From(L, p))
    <2>1. /\ turn.encr = type.val /\ turn.rssi = signal.val /\ turn.name = name.text
          /\ turn.rest = w.rest /\ turn.idx = w.idx
      BY <1>12
    <2>2. turn.named
      <3>1. turn.named = (name.idx = NUMESPTAGS)
        BY <1>12
      <3> QED BY <1>6, <3>1
    <2> HIDE DEF turn
    <2> QED BY <1>4, <1>6, <1>10, <1>11, <2>1, <2>2 DEF turn
  <1> QED BY <1>11, <1>13 DEF q, m

LEMMA QuoteEnds ==
  ASSUME NEW L \in Seq(Tokens), NEW p \in 0 .. Len(L), NEW t \in p + 1 .. Len(L), L[t].kind = "quote"
  PROVE  \E q \in p + 1 .. t : readUntil(From(L, p), "quote", FALSE).rest = From(L, q)
  <1> DEFINE ft == FALSE
             r == readUntil(From(L, p), "quote", ft)
  <1>1. Stop(L[t], Sought("quote", ft))
    BY DEF Stop, Sought
  <1> HIDE DEF ft
  <1>2. \E q \in p + 1 .. t :
          /\ Stop(L[q], Sought("quote", ft))
          /\ \A i \in p + 1 .. q - 1 : ~Stop(L[i], Sought("quote", ft))
          /\ r.rest = From(L, q)
    BY <1>1, ReadEnds
  <1> HIDE DEF r
  <1>3. \E q \in p + 1 .. t : r.rest = From(L, q)
    BY <1>2
  <1> QED BY <1>3 DEF r, ft

LEMMA TagReads ==
  ASSUME NEW L \in Seq(Tokens), NEW p \in 0 .. Len(L), NEW tag \in Wanted,
         NEW t \in p + 1 .. Len(L), L[t].kind \in Ends(tag)
  PROVE  \E q \in p + 1 .. t : readUntil(From(L, p), tag, Tags).rest = From(L, q)
  <1> DEFINE r == readUntil(From(L, p), tag, Tags)
  <1>1. \E q \in p + 1 .. t :
          /\ L[q].kind \in Ends(tag)
          /\ \A i \in p + 1 .. q - 1 : L[i].kind \notin Ends(tag)
          /\ r.rest = From(L, q)
    BY TagEnds, Zenon
  <1> HIDE DEF r
  <1>2. \E q \in p + 1 .. t : r.rest = From(L, q)
    BY <1>1
  <1> QED BY <1>2 DEF r

(* The wait for the next entry ends at it, unless the module pauses first. *)
LEMMA EntryReads ==
  ASSUME NEW L \in Seq(Tokens), NEW p \in 0 .. Len(L), NEW t \in p + 1 .. Len(L),
         L[t].kind \in {"entry", "OK", "ERROR"},
         \A i \in p + 1 .. t - 1 : L[i].kind \notin {"entry", "OK", "ERROR"}
  PROVE  LET r == readUntil(From(L, p), "entry", Tags)
         IN  \/ r.idx = NoTag
             \/ /\ r.rest = From(L, t)
                /\ L[t].kind = "entry" => r.idx = NUMESPTAGS
                /\ L[t].kind = "OK" => r.idx = 0
                /\ L[t].kind = "ERROR" => r.idx = 1
  <1> DEFINE tag == "entry"
             r == readUntil(From(L, p), tag, Tags)
  <1>1. tag \in Wanted /\ L[t].kind \in Ends(tag)
    BY DEF Ends, Wanted
  <1>0. \A q : L[q].kind \in Ends(tag) => L[q].kind \in {"entry", "OK", "ERROR", "pause"}
    BY DEF Ends
  <1> HIDE DEF tag
  <1>2. PICK q \in p + 1 .. t : /\ L[q].kind \in Ends(tag)
                                /\ \A i \in p + 1 .. q - 1 : L[i].kind \notin Ends(tag)
    <2>1. \E q \in p + 1 .. t :
            /\ L[q].kind \in Ends(tag)
            /\ \A i \in p + 1 .. q - 1 : L[i].kind \notin Ends(tag)
            /\ r.rest = From(L, q)
      BY <1>1, TagEnds, Zenon
    <2> HIDE DEF r
    <2> QED BY <2>1
  <1>3. Len(L) \in Nat
    BY LenProperties
  <1>4. q \in p + 1 .. Len(L)
    BY <1>3
  <1>5. /\ r.rest = From(L, q)
        /\ L[q].kind = "pause" => r.idx = NoTag
        /\ L[q].kind = tag => r.idx = NUMESPTAGS
        /\ L[q].kind = "OK" => r.idx = 0
        /\ L[q].kind = "ERROR" => r.idx = 1
    BY <1>1, <1>2, <1>4, TagStops
  <1> HIDE DEF r
  <1>6. L[q].kind = "pause" \/ q = t
    <2> SUFFICES ASSUME L[q].kind # "pause" PROVE q = t
      OBVIOUS
    <2>1. L[q].kind \in {"entry", "OK", "ERROR"}
      BY <1>0, <1>2
    <2>2. q \notin p + 1 .. t - 1
      BY <2>1
    <2> QED BY <1>3, <2>2
  <1> QED BY <1>5, <1>6 DEF r, tag

(* What the waits of a turn are for stands after the first p tokens of the *)
(* line, in this order.                                                    *)
Slots(L, p, a, b, c, d, e, q) ==
  /\ p \in 0 .. Len(L) /\ a \in p + 1 .. Len(L) /\ b \in a + 1 .. Len(L) /\ c \in b + 1 .. Len(L)
  /\ d \in c + 1 .. Len(L) /\ e \in d + 1 .. Len(L) /\ q \in e + 1 .. Len(L)
  /\ L[a].kind = "number" /\ L[b].kind = "quote" /\ L[c].kind = "quote" /\ L[d].kind = "comma"
  /\ L[e].kind = "number" /\ L[q].kind \in {"entry", "OK", "ERROR"}
  /\ \A i \in p + 1 .. q - 1 : L[i].kind \notin {"entry", "OK", "ERROR"}

(* A turn in which the module pauses finds no entry in time, or the next   *)
(* one: every wait of it ends at the token it is for, or before.           *)
LEMMA TurnEnds ==
  ASSUME NEW L \in Seq(Tokens), NEW p, NEW a, NEW b, NEW c, NEW d, NEW e, NEW q,
         Slots(L, p, a, b, c, d, e, q)
  PROVE  LET turn == Turn(From(L, p))
         IN  \/ turn.idx = NoTag
             \/ /\ turn.rest = From(L, q)
                /\ L[q].kind = "entry" => turn.idx = NUMESPTAGS
                /\ L[q].kind = "OK" => turn.idx = 0
                /\ L[q].kind = "ERROR" => turn.idx = 1
  <1> DEFINE type == parseInt(From(L, p))
             opening == readUntil(type.rest, "quote", Tags)
             name == readUntil(opening.rest, "quote", FALSE)
             comma == readUntil(name.rest, "comma", Tags)
             signal == parseInt(comma.rest)
             w == readUntil(signal.rest, "entry", Tags)
  <1> USE DEF Slots
  <1>1. Len(L) \in Nat
    BY LenProperties
  <1>a. p \in Nat /\ p < a /\ a < b /\ b < c /\ c < d /\ d < e /\ e < q /\ q <= Len(L)
    BY <1>1
  <1>b. a \in Int /\ b \in Int /\ c \in Int /\ d \in Int /\ e \in Int /\ q \in Int
    BY <1>1
  <1>2. PICK a1 \in p + 1 .. a : type.rest = From(L, a1)
    <2>1. L[a].kind \in {"number", "pause"}
      OBVIOUS
    <2> QED BY <2>1, NumberEnds
  <1> HIDE DEF type
  <1>3. PICK b1 \in a1 + 1 .. b : opening.rest = From(L, b1)
    <2> DEFINE y == readUntil(From(L, a1), "quote", Tags)
    <2>1. a1 \in 0 .. Len(L) /\ b \in a1 + 1 .. Len(L) /\ L[b].kind \in Ends("quote")
      BY <1>1 DEF Ends
    <2>2. \E x \in a1 + 1 .. b : y.rest = From(L, x)
      BY <2>1, TagReads DEF Wanted
    <2>3. opening = y
      BY <1>2
    <2> HIDE DEF y, opening
    <2> QED BY <2>2, <2>3
  <1> HIDE DEF opening
  <1>4. PICK c1 \in b1 + 1 .. c : name.rest = From(L, c1)
    <2> DEFINE y == readUntil(From(L, b1), "quote", FALSE)
    <2>1. b1 \in 0 .. Len(L) /\ c \in b1 + 1 .. Len(L) /\ L[c].kind = "quote"
      BY <1>1
    <2>2. \E x \in b1 + 1 .. c : y.rest = From(L, x)
      BY <2>1, QuoteEnds
    <2>3. name = y
      BY <1>3
    <2> HIDE DEF y, name
    <2> QED BY <2>2, <2>3
  <1> HIDE DEF name
  <1>5. PICK d1 \in c1 + 1 .. d : comma.rest = From(L, d1)
    <2> DEFINE y == readUntil(From(L, c1), "comma", Tags)
    <2>1. c1 \in 0 .. Len(L) /\ d \in c1 + 1 .. Len(L) /\ L[d].kind \in Ends("comma")
      <3>1. c1 \in 0 .. Len(L) /\ d \in c1 + 1 .. Len(L)
        <4> HIDE DEF Slots
        <4>1. a1 \in Int /\ p < a1 /\ b1 \in Int /\ a1 < b1
          BY <1>a, <1>b
        <4>2. c1 \in Int /\ b1 < c1 /\ c1 <= c
          BY <1>a, <1>b, <4>1
        <4> QED BY <1>1, <1>a, <1>b, <4>1, <4>2
      <3>2. L[d].kind \in Ends("comma")
        BY DEF Ends
      <3> QED BY <3>1, <3>2
    <2>2. \E x \in c1 + 1 .. d : y.rest = From(L, x)
      BY <2>1, TagReads DEF Wanted
    <2>3. comma = y
      BY <1>4
    <2> HIDE DEF y, comma
    <2> QED BY <2>2, <2>3
  <1> HIDE DEF comma
  <1>6. PICK e1 \in d1 + 1 .. e : signal.rest = From(L, e1)
    <2> DEFINE y == parseInt(From(L, d1))
    <2>1. d1 \in 0 .. Len(L) /\ e \in d1 + 1 .. Len(L)
      <3> HIDE DEF Slots
      <3>1. a1 \in Int /\ p < a1 /\ b1 \in Int /\ a1 < b1
        BY <1>a, <1>b
      <3>2. c1 \in Int /\ b1 < c1
        BY <1>a, <1>b, <3>1
      <3>3. d1 \in Int /\ c1 < d1 /\ d1 <= d
        BY <1>a, <1>b, <3>2
      <3> QED BY <1>1, <1>a, <1>b, <3>1, <3>2, <3>3
    <2>4. L[e].kind \in {"number", "pause"}
      OBVIOUS
    <2>2. \E x \in d1 + 1 .. e :
            /\ L[x].kind \in {"number", "pause"}
            /\ \A i \in d1 + 1 .. x - 1 : L[i].kind \notin {"number", "pause"}
            /\ y.rest = From(L, x)
      BY <2>1, <2>4, NumberEnds
    <2>3. signal = y
      BY <1>5
    <2> HIDE DEF y, signal
    <2> QED BY <2>2, <2>3
  <1> HIDE DEF signal
  <1> DEFINE x == readUntil(From(L, e1), "entry", Tags)
  <1>7. \/ x.idx = NoTag
        \/ /\ x.rest = From(L, q)
           /\ L[q].kind = "entry" => x.idx = NUMESPTAGS
           /\ L[q].kind = "OK" => x.idx = 0
           /\ L[q].kind = "ERROR" => x.idx = 1
    <2>1. e1 \in 0 .. Len(L) /\ q \in e1 + 1 .. Len(L)
      <3> HIDE DEF Slots
      <3>1. b1 \in Int /\ p < b1
        <4>1. a1 \in Int /\ p < a1
          BY <1>a, <1>b
        <4> QED BY <1>a, <1>b, <4>1
      <3>2. d1 \in Int /\ p < d1
        <4>1. c1 \in Int /\ p < c1
          BY <1>a, <1>b, <3>1
        <4> QED BY <1>a, <1>b, <4>1
      <3>3. e1 \in Int /\ p < e1 /\ e1 <= e
        BY <1>a, <1>b, <3>2
      <3> QED BY <1>1, <1>a, <1>b, <3>3
    <2>2. \A i \in e1 + 1 .. q - 1 : L[i].kind \notin {"entry", "OK", "ERROR"}
      BY <1>1
    <2> QED BY <2>1, <2>2, EntryReads
  <1>8. w = x
    BY <1>6
  <1>9. Turn(From(L, p)) = [encr |-> type.val, rssi |-> signal.val, named |-> name.idx = NUMESPTAGS,
                             name |-> name.text, afterRssi |-> signal.rest, idx |-> w.idx, rest |-> w.rest]
    BY DEF Turn, type, opening, name, comma, signal, Tags
  <1> HIDE DEF w, x
  <1>10. Turn(From(L, p)).idx = x.idx /\ Turn(From(L, p)).rest = x.rest
    BY <1>8, <1>9
  <1> QED BY <1>7, <1>10

-----------------------------------------------------------------------------
(* Every step, and the types.                                              *)

LEMMA TurnTypes ==
  ASSUME NEW L \in Seq(Tokens)
  PROVE  LET turn == Turn(L)
         IN  /\ turn.encr \in Nat /\ turn.rssi \in Nat /\ turn.rest \in Seq(Tokens)
             /\ turn.idx \in {NoTag, 0, 1, NUMESPTAGS}
             /\ \A old : Stored(turn.name, old) \in Seq(Tokens)
  <1> DEFINE type == parseInt(L)
             opening == readUntil(type.rest, "quote", TRUE)
             name == readUntil(opening.rest, "quote", FALSE)
             comma == readUntil(name.rest, "comma", TRUE)
             signal == parseInt(comma.rest)
             w == readUntil(signal.rest, "entry", TRUE)
  <1>1. type.val \in Nat /\ type.rest \in Seq(Tokens)
    BY ReadTypes
  <1> HIDE DEF type
  <1>2. opening.rest \in Seq(Tokens)
    BY <1>1, ReadTypes, Zenon
  <1> HIDE DEF opening
  <1>3. name.rest \in Seq(Tokens) /\ name.text \in Seq(Tokens)
    BY <1>2, ReadTypes, Zenon
  <1> HIDE DEF name
  <1>4. comma.rest \in Seq(Tokens)
    BY <1>3, ReadTypes, Zenon
  <1> HIDE DEF comma
  <1>5. signal.val \in Nat /\ signal.rest \in Seq(Tokens)
    BY <1>4, ReadTypes
  <1> HIDE DEF signal
  <1>6. w.rest \in Seq(Tokens) /\ w.idx \in {NoTag, 0, 1, NUMESPTAGS}
    BY <1>5, ReadTypes, Zenon
  <1>7. Turn(L) = [encr |-> type.val, rssi |-> signal.val, named |-> name.idx = NUMESPTAGS,
                   name |-> name.text, afterRssi |-> signal.rest, idx |-> w.idx, rest |-> w.rest]
    BY DEF Turn, type, opening, name, comma, signal
  <1> HIDE DEF w
  <1> DEFINE turn == Turn(L)
  <1>8. /\ turn.encr = type.val /\ turn.rssi = signal.val /\ turn.name = name.text
        /\ turn.rest = w.rest /\ turn.idx = w.idx
    BY <1>7
  <1>9. \A old : Stored(name.text, old) \in Seq(Tokens)
    BY <1>3 DEF Stored
  <1> HIDE DEF turn
  <1> QED BY <1>1, <1>3, <1>5, <1>6, <1>8, <1>9 DEF turn

(* A scan gets an answer, at once or with a pause in it, behind what has   *)
(* not been thrown away.                                                   *)
LEMMA NewAnswer ==
  ASSUME TypeOK, scanNetworks
  PROVE  \E R \in Replies(seen') : \E z \in 0 .. Len(R) : \E left \in Seq(Tokens) :
           /\ seen' \in Seq(Net) /\ \A i \in 1 .. Len(seen') : Named(seen'[i])
           /\ line' = left \o Laid(R, z) /\ quiet' = (left = <<>>) /\ late' = (z # 0)
           /\ pauses' \in 0 .. MaxPauses /\ line' \in Seq(Tokens)
  <1> DEFINE Answer(nets, R, left) ==
          /\ seen' = nets /\ quiet' = (left = <<>>)
          /\ \/ line' = left \o R /\ late' = FALSE /\ UNCHANGED pauses
             \/ /\ pauses < MaxPauses
                /\ pauses' = pauses + 1 /\ late' = TRUE
                /\ \E tokens \in Paused(R) : line' = left \o tokens
  <1>1. PICK n \in 0 .. MaxNets : \E nets \in Networks(n) : \E R \in Replies(nets) :
                                   \E left \in Suffixes(line) : Answer(nets, R, left)
    BY DEF scanNetworks
  <1> HIDE DEF Answer
  <1>2. PICK nets \in Networks(n) : \E R \in Replies(nets) : \E left \in Suffixes(line) : Answer(nets, R, left)
    BY <1>1
  <1>3. PICK R \in Replies(nets), left \in Suffixes(line) : Answer(nets, R, left)
    BY <1>2
  <1>4. /\ seen' = nets /\ quiet' = (left = <<>>)
        /\ \/ line' = left \o R /\ late' = FALSE /\ UNCHANGED pauses
           \/ /\ pauses < MaxPauses
              /\ pauses' = pauses + 1 /\ late' = TRUE
              /\ \E tokens \in Paused(R) : line' = left \o tokens
    BY <1>3 DEF Answer
  <1>5. line \in Seq(Tokens) /\ scans \in Nat /\ pauses \in 0 .. MaxPauses /\ MaxPauses \in Nat /\ n \in Nat
    BY ScanBounds DEF TypeOK
  <1>6. nets \in Seq(Net) /\ Len(nets) = n /\ \A i \in 1 .. n : Named(nets[i])
    BY <1>5, NetworksAre
  <1>7. R \in Seq(Tokens) /\ Len(R) \in Nat
    BY <1>6, Layout
  <1>8. left \in Seq(Tokens)
    <2>1. Len(line) \in Nat /\ \A i \in 1 .. Len(line) : line[i] \in Tokens
      BY <1>5, LenProperties, ElementOfSeq
    <2>2. ASSUME NEW l \in 1 .. Len(line) PROVE SubSeq(line, l, Len(line)) \in Seq(Tokens)
      <3>1. \A i \in l .. Len(line) : line[i] \in Tokens
        BY <2>1
      <3> QED BY <2>1, <3>1, SubSeqProperties
    <2>3. <<>> \in Seq(Tokens)
      BY EmptySeq
    <2> QED BY <2>2, <2>3 DEF Suffixes
  <1>9. PICK z \in 0 .. Len(R) : line' = left \o Laid(R, z) /\ late' = (z # 0) /\ pauses' \in 0 .. MaxPauses
    <2>1. CASE line' = left \o R /\ late' = FALSE /\ UNCHANGED pauses
      <3>1. Laid(R, 0) = R /\ 0 \in 0 .. Len(R)
        BY <1>7 DEF Laid
      <3> QED BY <1>5, <2>1, <3>1
    <2>2. CASE /\ pauses < MaxPauses
               /\ pauses' = pauses + 1 /\ late' = TRUE
               /\ \E tokens \in Paused(R) : line' = left \o tokens
      <3>1. PICK tokens \in Paused(R) : line' = left \o tokens
        BY <2>2
      <3>2. DOMAIN R = 1 .. Len(R)
        BY <1>7, LenProperties
      <3>3. PICK z \in 1 .. Len(R) : tokens = InsertAt(R, z, Pause)
        BY <3>2 DEF Paused, Pause
      <3>4. Laid(R, z) = tokens /\ z # 0 /\ z \in 0 .. Len(R)
        BY <1>7, <3>3 DEF Laid
      <3>5. pauses' \in 0 .. MaxPauses
        BY <1>5, <2>2
      <3> QED BY <2>2, <3>1, <3>4, <3>5
    <2> QED BY <1>4, <2>1, <2>2
  <1>10. line' \in Seq(Tokens)
    <2>1. Laid(R, z) \in Seq(Tokens)
      BY <1>7, LaidAt
    <2> QED BY <1>8, <1>9, <2>1, ConcatProperties
  <1> QED BY <1>4, <1>6, <1>8, <1>9, <1>10

LEMMA InitTypes ==
  ASSUME Init
  PROVE  TypeOK
  <1>1. <<>> \in Seq(Tokens)
    BY EmptySeq
  <1>2. MaxNum - 1 \in Nat /\ MaxScans \in Nat /\ MaxPauses \in Nat
    BY ListAssumption, ScanBounds
  <1>3. /\ encr \in [0 .. MaxNum - 1 -> Nat] /\ rssi \in [0 .. MaxNum - 1 -> Nat]
        /\ ssid \in [0 .. MaxNum - 1 -> Seq(Tokens)]
    BY <1>1 DEF Init
  <1>4. /\ ssidListNum \in 0 .. MaxNum - 1 /\ ret \in -1 .. MaxNum - 1
        /\ scans \in 0 .. MaxScans /\ pauses \in 0 .. MaxPauses
    BY <1>2 DEF Init
  <1> QED BY <1>1, <1>3, <1>4 DEF Init, TypeOK

LEMMA NextTypes ==
  ASSUME TypeOK, [Next]_vars
  PROVE  TypeOK'
  <1>0. MaxNum \in Nat \ {0} /\ MaxScans \in Nat /\ MaxPauses \in Nat
    BY ListAssumption, ScanBounds
  <1>1. CASE scanNetworks
    <2>1. line' \in Seq(Tokens) /\ pauses' \in 0 .. MaxPauses /\ quiet' \in BOOLEAN /\ late' \in BOOLEAN
      BY <1>1, NewAnswer
    <2>2. scans' \in 0 .. MaxScans
      BY <1>0, <1>1 DEF TypeOK, scanNetworks
    <2> QED BY <1>0, <1>1, <2>1, <2>2 DEF TypeOK, scanNetworks, listVars
  <1>2. CASE firstEntry
    <2>1. line \in Seq(Tokens)
      BY DEF TypeOK
    <2>2. /\ readUntil(line, "entry", TRUE).rest \in Seq(Tokens)
          /\ readUntil(line, "entry", TRUE).idx \in {NoTag, 0, 1, NUMESPTAGS}
      BY <2>1, ReadTypes, Zenon
    <2> QED BY <1>2, <2>2 DEF TypeOK, firstEntry, listVars, hist
  <1>3. CASE nextEntry
    <2> DEFINE turn == Turn(line)
               full == ssidListNum = MaxNum - 1
               l == ssidListNum
               named == IF turn.named THEN [ssid EXCEPT ![l] = Stored(turn.name, @)] ELSE ssid
    <2>1. /\ turn.encr \in Nat /\ turn.rssi \in Nat /\ turn.rest \in Seq(Tokens)
          /\ turn.idx \in {NoTag, 0, 1, NUMESPTAGS}
          /\ \A old : Stored(turn.name, old) \in Seq(Tokens)
      BY TurnTypes DEF TypeOK
    <2>2. /\ encr' = [encr EXCEPT ![l] = turn.encr] /\ rssi' = [rssi EXCEPT ![l] = turn.rssi]
          /\ ssid' = named
          /\ line' = turn.rest /\ idx' = turn.idx
          /\ l' = IF full THEN l ELSE l + 1
          /\ pc' \in {"done", "entry"}
          /\ UNCHANGED <<ret, printed, hist>>
      BY <1>3 DEF nextEntry
    <2>3. ssid' \in [0 .. MaxNum - 1 -> Seq(Tokens)]
      <3>1. ssid \in [0 .. MaxNum - 1 -> Seq(Tokens)]
        BY DEF TypeOK
      <3>2. ssid' = ssid \/ ssid' = [ssid EXCEPT ![l] = Stored(turn.name, ssid[l])]
        BY <2>2
      <3> HIDE DEF turn
      <3>3. Stored(turn.name, ssid[l]) \in Seq(Tokens)
        BY <2>1
      <3> QED BY <3>1, <3>2, <3>3
    <2> HIDE DEF turn
    <2>4. l' \in 0 .. MaxNum - 1
      BY <1>0, <2>2 DEF TypeOK
    <2> QED BY <2>1, <2>2, <2>3, <2>4 DEF TypeOK, hist
  <1>4. CASE result
    BY <1>0, <1>4 DEF TypeOK, result, listVars, hist
  <1>5. CASE listNetworks
    <2>1. /\ ssidListNum' = 0 /\ idx' = 0 /\ pc' \in {"stopped", "idle"}
          /\ UNCHANGED <<line, encr, ssid, rssi, ret, quiet, late, scans, pauses>>
      BY <1>5 DEF listNetworks, listVars, hist
    <2> QED BY <1>0, <2>1 DEF TypeOK
  <1>6. CASE UNCHANGED vars
    BY <1>6 DEF TypeOK, vars, listVars, hist
  <1> QED BY <1>1, <1>2, <1>3, <1>4, <1>5, <1>6 DEF Next

(* Types: the fields of getScanNetworks stay in range for a list of any    *)
(* size; the list is never written beyond its last place.                  *)
THEOREM ScanTypes == Spec => []TypeOK
  <1>1. Init => TypeOK
    BY InitTypes
  <1>2. TypeOK /\ [Next]_vars => TypeOK'
    BY NextTypes
  <1> QED BY <1>1, <1>2, PTL DEF Spec

-----------------------------------------------------------------------------
(* A turn over the network that the answer has there.                      *)

(* The pause, if there is one, is in the j-th network. *)
Within(z, e, j) == z # 0 /\ e[j] < z /\ z <= e[j + 1]

(* Where a network of the answer is in the line, and what comes after it.  *)
Placed(nets, R, z, j) ==
  LET L == Laid(R, z)
      e == Starts(nets)
      p == Moved(z, e[j])
      q == Moved(z, e[j + 1])
      net == nets[j]
      m == Len(net.name)
  IN  /\ L \in Seq(Tokens) /\ Len(L) \in Nat /\ m \in Nat /\ e[j] \in Nat
      /\ p \in 1 .. Len(L) /\ q \in 1 .. Len(L)
      /\ e[j + 1] = e[j] + m + 14
      /\ L[q].kind \in {"entry", "OK", "ERROR"}
      /\ L[q].kind = "entry" <=> j < Len(nets)
      /\ j = Len(nets) => q = Len(L)
      /\ \A k \in 1 .. m + 14 : /\ Moved(z, e[j] - 1 + k) \in 1 .. Len(L)
                                /\ L[Moved(z, e[j] - 1 + k)] = Fields(net)[k]
      /\ z # 0 => L[z].kind = "pause"

LEMMA Places ==
  ASSUME NEW nets \in Seq(Net), \A i \in 1 .. Len(nets) : Named(nets[i]),
         NEW R \in Replies(nets), NEW z \in 0 .. Len(R), NEW j \in 1 .. Len(nets)
  PROVE  Placed(nets, R, z, j)
  <1> DEFINE L == Laid(R, z)
             e == Starts(nets)
             n == Len(nets)
             q == Moved(z, e[j + 1])
             net == nets[j]
             m == Len(net.name)
  <1>1. /\ n \in Nat /\ R \in Seq(Tokens) /\ Len(R) \in Nat
        /\ e[n + 1] = Len(R) /\ R[Len(R)].kind \in {"OK", "ERROR"}
        /\ \A i \in 1 .. n + 1 : e[i] \in 1 .. Len(R)
        /\ \A i \in 1 .. n : /\ e[i + 1] = e[i] + Len(Fields(nets[i]))
                             /\ \A k \in 1 .. Len(Fields(nets[i])) :
                                  R[e[i] - 1 + k] = Fields(nets[i])[k]
    BY Layout
  <1>2. /\ L \in Seq(Tokens) /\ Len(L) = Len(R) + (IF z = 0 THEN 0 ELSE 1)
        /\ \A x \in 1 .. Len(R) : Moved(z, x) \in 1 .. Len(L) /\ L[Moved(z, x)] = R[x]
        /\ z # 0 => L[z].kind = "pause"
    BY <1>1, LaidAt
  <1>3. net \in Net /\ Named(net)
    BY ElementOfSeq
  <1>4. m \in Nat /\ Len(Fields(net)) = m + 14
    BY <1>3, FieldsAre
  <1> HIDE DEF e, L, n
  <1>5. j \in 1 .. n /\ j \in 1 .. n + 1 /\ j + 1 \in 1 .. n + 1
    BY <1>1 DEF n
  <1>6. e[j] \in 1 .. Len(R) /\ e[j + 1] \in 1 .. Len(R) /\ e[j + 1] = e[j] + m + 14
    <2>1. e[j + 1] = e[j] + Len(Fields(net))
      BY <1>1, <1>5
    <2>2. e[j] \in 1 .. Len(R) /\ e[j + 1] \in 1 .. Len(R)
      BY <1>1, <1>5
    <2>3. Len(Fields(net)) = m + 14 /\ m \in Nat
      BY <1>4
    <2> DEFINE l == Len(Fields(net))
               x == e[j]
               y == e[j + 1]
    <2>4. y = x + l /\ l = m + 14 /\ m \in Nat /\ x \in Int
      BY <2>1, <2>2, <2>3
    <2> HIDE DEF l, x, y, net, m
    <2>5. y = x + m + 14
      BY <2>4
    <2> QED BY <2>2, <2>5 DEF x, y
  <1>7. Moved(z, e[j]) \in 1 .. Len(L) /\ q \in 1 .. Len(L) /\ L[q] = R[e[j + 1]]
    BY <1>2, <1>6
  <1>8. Len(L) \in Nat
    BY <1>2, LenProperties
  <1>9. \A k \in 1 .. m + 14 : /\ Moved(z, e[j] - 1 + k) \in 1 .. Len(L)
                               /\ L[Moved(z, e[j] - 1 + k)] = Fields(net)[k]
    <2> SUFFICES ASSUME NEW k \in 1 .. m + 14
                 PROVE  /\ Moved(z, e[j] - 1 + k) \in 1 .. Len(L)
                        /\ L[Moved(z, e[j] - 1 + k)] = Fields(net)[k]
      OBVIOUS
    <2> DEFINE x == e[j] - 1 + k
    <2>1. x \in 1 .. Len(R)
      <3>1. PICK N : N = Len(R)
        OBVIOUS
      <3>2. PICK y : y = e[j]
        OBVIOUS
      <3>3. PICK h : h = m
        OBVIOUS
      <3>4. N \in Nat /\ h \in Nat /\ y \in 1 .. N /\ y + h + 14 \in 1 .. N /\ k \in 1 .. h + 14
        BY <1>1, <1>4, <1>6, <3>1, <3>2, <3>3
      <3>5. y - 1 + k \in 1 .. N
        BY <3>4
      <3> QED BY <3>1, <3>2, <3>5
    <2>2. k \in 1 .. Len(Fields(nets[j]))
      BY <1>4
    <2>3. R[x] = Fields(net)[k]
      BY <1>1, <1>5, <2>2
    <2> HIDE DEF x
    <2>4. Moved(z, x) \in 1 .. Len(L) /\ L[Moved(z, x)] = Fields(net)[k]
      BY <1>2, <2>1, <2>3
    <2> QED BY <2>4 DEF x
  <1>10. CASE j < n
    <2> DEFINE i == j + 1
    <2>1. i \in 1 .. n
      BY <1>1, <1>5, <1>10
    <2>2. Named(nets[i]) /\ nets[i] \in Net
      BY <2>1, ElementOfSeq DEF n
    <2> HIDE DEF i
    <2>3. Fields(nets[i])[1].kind = "entry" /\ Len(nets[i].name) \in Nat /\ Len(Fields(nets[i])) = Len(nets[i].name) + 14
      BY <2>2, FieldsAre
    <2>4. 1 \in 1 .. Len(Fields(nets[i])) /\ e[i] - 1 + 1 = e[i]
      <3>1. e[i] \in Nat
        BY <1>6 DEF i
      <3> QED BY <2>3, <3>1
    <2>5. R[e[i]] = Fields(nets[i])[1]
      BY <1>1, <2>1, <2>4
    <2>6. L[q].kind = "entry" /\ j # n
      BY <1>1, <1>5, <1>7, <1>10, <2>3, <2>5 DEF i
    <2>7. L[q].kind = "entry" <=> j < n
      BY <1>10, <2>6
    <2>8. e[j] \in Nat /\ (j = n => q = Len(L))
      BY <1>6, <2>6
    <2> HIDE DEF q, net, m
    <2> QED BY <1>2, <1>4, <1>6, <1>7, <1>8, <1>9, <2>6, <2>7, <2>8 DEF L, e, n, q, net, m, Placed
  <1>11. CASE ~(j < n)
    <2>1. j = n
      BY <1>1, <1>5, <1>11
    <2>2. e[j + 1] = Len(R)
      BY <1>1, <2>1
    <2>3. L[q].kind \in {"OK", "ERROR"}
      BY <1>1, <1>7, <2>2
    <2>4. q = Len(L)
      <3>1. z = 0 => q = Len(R)
        BY <2>2 DEF Moved
      <3>2. z # 0 => q = Len(R) + 1
        <4>1. z # 0 => z <= e[j + 1]
          BY <1>1, <2>2
        <4> QED BY <2>2, <4>1 DEF Moved
      <3> HIDE DEF q
      <3> QED BY <1>1, <1>2, <3>1, <3>2
    <2>5. L[q].kind = "entry" <=> j < n
      BY <1>11, <2>3
    <2>6. e[j] \in Nat
      BY <1>6
    <2> HIDE DEF q, net, m
    <2> QED BY <1>2, <1>4, <1>6, <1>7, <1>8, <1>9, <2>3, <2>4, <2>5, <2>6 DEF L, e, n, q, net, m, Placed
  <1> QED BY <1>10, <1>11

(* A turn of the loop reads the network that the answer has there, unless  *)
(* the module pauses in it; then it goes on with the next one, or gives up.*)
Reads(nets, R, z, j) ==
  LET L == Laid(R, z)
      e == Starts(nets)
      q == Moved(z, e[j + 1])
      turn == Turn(From(L, Moved(z, e[j])))
  IN  /\ \/ turn.idx = NoTag
         \/ /\ turn.rest = From(L, q)
            /\ L[q].kind = "entry" => turn.idx = NUMESPTAGS
            /\ L[q].kind = "OK" => turn.idx = 0
            /\ L[q].kind = "ERROR" => turn.idx = 1
      /\ \/ Within(z, e, j)
         \/ /\ turn.encr = nets[j].encr /\ turn.rssi = nets[j].rssi
            /\ turn.named /\ \A old : Stored(turn.name, old) = Shown(nets[j]).name

LEMMA TurnReads ==
  ASSUME NEW nets \in Seq(Net), \A i \in 1 .. Len(nets) : Named(nets[i]),
         NEW R \in Replies(nets), NEW z \in 0 .. Len(R), NEW j \in 1 .. Len(nets)
  PROVE  Reads(nets, R, z, j)
  <1> DEFINE L == Laid(R, z)
             e == Starts(nets)
             x == e[j]
             y == e[j + 1]
             p == Moved(z, x)
             q == Moved(z, y)
             net == nets[j]
             m == Len(net.name)
             F == Fields(net)
             turn == Turn(From(L, p))
  <1>1. /\ L \in Seq(Tokens) /\ Len(L) \in Nat /\ m \in Nat /\ x \in Nat /\ y = x + m + 14
        /\ p \in 1 .. Len(L) /\ q \in 1 .. Len(L)
        /\ L[q].kind \in {"entry", "OK", "ERROR"}
        /\ \A k \in 1 .. m + 14 : /\ Moved(z, x - 1 + k) \in 1 .. Len(L)
                                  /\ L[Moved(z, x - 1 + k)] = F[k]
        /\ z # 0 => L[z].kind = "pause"
    <2>1. Placed(nets, R, z, j)
      BY Places
    <2> QED BY <2>1, Zenon DEF Placed
  <1>2. net \in Net /\ Named(net)
    BY ElementOfSeq
  <1>3. Len(F) = m + 14
    BY <1>2, FieldsAre
  <1>4. z \in Nat
    OBVIOUS
  <1>7. Within(z, e, j) <=> z # 0 /\ x < z /\ z <= y
    BY DEF Within
  <1> HIDE DEF L, e, m, F, x, y
  <1>8. x \in Nat /\ m \in Nat /\ y = x + m + 14 /\ y \in Nat
    <2>1. x \in Nat /\ m \in Nat /\ y = x + m + 14
      BY <1>1
    <2> QED BY <2>1
  <1>5. CASE ~Within(z, e, j)
    <2>1. /\ \A k \in 1 .. m + 14 : Moved(z, x - 1 + k) = p - 1 + k
          /\ q = p + m + 14
      <3>1. CASE z # 0 /\ z <= x
        <4>1. p = x + 1 /\ q = y + 1
          BY <1>4, <1>8, <3>1 DEF Moved
        <4>2. \A k \in 1 .. m + 14 : z <= x - 1 + k
          BY <1>4, <1>8, <3>1
        <4>3. \A k \in 1 .. m + 14 : Moved(z, x - 1 + k) = x - 1 + k + 1
          BY <3>1, <4>2 DEF Moved
        <4> HIDE DEF p, q
        <4> QED BY <1>8, <4>1, <4>3
      <3>2. CASE z = 0 \/ z > y
        <4>1. p = x /\ q = y
          BY <1>4, <1>8, <3>2 DEF Moved
        <4>2. \A k \in 1 .. m + 14 : z = 0 \/ ~(z <= x - 1 + k)
          BY <1>4, <1>8, <3>2
        <4>3. \A k \in 1 .. m + 14 : Moved(z, x - 1 + k) = x - 1 + k
          BY <4>2 DEF Moved
        <4> HIDE DEF p, q
        <4> QED BY <1>8, <4>1, <4>3
      <3>3. (z # 0 /\ z <= x) \/ z = 0 \/ z > y
        BY <1>4, <1>5, <1>7, <1>8
      <3> QED BY <3>1, <3>2, <3>3
    <2> HIDE DEF p, q
    <2>2. p + Len(F) \in 1 .. Len(L) /\ L[p + Len(F)].kind \in {"entry", "OK", "ERROR"}
      <3>1. p + Len(F) = q
        BY <1>1, <1>3, <2>1
      <3> QED BY <1>1, <3>1
    <2>3. \A k \in 1 .. Len(F) : L[p - 1 + k] = F[k]
      BY <1>1, <1>3, <2>1
    <2>4. At(L, p, net) /\ p + Len(net.name) + 14 \in 1 .. Len(L)
      BY <1>1, <1>2, <2>2, <2>3, FieldsAt DEF F
    <2>5. /\ turn.encr = net.encr /\ turn.rssi = net.rssi
          /\ turn.named /\ \A old : Stored(turn.name, old) = Shown(net).name
          /\ turn.rest = From(L, q)
          /\ L[q].kind = "entry" => turn.idx = NUMESPTAGS
          /\ L[q].kind = "OK" => turn.idx = 0
          /\ L[q].kind = "ERROR" => turn.idx = 1
      <3>1. q = p + Len(net.name) + 14
        BY <2>1 DEF m
      <3>2. L \in Seq(Tokens) /\ p \in 1 .. Len(L)
        BY <1>1
      <3>3. LET r == Turn(From(L, p))
                o == p + Len(net.name) + 14
            IN  /\ r.encr = net.encr /\ r.rssi = net.rssi
                /\ r.named /\ \A old : Stored(r.name, old) = Shown(net).name
                /\ r.rest = From(L, o)
                /\ L[o].kind = "entry" => r.idx = NUMESPTAGS
                /\ L[o].kind = "OK" => r.idx = 0
                /\ L[o].kind = "ERROR" => r.idx = 1
        BY <1>2, <2>4, <3>2, TurnExact
      <3> QED BY <3>1, <3>3
    <2> HIDE DEF turn
    <2> QED BY <2>5 DEF turn, L, e, p, q, x, y, Reads
  <1>6. CASE Within(z, e, j)
    <2>1. p = x /\ q = y + 1 /\ z # 0 /\ x < z /\ z <= y /\ L[z].kind = "pause"
      BY <1>1, <1>4, <1>6, <1>7, <1>8 DEF Moved
    <2> DEFINE P(k) == Moved(z, x - 1 + k)
    <2>2. \A k \in 1 .. m + 14 : /\ P(k) = IF z <= x - 1 + k THEN x - 1 + k + 1 ELSE x - 1 + k
                                 /\ P(k) \in 1 .. Len(L) /\ L[P(k)] = F[k]
      BY <1>1, <2>1 DEF Moved
    <2> HIDE DEF P, p, q
    <2>9. \A k \in 2 .. m + 14 : k \in 1 .. m + 14 /\ F[k].kind \notin {"entry", "OK", "ERROR"}
      <3>1. \A k \in 2 .. m + 14 : k \in 1 .. m + 14 /\ k # 1
        BY <1>8
      <3> QED BY <1>2, <1>3, <3>1, FieldKinds DEF F
    <2>10. \A k \in 2 .. m + 14 : L[P(k)].kind \notin {"entry", "OK", "ERROR"}
      BY <2>2, <2>9
    <2>3. \A i \in p + 1 .. q - 1 : L[i].kind \notin {"entry", "OK", "ERROR"}
      <3> SUFFICES ASSUME NEW i \in p + 1 .. q - 1 PROVE L[i].kind \notin {"entry", "OK", "ERROR"}
        OBVIOUS
      <3>0. i \in x + 1 .. y
        BY <1>8, <2>1
      <3>1. CASE i = z
        BY <2>1, <3>1
      <3>2. CASE i < z
        <4> DEFINE k == i - x + 1
        <4>1. k \in 2 .. m + 14 /\ ~(z <= x - 1 + k) /\ x - 1 + k = i
          BY <1>4, <1>8, <2>1, <3>0, <3>2
        <4> HIDE DEF k
        <4>2. P(k) = i
          BY <2>2, <2>9, <4>1
        <4> QED BY <2>10, <4>1, <4>2
      <3>3. CASE i > z
        <4> DEFINE k == i - x
        <4>1. k \in 2 .. m + 14 /\ z <= x - 1 + k /\ x - 1 + k + 1 = i
          BY <1>4, <1>8, <2>1, <3>0, <3>3
        <4> HIDE DEF k
        <4>2. P(k) = i
          BY <2>2, <2>9, <4>1
        <4> QED BY <2>10, <4>1, <4>2
      <3> QED BY <1>4, <1>8, <3>0, <3>1, <3>2, <3>3
    <2> DEFINE a == P(2)
               b == P(4)
               c == P(m + 5)
               d == P(m + 6)
               g == P(m + 7)
    <2>4. /\ F[2].kind = "number" /\ F[4].kind = "quote" /\ F[m + 5].kind = "quote"
          /\ F[m + 6].kind = "comma" /\ F[m + 7].kind = "number"
      BY <1>2, FieldsAre DEF F, m
    <2>5. /\ L[a].kind = "number" /\ L[b].kind = "quote" /\ L[c].kind = "quote"
          /\ L[d].kind = "comma" /\ L[g].kind = "number"
      <3>1. {2, 4, m + 5, m + 6, m + 7} \subseteq 1 .. m + 14
        BY <1>1
      <3> QED BY <2>2, <2>4, <3>1
    <2>6. /\ a \in p + 1 .. Len(L) /\ b \in a + 1 .. Len(L) /\ c \in b + 1 .. Len(L)
          /\ d \in c + 1 .. Len(L) /\ g \in d + 1 .. Len(L) /\ q \in g + 1 .. Len(L)
      <3>1. 2 \in 1 .. m + 14 /\ 4 \in 1 .. m + 14 /\ m + 5 \in 1 .. m + 14 /\ m + 6 \in 1 .. m + 14 /\ m + 7 \in 1 .. m + 14
        BY <1>8
      <3>2. /\ a = (IF z <= x - 1 + 2 THEN x - 1 + 2 + 1 ELSE x - 1 + 2) /\ a \in 1 .. Len(L)
            /\ b = (IF z <= x - 1 + 4 THEN x - 1 + 4 + 1 ELSE x - 1 + 4) /\ b \in 1 .. Len(L)
            /\ c = (IF z <= x - 1 + (m + 5) THEN x - 1 + (m + 5) + 1 ELSE x - 1 + (m + 5)) /\ c \in 1 .. Len(L)
            /\ d = (IF z <= x - 1 + (m + 6) THEN x - 1 + (m + 6) + 1 ELSE x - 1 + (m + 6)) /\ d \in 1 .. Len(L)
            /\ g = (IF z <= x - 1 + (m + 7) THEN x - 1 + (m + 7) + 1 ELSE x - 1 + (m + 7)) /\ g \in 1 .. Len(L)
        BY <2>2, <3>1
      <3>3. q \in 1 .. Len(L)
        BY <1>1
      <3> HIDE DEF a, b, c, d, g
      <3>4. x < a /\ a < b /\ b < c /\ c < d /\ d < g /\ g < q
        <4>1. x \in Nat /\ m \in Nat /\ z \in Nat /\ x < z /\ z <= y /\ y = x + m + 14 /\ q = y + 1
          BY <1>4, <1>8, <2>1
        <4>2. x < a /\ a < b
          BY <3>2, <4>1
        <4>3. b < c
          BY <3>2, <4>1
        <4>4. c < d /\ d < g
          BY <3>2, <4>1
        <4>5. g < q
          BY <3>2, <4>1
        <4> QED BY <4>2, <4>3, <4>4, <4>5
      <3>5. p = x /\ x \in Nat /\ Len(L) \in Nat
        BY <1>1, <1>8, <2>1
      <3>6. /\ a \in 1 .. Len(L) /\ b \in 1 .. Len(L) /\ c \in 1 .. Len(L)
            /\ d \in 1 .. Len(L) /\ g \in 1 .. Len(L)
        BY <3>2
      <3> QED BY <3>3, <3>4, <3>5, <3>6
    <2>7. p \in 0 .. Len(L)
      BY <1>1
    <2> HIDE DEF a, b, c, d, g, turn
    <2>8. \/ turn.idx = NoTag
          \/ /\ turn.rest = From(L, q)
             /\ L[q].kind = "entry" => turn.idx = NUMESPTAGS
             /\ L[q].kind = "OK" => turn.idx = 0
             /\ L[q].kind = "ERROR" => turn.idx = 1
      <3>1. L \in Seq(Tokens) /\ L[q].kind \in {"entry", "OK", "ERROR"}
        BY <1>1
      <3>2. LET r == Turn(From(L, p))
            IN  \/ r.idx = NoTag
                \/ /\ r.rest = From(L, q)
                   /\ L[q].kind = "entry" => r.idx = NUMESPTAGS
                   /\ L[q].kind = "OK" => r.idx = 0
                   /\ L[q].kind = "ERROR" => r.idx = 1
        <4>1. Slots(L, p, a, b, c, d, g, q)
          BY <2>3, <2>5, <2>6, <2>7, <3>1 DEF Slots
        <4> QED BY <3>1, <4>1, TurnEnds
      <3> QED BY <3>2 DEF turn
    <2> QED BY <1>6, <2>8 DEF turn, L, e, p, q, x, y, Reads
  <1> QED BY <1>5, <1>6

-----------------------------------------------------------------------------
(* The list is that of the answer: every step.                             *)

(* Nothing is left of a line after its last token, and all of it after none.*)
LEMMA FromEnds ==
  ASSUME NEW L \in Seq(Tokens)
  PROVE  From(L, 0) = L /\ From(L, Len(L)) = <<>>
  <1>1. Len(L) \in Nat
    BY LenProperties
  <1>2. From(L, 0) = L
    <2>1. 0 \in 0 .. Len(L)
      BY <1>1
    <2>2. /\ From(L, 0) \in Seq(Tokens) /\ Len(From(L, 0)) = Len(L) - 0
          /\ \A i \in 1 .. Len(L) - 0 : From(L, 0)[i] = L[0 + i]
      BY <2>1, FromProperties
    <2>3. Len(From(L, 0)) = Len(L) /\ \A i \in 1 .. Len(From(L, 0)) : From(L, 0)[i] = L[i]
      BY <1>1, <2>2
    <2> QED BY <2>2, <2>3, SameSeq
  <1>3. From(L, Len(L)) = <<>>
    <2>1. Len(L) \in 0 .. Len(L)
      BY <1>1
    <2>2. From(L, Len(L)) \in Seq(Tokens) /\ Len(From(L, Len(L))) = Len(L) - Len(L)
      BY <2>1, FromProperties
    <2>3. Len(From(L, Len(L))) = 0
      BY <1>1, <2>2
    <2> QED BY <2>2, <2>3, EmptySeq
  <1> QED BY <1>2, <1>3

LEMMA InitScanning ==
  ASSUME Init
  PROVE  Scanning
  <1>1. seen \in Seq(Net) /\ Len(seen) = 0
    BY EmptySeq DEF Init
  <1>2. TypeOK
    BY InitTypes
  <1>3. \A i \in 1 .. Len(seen) : Named(seen[i])
    BY <1>1
  <1>4. pc = "idle" /\ scans = 0
    BY DEF Init
  <1> QED BY <1>1, <1>2, <1>3, <1>4 DEF Scanning

LEMMA ScanStep ==
  ASSUME Scanning, scanNetworks
  PROVE  Scanning'
  <1>1. TypeOK'
    BY NextTypes DEF Scanning, Next
  <1>2. PICK R \in Replies(seen') : \E z \in 0 .. Len(R) : \E left \in Seq(Tokens) :
           /\ seen' \in Seq(Net) /\ \A i \in 1 .. Len(seen') : Named(seen'[i])
           /\ line' = left \o Laid(R, z) /\ quiet' = (left = <<>>) /\ late' = (z # 0)
    BY NewAnswer DEF Scanning
  <1>3. PICK z \in 0 .. Len(R), left \in Seq(Tokens) :
           /\ seen' \in Seq(Net) /\ \A i \in 1 .. Len(seen') : Named(seen'[i])
           /\ line' = left \o Laid(R, z) /\ quiet' = (left = <<>>) /\ late' = (z # 0)
    BY <1>2
  <1>4. pc' = "first" /\ ssidListNum' = 0
    BY DEF scanNetworks
  <1>5. quiet' => line' = Laid(R, z)
    <2>1. R \in Seq(Tokens)
      BY <1>3, Layout
    <2>2. Laid(R, z) \in Seq(Tokens)
      BY <2>1, LaidAt
    <2> QED BY <1>3, <2>2, ConcatEmptySeq
  <1>6. quiet' => Reading'
    BY <1>3, <1>4, <1>5 DEF Reading
  <1> QED BY <1>1, <1>3, <1>4, <1>6 DEF Scanning

(* The first wait finds the first network, the end of an answer without    *)
(* one, or a pause before either.                                          *)
LEMMA FirstReads ==
  ASSUME NEW nets \in Seq(Net), \A i \in 1 .. Len(nets) : Named(nets[i]),
         NEW R \in Replies(nets), NEW z \in 0 .. Len(R)
  PROVE  LET L == Laid(R, z)
             e == Starts(nets)
             w == readUntil(L, "entry", TRUE)
         IN  \/ w.idx = NoTag
             \/ /\ w.idx = NUMESPTAGS /\ 1 <= Len(nets)
                /\ w.rest = From(L, Moved(z, e[1])) /\ ~(z # 0 /\ z <= e[1])
             \/ w.idx \in {0, 1} /\ Len(nets) = 0 /\ w.rest = <<>>
  <1> DEFINE L == Laid(R, z)
             e == Starts(nets)
             n == Len(nets)
             w == readUntil(From(L, 0), "entry", Tags)
  <1>1. /\ n \in Nat /\ R \in Seq(Tokens) /\ Len(R) \in Nat
        /\ e[1] = 1 /\ e[n + 1] = Len(R) /\ R[Len(R)].kind \in {"OK", "ERROR"}
        /\ e[1] \in 1 .. Len(R)
        /\ \A j \in 1 .. n : \A k \in 1 .. Len(Fields(nets[j])) : R[e[j] - 1 + k] = Fields(nets[j])[k]
    <2>1. 1 \in 1 .. n + 1
      BY Layout
    <2> QED BY <2>1, Layout
  <1>2. /\ L \in Seq(Tokens) /\ Len(L) = Len(R) + (IF z = 0 THEN 0 ELSE 1)
        /\ \A x \in 1 .. Len(R) : Moved(z, x) \in 1 .. Len(L) /\ L[Moved(z, x)] = R[x]
        /\ z # 0 => L[z].kind = "pause"
    BY <1>1, LaidAt
  <1>3. L = From(L, 0) /\ From(L, Len(L)) = <<>>
    BY <1>2, FromEnds
  <1> HIDE DEF L, e, n
  <1>4. 1 \in 1 .. Len(R) /\ 1 \in 1 .. Len(L) /\ Len(L) \in Nat
    <2>1. 1 \in 1 .. Len(R)
      BY <1>1
    <2>2. Len(L) = Len(R) \/ Len(L) = Len(R) + 1
      BY <1>1, <1>2
    <2> QED BY <1>1, <2>1, <2>2
  <1>5. L[1].kind \in {"entry", "OK", "ERROR", "pause"} =>
          /\ w.rest = From(L, 1)
          /\ L[1].kind = "pause" => w.idx = NoTag
          /\ L[1].kind = "entry" => w.idx = NUMESPTAGS
          /\ L[1].kind = "OK" => w.idx = 0
          /\ L[1].kind = "ERROR" => w.idx = 1
    <2> SUFFICES ASSUME L[1].kind \in {"entry", "OK", "ERROR", "pause"}
                 PROVE  /\ w.rest = From(L, 1)
                        /\ L[1].kind = "pause" => w.idx = NoTag
                        /\ L[1].kind = "entry" => w.idx = NUMESPTAGS
                        /\ L[1].kind = "OK" => w.idx = 0
                        /\ L[1].kind = "ERROR" => w.idx = 1
      OBVIOUS
    <2>1. 0 \in 0 .. Len(L) /\ 1 \in 0 + 1 .. Len(L) /\ \A i \in 0 + 1 .. 1 - 1 : FALSE
      BY <1>4
    <2>2. L[1].kind \in Ends("entry") /\ "entry" \in Wanted
      BY DEF Ends, Wanted
    <2> HIDE DEF w
    <2>3. \A i \in 0 + 1 .. 1 - 1 : L[i].kind \notin Ends("entry")
      BY <2>1
    <2> QED BY <1>2, <2>1, <2>2, <2>3, TagStops DEF w
  <1> HIDE DEF w
  <1>6. CASE z = 1
    <2>1. w.idx = NoTag
      BY <1>2, <1>5, <1>6
    <2> QED BY <1>3, <2>1 DEF w, L, Tags
  <1>7. CASE z # 1
    <2>1. Moved(z, 1) = 1 /\ L[1] = R[1] /\ ~(z # 0 /\ z <= 1)
      <3>1. ~(z # 0 /\ z <= 1)
        BY <1>1, <1>7
      <3>2. Moved(z, 1) = 1
        BY <3>1 DEF Moved
      <3> QED BY <1>2, <1>4, <3>1, <3>2
    <2>2. CASE n = 0
      <3>0. n + 1 = 1
        BY <2>2
      <3>4. Len(R) = 1
        BY <1>1, <3>0
      <3>1. Len(R) = 1 /\ z = 0
        <4>1. z \in 0 .. 1
          BY <3>4
        <4> QED BY <1>7, <3>4, <4>1
      <3>2. Len(L) = 1 /\ L[1].kind \in {"OK", "ERROR"}
        BY <1>1, <1>2, <2>1, <3>1
      <3>3. w.idx \in {0, 1} /\ w.rest = <<>>
        BY <1>3, <1>5, <3>2
      <3> QED BY <1>3, <2>2, <3>3 DEF w, L, n, Tags
    <2>3. CASE n # 0
      <3>1. 1 \in 1 .. n /\ 1 <= n
        BY <1>1, <2>3
      <3>2. nets[1] \in Net /\ Named(nets[1])
        BY <3>1, ElementOfSeq DEF n
      <3>3. Fields(nets[1])[1].kind = "entry" /\ 1 \in 1 .. Len(Fields(nets[1]))
        BY <3>2, FieldsAre
      <3>4. R[e[1] - 1 + 1] = Fields(nets[1])[1] /\ e[1] - 1 + 1 = 1
        BY <1>1, <3>1, <3>3
      <3>5. L[1].kind = "entry"
        BY <2>1, <3>3, <3>4
      <3>6. w.idx = NUMESPTAGS /\ w.rest = From(L, 1)
        BY <1>5, <3>5
      <3>7. w.rest = From(L, Moved(z, e[1])) /\ ~(z # 0 /\ z <= e[1])
        BY <1>1, <2>1, <3>6
      <3> QED BY <1>3, <3>1, <3>6, <3>7 DEF w, L, e, n, Tags
    <2> QED BY <2>2, <2>3
  <1> QED BY <1>6, <1>7

LEMMA FirstStep ==
  ASSUME Scanning, firstEntry
  PROVE  Scanning'
  <1>1. TypeOK'
    BY NextTypes DEF Scanning, Next
  <1>2. /\ pc = "first" /\ line' = readUntil(line, "entry", TRUE).rest
        /\ idx' = readUntil(line, "entry", TRUE).idx
        /\ pc' = (IF idx' = NUMESPTAGS THEN "entry" ELSE "done")
        /\ UNCHANGED <<ssidListNum, encr, ssid, rssi, ret, printed, seen, quiet, late, scans>>
    BY DEF firstEntry, listVars, hist
  <1>3. seen \in Seq(Net) /\ (\A i \in 1 .. Len(seen) : Named(seen[i])) /\ Len(seen) \in Nat
    BY LenProperties DEF Scanning
  <1>6. idx' # NUMESPTAGS => pc' = "done"
    BY <1>2, Zenon
  <1>4. CASE ~quiet
    <2>1. pc' \in {"entry", "done"}
      BY <1>2
    <2> QED BY <1>1, <1>2, <1>3, <1>4, <2>1 DEF Scanning
  <1>5. CASE quiet
    <2>0. PICK R \in Replies(seen) : \E z \in 0 .. Len(R) : (z # 0 => late) /\ line = Laid(R, z)
      BY <1>2, <1>5 DEF Scanning, Reading
    <2>1. PICK z \in 0 .. Len(R) : (z # 0 => late) /\ line = Laid(R, z)
      BY <2>0
    <2>2. ssidListNum = 0
      BY <1>2, <1>5 DEF Scanning
    <2> DEFINE e == Starts(seen)
    <2>3. \/ idx' = NoTag
          \/ /\ idx' = NUMESPTAGS /\ 1 <= Len(seen)
             /\ line' = From(Laid(R, z), Moved(z, e[1])) /\ ~(z # 0 /\ z <= e[1])
          \/ idx' \in {0, 1} /\ Len(seen) = 0 /\ line' = <<>>
      BY <1>2, <1>3, <2>1, FirstReads
    <2> HIDE DEF e
    <2>4. ssidListNum' = 0 /\ ssidListNum' + 1 = 1 /\ seen' = seen /\ late' = late
      BY <1>2, <2>2
    <2>5. CASE idx' = NoTag
      <3>1. pc' = "done"
        BY <1>6, <2>5 DEF NoTag, NUMESPTAGS
      <3> QED BY <1>1, <1>2, <1>3, <2>5, <3>1 DEF Scanning
    <2>6. CASE /\ idx' = NUMESPTAGS /\ 1 <= Len(seen)
               /\ line' = From(Laid(R, z), Moved(z, e[1])) /\ ~(z # 0 /\ z <= e[1])
      <3>1. pc' = "entry"
        BY <1>2, <2>6
      <3>2. Spared(0, FALSE)'
        BY DEF Spared
      <3>3. Spared(ssidListNum, z # 0 /\ z <= e[1])'
        BY <2>4, <2>6, <3>2 DEF e, Spared
      <3>4. Reading'
        BY <2>1, <2>4, <2>6, <3>1, <3>3 DEF Reading, e
      <3> QED BY <1>1, <1>2, <1>3, <3>1, <3>4 DEF Scanning
    <2>7. CASE idx' \in {0, 1} /\ Len(seen) = 0 /\ line' = <<>>
      <3>1. pc' = "done"
        BY <1>6, <2>7 DEF NUMESPTAGS
      <3>2. MaxNum \in Nat \ {0}
        BY ListAssumption
      <3>3. Spared(ssidListNum, FALSE)'
        BY <2>4 DEF Spared
      <3>5. 0 < MaxNum /\ Len(seen)' = 0 /\ ssidListNum' = 0 /\ line' = <<>>
        BY <2>4, <2>7, <3>2
      <3>6. ssidListNum' = IF Len(seen)' < MaxNum THEN Len(seen)' ELSE MaxNum - 1
        BY <3>5
      <3>4. Complete(ssidListNum)'
        BY <3>3, <3>5, <3>6, Zenon DEF Complete
      <3> QED BY <1>1, <1>2, <1>3, <3>1, <3>4 DEF Scanning
    <2> QED BY <2>3, <2>5, <2>6, <2>7
  <1> QED BY <1>4, <1>5

(* A turn fills one place of the list and leaves the others alone. *)
LEMMA Fills ==
  ASSUME TypeOK, nextEntry
  PROVE  LET turn == Turn(line)
             l == ssidListNum
         IN  /\ l \in 0 .. MaxNum - 1
             /\ encr'[l] = turn.encr /\ rssi'[l] = turn.rssi
             /\ turn.named => ssid'[l] = Stored(turn.name, ssid[l])
             /\ \A i \in 1 .. l : Right(i)' <=> Right(i)
  <1> DEFINE turn == Turn(line)
             l == ssidListNum
  <1>1. /\ l \in 0 .. MaxNum - 1 /\ MaxNum \in Nat
        /\ encr \in [0 .. MaxNum - 1 -> Nat] /\ rssi \in [0 .. MaxNum - 1 -> Nat]
        /\ ssid \in [0 .. MaxNum - 1 -> Seq(Tokens)]
    BY ListAssumption DEF TypeOK
  <1>2. /\ encr' = [encr EXCEPT ![l] = turn.encr] /\ rssi' = [rssi EXCEPT ![l] = turn.rssi]
        /\ ssid' = (IF turn.named THEN [ssid EXCEPT ![l] = Stored(turn.name, @)] ELSE ssid)
        /\ seen' = seen
    BY DEF nextEntry, hist
  <1> HIDE DEF turn
  <1>3. /\ encr'[l] = turn.encr /\ rssi'[l] = turn.rssi
        /\ turn.named => ssid'[l] = Stored(turn.name, ssid[l])
    BY <1>1, <1>2
  <1>4. ASSUME NEW k \in 0 .. MaxNum - 1, k # l
        PROVE  encr'[k] = encr[k] /\ rssi'[k] = rssi[k] /\ ssid'[k] = ssid[k]
    BY <1>1, <1>2, <1>4
  <1>5. ASSUME NEW i \in 1 .. l PROVE Right(i)' <=> Right(i)
    <2>1. i - 1 \in 0 .. MaxNum - 1 /\ i - 1 # l
      BY <1>1
    <2>2. encr'[i - 1] = encr[i - 1] /\ rssi'[i - 1] = rssi[i - 1] /\ ssid'[i - 1] = ssid[i - 1]
      BY <1>4, <2>1
    <2> QED BY <1>2, <2>2 DEF Right
  <1> QED BY <1>1, <1>3, <1>5 DEF turn

(* The places up to this one are spared if they were and the pause was not *)
(* here, or the pause is here.                                             *)
LEMMA SparedNext ==
  ASSUME NEW n \in Nat, NEW x \in Int, NEW y \in Int, NEW z \in Nat, x <= y,
         z # 0 => late, late' = late, Spared(n, z # 0 /\ z <= x),
         \A i \in 1 .. n : Right(i)' <=> Right(i),
         (z # 0 /\ x < z /\ z <= y) \/ Right(n + 1)'
  PROVE  Spared(n + 1, z # 0 /\ z <= y)'
  <1>1. \A i \in 1 .. n + 1 : i \in 1 .. n \/ i = n + 1
    OBVIOUS
  <1>2. CASE z # 0 /\ z <= x
    <2>1. z <= y /\ Right(n + 1)' /\ late
      BY <1>2
    <2>2. \E s \in 1 .. n : \A i \in 1 .. n : i = s \/ Right(i)
      BY <1>2 DEF Spared
    <2>3. PICK s \in 1 .. n : \A i \in 1 .. n : i = s \/ Right(i)
      BY <2>2
    <2>4. s \in 1 .. n + 1 /\ \A i \in 1 .. n + 1 : i = s \/ Right(i)'
      BY <1>1, <2>1, <2>3
    <2>5. \E t \in 1 .. n + 1 : \A i \in 1 .. n + 1 : i = t \/ Right(i)'
      BY <2>4
    <2> QED BY <1>2, <2>1, <2>5 DEF Spared
  <1>3. CASE z = 0 \/ z > y
    <2>1. Right(n + 1)' /\ ~(z # 0 /\ z <= x) /\ ~(z # 0 /\ z <= y)
      BY <1>3
    <2>2. \A i \in 1 .. n : Right(i)
      BY <2>1 DEF Spared
    <2>3. \A i \in 1 .. n + 1 : Right(i)'
      BY <1>1, <2>1, <2>2
    <2> QED BY <2>1, <2>3 DEF Spared
  <1>4. CASE z # 0 /\ x < z /\ z <= y
    <2>1. ~(z <= x) /\ late
      BY <1>4
    <2>2. \A i \in 1 .. n : Right(i)
      BY <2>1 DEF Spared
    <2>3. n + 1 \in 1 .. n + 1 /\ \A i \in 1 .. n + 1 : i = n + 1 \/ Right(i)'
      BY <1>1, <2>2
    <2>4. \E t \in 1 .. n + 1 : \A i \in 1 .. n + 1 : i = t \/ Right(i)'
      BY <2>3
    <2> QED BY <1>4, <2>1, <2>4 DEF Spared
  <1> QED BY <1>2, <1>3, <1>4

LEMMA TurnStep ==
  ASSUME Scanning, nextEntry
  PROVE  Scanning'
  <1>1. TypeOK' /\ TypeOK
    BY NextTypes DEF Scanning, Next
  <1>2. /\ pc = "entry" /\ line' = Turn(line).rest /\ idx' = Turn(line).idx
        /\ ssidListNum' = (IF ssidListNum = MaxNum - 1 THEN ssidListNum ELSE ssidListNum + 1)
        /\ pc' = (IF ssidListNum = MaxNum - 1 \/ idx' # NUMESPTAGS THEN "done" ELSE "entry")
        /\ UNCHANGED <<ret, printed, seen, quiet, late, scans>>
    BY DEF nextEntry, hist
  <1>3. seen \in Seq(Net) /\ (\A i \in 1 .. Len(seen) : Named(seen[i])) /\ Len(seen) \in Nat
    BY LenProperties DEF Scanning
  <1>4. /\ pc' \in {"entry", "done"}
        /\ pc' = "entry" => idx' = NUMESPTAGS
    BY <1>2
  <1>5. CASE ~quiet
    BY <1>1, <1>2, <1>3, <1>4, <1>5 DEF Scanning
  <1>6. CASE quiet
    <2>1. Reading
      BY <1>2, <1>6 DEF Scanning
    <2>2. PICK nets : nets = seen
      OBVIOUS
    <2>3. PICK l : l = ssidListNum
      OBVIOUS
    <2>4. nets \in Seq(Net) /\ (\A i \in 1 .. Len(nets) : Named(nets[i])) /\ Len(nets) \in Nat /\ nets = seen'
      BY <1>2, <1>3, <2>2
    <2>5. l \in 0 .. MaxNum - 1 /\ l \in Nat /\ MaxNum \in Nat \ {0}
      BY <1>1, <2>3, ListAssumption DEF TypeOK
    <2> DEFINE j == l + 1
               e == Starts(nets)
               turn == Turn(line)
    <2>6. PICK R \in Replies(nets) : \E z \in 0 .. Len(R) :
             /\ z # 0 => late
             /\ j <= Len(nets) /\ line = From(Laid(R, z), Moved(z, e[j]))
             /\ Spared(l, z # 0 /\ z <= e[j])
      BY <1>2, <2>1, <2>2, <2>3 DEF Reading
    <2>7. PICK z \in 0 .. Len(R) :
             /\ z # 0 => late
             /\ j <= Len(nets) /\ line = From(Laid(R, z), Moved(z, e[j]))
             /\ Spared(l, z # 0 /\ z <= e[j])
      BY <2>6
    <2> DEFINE L == Laid(R, z)
               q == Moved(z, e[j + 1])
    <2>8. j \in 1 .. Len(nets) /\ j \in Nat
      BY <2>4, <2>5, <2>7
    <2>9. /\ L \in Seq(Tokens) /\ L[q].kind \in {"entry", "OK", "ERROR"}
          /\ L[q].kind = "entry" <=> j < Len(nets)
          /\ j = Len(nets) => q = Len(L)
          /\ e[j] \in Nat /\ Len(nets[j].name) \in Nat /\ e[j + 1] = e[j] + Len(nets[j].name) + 14
      <3> HIDE DEF j
      <3>1. Placed(nets, R, z, j)
        BY <2>4, <2>8, Places
      <3> QED BY <3>1, Zenon DEF Placed
    <2>10. /\ \/ turn.idx = NoTag
              \/ /\ turn.rest = From(L, q)
                 /\ L[q].kind = "entry" => turn.idx = NUMESPTAGS
                 /\ L[q].kind = "OK" => turn.idx = 0
                 /\ L[q].kind = "ERROR" => turn.idx = 1
           /\ \/ Within(z, e, j)
              \/ /\ turn.encr = nets[j].encr /\ turn.rssi = nets[j].rssi
                 /\ turn.named /\ \A old : Stored(turn.name, old) = Shown(nets[j]).name
      <3> HIDE DEF j
      <3> DEFINE t == Turn(From(L, Moved(z, e[j])))
      <3>1. Reads(nets, R, z, j)
        BY <2>4, <2>8, TurnReads
      <3>2. turn = t
        BY <2>7
      <3> HIDE DEF turn
      <3> QED BY <3>1, <3>2 DEF Reads
    <2> HIDE DEF turn, L, e, q, j
    <2>11. /\ encr'[l] = turn.encr /\ rssi'[l] = turn.rssi
           /\ turn.named => ssid'[l] = Stored(turn.name, ssid[l])
           /\ \A i \in 1 .. l : Right(i)' <=> Right(i)
      BY <1>1, <2>3, Fills DEF turn
    <2>12. Within(z, e, j) \/ Right(j)'
      <3> SUFFICES ASSUME ~Within(z, e, j) PROVE Right(j)'
        OBVIOUS
      <3>1. Named(nets[j])
        BY <2>4, <2>8
      <3>2. Shown(nets[j]) = [encr |-> nets[j].encr, name |-> Shown(nets[j]).name, rssi |-> nets[j].rssi]
        BY <3>1, ShownIs
      <3>3. encr'[l] = nets[j].encr /\ rssi'[l] = nets[j].rssi /\ ssid'[l] = Shown(nets[j]).name
        BY <2>10, <2>11
      <3>4. j - 1 = l
        BY <2>5 DEF j
      <3>5. [encr |-> encr'[j - 1], name |-> ssid'[j - 1], rssi |-> rssi'[j - 1]] = Shown(seen'[j])
        BY <2>4, <3>2, <3>3, <3>4
      <3> QED BY <3>5 DEF Right
    <2>13. Spared(j, z # 0 /\ z <= e[j + 1])'
      <3>1. PICK x : x = e[j]
        OBVIOUS
      <3>2. PICK y : y = e[j + 1]
        OBVIOUS
      <3>3. x \in Int /\ y \in Int /\ x <= y /\ z \in Nat
        <4>1. PICK m : m = Len(nets[j].name)
          OBVIOUS
        <4>2. x \in Nat /\ m \in Nat /\ y = x + m + 14
          BY <2>9, <3>1, <3>2, <4>1
        <4> QED BY <4>2
      <3>4. (z # 0 /\ x < z /\ z <= y) \/ Right(l + 1)'
        BY <2>12, <3>1, <3>2 DEF Within, j
      <3>5. Spared(l, z # 0 /\ z <= x)
        BY <2>7, <3>1
      <3>6. Spared(l + 1, z # 0 /\ z <= y)'
        BY <1>2, <2>5, <2>7, <2>11, <3>3, <3>4, <3>5, SparedNext
      <3> QED BY <3>2, <3>6 DEF j
    <2>14. idx' # NoTag => line' = From(L, q)
      BY <1>2, <2>10 DEF turn
    <2>15. idx' = NUMESPTAGS => j < Len(nets)
      BY <1>2, <2>9, <2>10 DEF turn, NUMESPTAGS, NoTag
    <2>16. idx' # NoTag /\ ~(j < Len(nets)) => line' = <<>> /\ j = Len(nets)
      <3>1. ~(j < Len(nets)) => j = Len(nets)
        BY <2>4, <2>8
      <3> QED BY <2>9, <2>14, <3>1, FromEnds
    <2>17. CASE l = MaxNum - 1
      <3>1. pc' = "done" /\ ssidListNum' = l
        BY <1>2, <2>3, <2>17
      <3>2. Spared(l, FALSE)' \/ Spared(l, TRUE)'
        <4>1. CASE z # 0 /\ z <= e[j]
          <5>1. late' /\ \E s \in 1 .. l : \A i \in 1 .. l : i = s \/ Right(i)
            BY <1>2, <2>7, <4>1 DEF Spared
          <5>2. \E s \in 1 .. l : \A i \in 1 .. l : i = s \/ Right(i)'
            BY <2>11, <5>1
          <5> QED BY <5>1, <5>2 DEF Spared
        <4>2. CASE ~(z # 0 /\ z <= e[j])
          <5>1. \A i \in 1 .. l : Right(i)
            BY <2>7, <4>2 DEF Spared
          <5> QED BY <2>11, <5>1 DEF Spared
        <4> QED BY <4>1, <4>2
      <3>3. j = MaxNum /\ ~(Len(nets) < MaxNum)
        BY <2>4, <2>5, <2>8, <2>17 DEF j
      <3>4. idx' # NoTag => (Len(nets) <= MaxNum => line' = <<>>)
        <4>1. Len(nets) <= MaxNum => ~(j < Len(nets))
          BY <2>4, <2>5, <3>3
        <4> QED BY <2>16, <4>1
      <3>5. l = IF Len(seen') < MaxNum THEN Len(seen') ELSE MaxNum - 1
        BY <2>4, <2>17, <3>3
      <3>6. idx' # NoTag => Complete(ssidListNum)'
        BY <2>4, <3>1, <3>2, <3>4, <3>5, Zenon DEF Complete
      <3> QED BY <1>1, <1>2, <1>3, <3>1, <3>6 DEF Scanning
    <2>18. CASE l # MaxNum - 1
      <3>1. ssidListNum' = j
        BY <1>2, <2>3, <2>18 DEF j
      <3>2. CASE idx' = NUMESPTAGS
        <4>1. pc' = "entry" /\ idx' # NoTag
          BY <1>2, <2>3, <2>18, <3>2 DEF NUMESPTAGS, NoTag
        <4>2. j + 1 <= Len(nets)
          BY <2>4, <2>8, <2>15, <3>2
        <4>3. line' = From(L, q)
          BY <2>14, <4>1
        <4>4. /\ ssidListNum' + 1 <= Len(seen')
              /\ line' = From(Laid(R, z), Moved(z, Starts(seen')[ssidListNum' + 1]))
          BY <2>4, <3>1, <4>2, <4>3 DEF L, q, e
        <4>5. Spared(ssidListNum, z # 0 /\ z <= Starts(seen)[ssidListNum + 1])'
          <5>1. Starts(nets)[j + 1] = Starts(seen')[ssidListNum' + 1]
            BY <2>4, <3>1
          <5> QED BY <2>13, <3>1, <5>1 DEF Spared, e
        <4>6. R \in Replies(seen') /\ (z # 0 => late')
          BY <1>2, <2>4, <2>7
        <4>7. Reading'
          BY <4>1, <4>4, <4>5, <4>6 DEF Reading
        <4> QED BY <1>1, <1>2, <1>3, <4>1, <4>7 DEF Scanning
      <3>3. CASE idx' # NUMESPTAGS
        <4>1. pc' = "done"
          BY <1>4, <3>3
        <4>2. idx' # NoTag => ~(j < Len(nets))
          BY <1>2, <2>9, <2>10, <3>3 DEF turn
        <4>3. j < MaxNum
          BY <2>5, <2>18 DEF j
        <4>4. Spared(j, FALSE)' \/ Spared(j, TRUE)'
          BY <2>13 DEF Spared
        <4>5. idx' # NoTag => j = IF Len(seen') < MaxNum THEN Len(seen') ELSE MaxNum - 1
          BY <2>4, <2>16, <4>2, <4>3
        <4>6. idx' # NoTag => line' = <<>>
          BY <2>16, <4>2
        <4>7. idx' # NoTag => Complete(ssidListNum)'
          BY <3>1, <4>4, <4>5, <4>6, Zenon DEF Complete
        <4> QED BY <1>1, <1>2, <1>3, <4>1, <4>7 DEF Scanning
      <3> QED BY <3>2, <3>3
    <2> QED BY <2>17, <2>18
  <1> QED BY <1>5, <1>6

LEMMA ResultStep ==
  ASSUME Scanning, result
  PROVE  Scanning'
  <1>1. TypeOK'
    BY NextTypes DEF Scanning, Next
  <1>2. /\ pc = "done" /\ pc' = "list"
        /\ idx # NoTag => ret' = ssidListNum
        /\ idx = NoTag => ret' = -1
        /\ UNCHANGED <<line, ssidListNum, idx, encr, ssid, rssi, printed, seen, quiet, late, scans>>
    BY DEF result, listVars, hist
  <1>3. seen' \in Seq(Net) /\ \A i \in 1 .. Len(seen') : Named(seen'[i])
    BY <1>2 DEF Scanning
  <1>4. quiet' /\ ret' # -1 => Complete(ret)'
    <2> SUFFICES ASSUME quiet', ret' # -1 PROVE Complete(ret)'
      OBVIOUS
    <2>1. idx # NoTag /\ ret' = ssidListNum
      BY <1>2
    <2>2. Complete(ssidListNum)
      BY <1>2, <2>1 DEF Scanning
    <2>3. \A i : Right(i)' <=> Right(i)
      BY <1>2 DEF Right
    <2>4. PICK n : n = ssidListNum
      OBVIOUS
    <2>5. Spared(n, FALSE)' \/ Spared(n, TRUE)'
      <3>1. Spared(n, FALSE) \/ Spared(n, TRUE)
        BY <2>2, <2>4, Zenon DEF Complete
      <3> QED BY <1>2, <2>3, <3>1, Zenon DEF Spared
    <2>6. /\ ret' = (IF Len(seen') < MaxNum THEN Len(seen') ELSE MaxNum - 1)
          /\ Len(seen') <= MaxNum => line' = <<>>
      BY <1>2, <2>1, <2>2, Zenon DEF Complete
    <2>7. ret' = n
      BY <2>1, <2>4
    <2> QED BY <2>5, <2>6, <2>7, Zenon DEF Complete
  <1> QED BY <1>1, <1>2, <1>3, <1>4 DEF Scanning

(* At most one element: at most one in number. *)
LEMMA AtMostOne ==
  ASSUME NEW T, NEW s, \A x \in T : x = s
  PROVE  Cardinality(T) <= 1
  <1>1. CASE T = {}
    BY <1>1, FS_EmptySet
  <1>2. CASE T # {}
    <2>1. T = {s}
      BY <1>2
    <2>2. Cardinality({s}) = 1
      BY FS_Singleton
    <2> QED BY <2>1, <2>2
  <1> QED BY <1>1, <1>2

(* listNetworks shows the list as it is. *)
LEMMA Prints ==
  ASSUME Scanning, listNetworks, ret # -1, Complete(ret)
  PROVE  /\ DOMAIN printed' = 1 .. Len(printed')
         /\ Len(printed') = Min({Len(seen), MaxNum - 1})
         /\ Cardinality({i \in DOMAIN printed' : Misread(i)'}) <= IF late THEN 1 ELSE 0
  <1> DEFINE P == [i \in 1 .. ret |-> [encr |-> encryptionType(i - 1), name |-> SSID(i - 1),
                                       rssi |-> RSSI(i - 1)]]
             T == {i \in DOMAIN printed' : Misread(i)'}
  <1>1. printed' = P /\ UNCHANGED <<encr, ssid, rssi, seen, late>>
    BY DEF listNetworks, listVars, hist
  <1>2. ret \in 0 .. MaxNum - 1 /\ ret \in Nat /\ MaxNum \in Nat \ {0}
    BY ListAssumption DEF Scanning, TypeOK
  <1>3. DOMAIN printed' = 1 .. ret /\ Len(printed') = ret
    BY <1>1, <1>2
  <1>4. ASSUME NEW i \in 1 .. ret PROVE Misread(i)' <=> ~Right(i)
    <2>1. i - 1 < MaxNum /\ ~(i - 1 >= MaxNum)
      BY <1>2
    <2>2. P[i] = [encr |-> encr[i - 1], name |-> ssid[i - 1], rssi |-> rssi[i - 1]]
      BY <2>1 DEF encryptionType, SSID, RSSI
    <2> QED BY <1>1, <2>2 DEF Misread, Right
  <1>5. ret = IF Len(seen) < MaxNum THEN Len(seen) ELSE MaxNum - 1
    BY Zenon DEF Complete
  <1>6. Len(printed') = Min({Len(seen), MaxNum - 1})
    <2> DEFINE M == {Len(seen), MaxNum - 1}
    <2>1. Len(seen) \in Nat
      BY LenProperties DEF Scanning
    <2>2. M # {} /\ M \subseteq Nat
      BY <1>2, <2>1
    <2>3. Min(M) \in M /\ \A y \in M : Min(M) <= y
      BY <2>2, LeastNat
    <2>4. PICK m : m = Min(M)
      OBVIOUS
    <2>5. (m = Len(seen) \/ m = MaxNum - 1) /\ m <= Len(seen) /\ m <= MaxNum - 1
      BY <2>3, <2>4
    <2>6. m = ret
      BY <1>2, <1>5, <2>1, <2>5
    <2> QED BY <1>3, <2>4, <2>6
  <1>7. Cardinality(T) <= IF late THEN 1 ELSE 0
    <2>1. Spared(ret, FALSE) \/ Spared(ret, TRUE)
      BY Zenon DEF Complete
    <2>2. CASE Spared(ret, FALSE)
      <3>1. \A i \in 1 .. ret : Right(i)
        BY <2>2, Zenon DEF Spared
      <3>2. T = {}
        BY <1>3, <1>4, <3>1
      <3>3. Cardinality(T) = 0
        BY <3>2, FS_EmptySet
      <3> QED BY <3>3
    <2>3. CASE Spared(ret, TRUE)
      <3>1. late /\ \E s \in 1 .. ret : \A i \in 1 .. ret : i = s \/ Right(i)
        BY <2>3, Zenon DEF Spared
      <3>2. PICK s \in 1 .. ret : \A i \in 1 .. ret : i = s \/ Right(i)
        BY <3>1
      <3>3. \A i \in T : i = s
        BY <1>3, <1>4, <3>2
      <3> HIDE DEF T
      <3>4. Cardinality(T) <= 1
        BY <3>3, AtMostOne
      <3> QED BY <3>1, <3>4
    <2> QED BY <2>1, <2>2, <2>3
  <1> QED BY <1>3, <1>6, <1>7

LEMMA ListStep ==
  ASSUME Scanning, listNetworks
  PROVE  Scanning'
  <1>1. TypeOK' /\ TypeOK
    BY NextTypes DEF Scanning, Next
  <1>2. /\ pc = "list" /\ pc' \in {"stopped", "idle"}
        /\ pc' = "idle" => ret # -1
        /\ UNCHANGED <<line, encr, ssid, rssi, ret, seen, quiet, late, scans>>
    BY DEF listNetworks, listVars, hist
  <1>3. seen' \in Seq(Net) /\ \A i \in 1 .. Len(seen') : Named(seen'[i])
    BY <1>2 DEF Scanning
  <1>4. pc' = "idle" => (ListAsRead /\ QuietAfter)'
    <2> SUFFICES ASSUME pc' = "idle" PROVE (ListAsRead /\ QuietAfter)'
      OBVIOUS
    <2>1. CASE ~quiet
      BY <1>2, <2>1 DEF ListAsRead, QuietAfter
    <2>2. CASE quiet
      <3>1. ret # -1 /\ Complete(ret)
        BY <1>2, <2>2 DEF Scanning
      <3>2. /\ DOMAIN printed' = 1 .. Len(printed')
            /\ Len(printed') = Min({Len(seen), MaxNum - 1})
            /\ Cardinality({i \in DOMAIN printed' : Misread(i)'}) <= IF late THEN 1 ELSE 0
        BY <1>1, <3>1, Prints
      <3>3. ListAsRead'
        BY <1>2, <3>2, Zenon DEF ListAsRead
      <3>4. QuietAfter'
        BY <1>2, <3>1 DEF QuietAfter, Complete
      <3> QED BY <3>3, <3>4
    <2> QED BY <2>1, <2>2
  <1> QED BY <1>1, <1>2, <1>3, <1>4 DEF Scanning

LEMMA NextScanning ==
  ASSUME Scanning, [Next]_vars
  PROVE  Scanning'
  <1>1. CASE UNCHANGED vars
    <2>1. UNCHANGED <<pc, line, ssidListNum, idx, encr, ssid, rssi, ret, printed, seen, quiet, late, scans, pauses>>
      BY <1>1 DEF vars, listVars, hist
    <2>2. TypeOK'
      BY NextTypes DEF Scanning
    <2>3. Reading' <=> Reading
      BY <2>1, Zenon DEF Reading, Spared, Right
    <2>4. Complete(ssidListNum)' <=> Complete(ssidListNum)
      BY <2>1, Zenon DEF Complete, Spared, Right
    <2>5. Complete(ret)' <=> Complete(ret)
      BY <2>1, Zenon DEF Complete, Spared, Right
    <2>6. (ListAsRead /\ QuietAfter)' <=> ListAsRead /\ QuietAfter
      BY <2>1, Zenon DEF ListAsRead, QuietAfter, Listed, Misread
    <2> QED BY <2>1, <2>2, <2>3, <2>4, <2>5, <2>6 DEF Scanning
  <1>2. CASE Next
    BY <1>2, ScanStep, FirstStep, TurnStep, ResultStep, ListStep DEF Next
  <1> QED BY <1>1, <1>2

(* What the code lists of a network is the network, or begins its name. *)
LEMMA ShownBegins ==
  ASSUME NEW net, Named(net)
  PROVE  /\ Shown(net).encr = net.encr /\ Shown(net).rssi = net.rssi
         /\ IsPrefix(Shown(net).name, net.name)
         /\ Plain(net.name) => Shown(net).name = net.name
  <1> DEFINE quotes == {k \in 1 .. Len(net.name) : net.name[k].kind = "quote"}
             long == \E k \in 1 .. Len(net.name) : net.name[k].kind = "long"
  <1>1. net.name \in Seq(Tokens) /\ Len(net.name) \in Nat /\ DOMAIN net.name = 1 .. Len(net.name)
    BY LenProperties DEF Net, Named
  <1>2. Shown(net) = [encr |-> net.encr, name |-> Shown(net).name, rssi |-> net.rssi]
    BY ShownIs
  <1>3. Shown(net).encr = net.encr /\ Shown(net).rssi = net.rssi
    <2>1. PICK name : name = Shown(net).name
      OBVIOUS
    <2>2. Shown(net) = [encr |-> net.encr, name |-> name, rssi |-> net.rssi]
      BY <1>2, <2>1
    <2> QED BY <2>2
  <1>4. CASE long
    <2>1. Shown(net).name = <<>>
      BY <1>4, ShownIs
    <2>2. IsPrefix(<<>>, net.name)
      BY <1>1 DEF IsPrefix
    <2>3. ~Plain(net.name)
      BY <1>1, <1>4 DEF Plain
    <2> QED BY <1>3, <2>1, <2>2, <2>3
  <1>5. CASE ~long /\ quotes # {}
    <2>1. Shown(net).name = SubSeq(net.name, 1, Min(quotes) - 1)
      BY <1>5, ShownIs
    <2>2. PICK q : q = Min(quotes)
      OBVIOUS
    <2>3. q \in 1 .. Len(net.name)
      <3>1. quotes \subseteq Nat
        BY <1>1
      <3>2. q \in quotes
        BY <1>5, <2>2, <3>1, LeastNat
      <3> QED BY <3>2
    <2>4. PICK cut : cut = SubSeq(net.name, 1, q - 1)
      OBVIOUS
    <2>5. cut \in Seq(Tokens) /\ Len(cut) = q - 1 /\ \A i \in 1 .. q - 1 : cut[i] = net.name[i]
      <3>1. 1 \in 1 .. Len(net.name) + 1 /\ q - 1 \in 0 .. Len(net.name) /\ q - 1 - 1 + 1 = q - 1
            /\ \A i \in 1 .. q - 1 : 1 + i - 1 = i
        BY <1>1, <2>3
      <3> QED BY <1>1, <2>3, <2>4, <3>1, SubSeqProperties
    <2>6. SubSeq(cut, 1, Len(cut)) = cut
      BY <2>5
    <2>7. IsPrefix(cut, net.name)
      BY <1>1, <2>3, <2>4, <2>5, <2>6 DEF IsPrefix
    <2>8. ~Plain(net.name)
      BY <1>1, <1>5 DEF Plain
    <2> QED BY <1>3, <2>1, <2>2, <2>4, <2>7, <2>8
  <1>6. CASE ~long /\ quotes = {}
    <2>1. Shown(net).name = net.name
      BY <1>6, ShownIs
    <2>2. IsPrefix(net.name, net.name)
      BY <1>1 DEF IsPrefix
    <2> QED BY <1>3, <2>1, <2>2
  <1> QED BY <1>4, <1>5, <1>6

(* A list that is as the code reads the answer has what is claimed of it. *)
LEMMA AsReadIsAnswer ==
  ASSUME Scanning
  PROVE  ListIsAnswer
  <1> SUFFICES ASSUME Listed, quiet
               PROVE  /\ Len(printed) <= Len(seen) /\ (Len(seen) < MaxNum => Len(printed) = Len(seen))
                      /\ Cardinality({i \in DOMAIN printed : Spoiled(i)}) <= IF late THEN 1 ELSE 0
    BY DEF ListIsAnswer
  <1> DEFINE M == {i \in DOMAIN printed : Misread(i)}
             S == {i \in DOMAIN printed : Spoiled(i)}
  <1>1. /\ DOMAIN printed = 1 .. Len(printed) /\ Len(printed) = Min({Len(seen), MaxNum - 1})
        /\ Cardinality(M) <= IF late THEN 1 ELSE 0
    BY DEF Scanning, Listed, ListAsRead
  <1>2. /\ Len(seen) \in Nat /\ MaxNum \in Nat \ {0}
        /\ \A i \in 1 .. Len(seen) : Named(seen[i])
    BY ListAssumption, LenProperties DEF Scanning
  <1>3. PICK m : m = Min({Len(seen), MaxNum - 1})
    OBVIOUS
  <1>4. m \in {Len(seen), MaxNum - 1} /\ m <= Len(seen) /\ m <= MaxNum - 1
    <2> DEFINE T == {Len(seen), MaxNum - 1}
    <2>1. T # {} /\ T \subseteq Nat
      BY <1>2
    <2>2. Min(T) \in T /\ \A y \in T : Min(T) <= y
      BY <2>1, LeastNat
    <2> QED BY <1>3, <2>2
  <1>5. Len(printed) <= Len(seen) /\ (Len(seen) < MaxNum => Len(printed) = Len(seen))
    BY <1>1, <1>2, <1>3, <1>4
  <1>6. DOMAIN printed = 1 .. Len(printed) /\ Len(printed) \in Nat
    BY <1>1, <1>2, <1>3, <1>4
  <1>7. ASSUME NEW i \in DOMAIN printed, ~Misread(i) PROVE ~Spoiled(i)
    <2>1. Named(seen[i]) /\ printed[i] = Shown(seen[i])
      BY <1>2, <1>5, <1>6, <1>7 DEF Misread
    <2> QED BY <2>1, ShownBegins DEF Spoiled
  <1>8. S \subseteq M
    BY <1>7
  <1>9. IsFiniteSet(M)
    <2>1. IsFiniteSet(1 .. Len(printed))
      BY <1>6, FS_Interval
    <2>2. M \in SUBSET (1 .. Len(printed))
      BY <1>6
    <2> QED BY <2>1, <2>2, FS_Subset
  <1>10. Cardinality(S) <= Cardinality(M) /\ Cardinality(S) \in Nat /\ Cardinality(M) \in Nat
    BY <1>8, <1>9, FS_Subset, FS_CardinalityType
  <1> HIDE DEF M, S
  <1> QED BY <1>1, <1>5, <1>10 DEF S

(* The inductive invariant: how far the list and the line have got in the  *)
(* answer to this scan, the pause of the module included (getScanNetworks).*)
THEOREM ScanningHolds == Spec => []Scanning
  <1>1. Init => Scanning
    BY InitScanning
  <1>2. Scanning /\ [Next]_vars => Scanning'
    BY NextScanning
  <1> QED BY <1>1, <1>2, PTL DEF Spec

(* What the sketch prints are the networks of this scan, for a list and an *)
(* answer of any length: in the order of the answer, each with its own     *)
(* name, encryption and signal, at most one of them spoilt and that only by*)
(* a pause of the module, and all of them if they do not fill the list     *)
(* (getScanNetworks, getSSIDNetoworks, listNetworks of the example).       *)
THEOREM ListsTheAnswer == Spec => []ListIsAnswer
  <1>1. Scanning => ListIsAnswer
    BY AsReadIsAnswer
  <1> QED BY <1>1, ScanningHolds, PTL

(* A scan that finds no more networks than the list has places reads its   *)
(* answer to the end, whatever entry a pause of the module spoils: the next*)
(* command finds a quiet line (the last wait of getScanNetworks' loop).    *)
THEOREM ReadsToTheEnd == Spec => []QuietAfter
  <1>1. Scanning => QuietAfter
    BY DEF Scanning, QuietAfter, Listed
  <1> QED BY <1>1, ScanningHolds, PTL
=============================================================================
