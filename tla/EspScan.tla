------------------------------- MODULE EspScan -------------------------------
(***************************************************************************)
(* The scan for networks: getScanNetworks reads the answer to AT+CWLAP     *)
(* field by field into a list of fixed size (EspDrv.cpp 515-562, 591-613), *)
(* and the ScanNetworks example prints that list.                          *)
(*                                                                         *)
(* The line is a sequence of tokens.  A network takes                      *)
(*   +CWLAP:(<encryption>,"<name>",<rssi>,"<mac>",<channel>)               *)
(* A pause is a silence of the module that ends whatever wait it falls in; *)
(* what follows it is read by the next wait.  A turn of the loop is one    *)
(* step: during a scan nothing else moves than the line.                   *)
(***************************************************************************)
EXTENDS Integers, Sequences, SequencesExt

CONSTANTS MaxNum,     \* WL_NETWORKS_LIST_MAXNUM, 10 in the code
          MaxNets,    \* bound: networks in an answer
          MaxScans,   \* bound: scans
          MaxPauses   \* bound: pauses

ASSUME ListAssumption == MaxNum \in Nat \ {0}
ASSUME ScanBounds == MaxNets \in Nat /\ MaxScans \in Nat /\ MaxPauses \in Nat

NUMESPTAGS == 5
NoTag == -1

VARIABLES pc,                  \* where getScanNetworks or its caller is
          line,                \* what the module has sent and nobody has read
          ssidListNum, idx,    \* locals of getScanNetworks
          encr, ssid, rssi,    \* _networkEncr, _networkSsid, _networkRssi
          ret,                 \* what scanNetworks returned
          printed,             \* history: what the sketch printed
          seen,                \* history: the networks in the last answer
          quiet, late,         \* history: nothing was on the way before it;
                               \* the module paused in it
          scans, pauses        \* bounds' counters

listVars == <<encr, ssid, rssi>>
hist == <<seen, quiet, late, scans, pauses>>
vars == <<pc, line, ssidListNum, idx, listVars, ret, printed, hist>>

Kinds == {"entry", "number", "text", "long", "comma", "quote", "OK", "ERROR", "pause"}
Tokens == [kind : Kinds, val : Nat]
Token(kind, val) == [kind |-> kind, val |-> val]

-----------------------------------------------------------------------------
(* The module's answer.                                                    *)

(* A name is hidden, plain, has a comma or a quote in it, or fills the ring*)
(* buffer together with the quote after it (31 or 32 characters).          *)
Text(v) == Token("text", v)
Comma == Token("comma", 0)
Quote == Token("quote", 0)
Names(v) == {<<>>, <<Text(v)>>, <<Text(v), Comma, Text(v)>>,
             <<Text(v), Quote, Text(v)>>, <<Token("long", v)>>}

(* The networks of an answer, whose fields all differ; the first has any   *)
(* name, the others plain ones.                                            *)
Networks(n) ==
  LET v(i) == 10 * (scans + 1) + i
  IN  {[i \in 1 .. n |-> [encr |-> v(i), rssi |-> v(i),
                          name |-> IF i = 1 THEN name ELSE <<Text(v(i))>>]] :
         name \in Names(v(1))}

Fields(net) ==
  <<Token("entry", 0), Token("number", net.encr), Comma, Quote>> \o net.name \o
  <<Quote, Comma, Token("number", net.rssi), Comma, Quote, Token("number", 0),
    Quote, Comma, Token("number", 0), Text(0)>>

(* ERROR is the answer of a module that is an access point only. *)
Replies(nets) ==
  {FlattenSeq([i \in DOMAIN nets |-> Fields(nets[i])]) \o <<Token("OK", 0)>>}
  \cup IF nets = <<>> THEN {<<Token("ERROR", 0)>>} ELSE {}

Paused(tokens) ==
  {InsertAt(tokens, i, Token("pause", 0)) : i \in DOMAIN tokens}

-----------------------------------------------------------------------------
(* Reading from the line.                                                  *)

(* What a wait reads: tokens up to the first of these kinds, or to a pause.*)
Wait(tokens, kinds) ==
  LET stops == {i \in DOMAIN tokens : tokens[i].kind \in kinds \cup {"pause"}}
      k == IF stops = {} THEN Len(tokens) + 1 ELSE Min(stops)
      at == IF stops = {} THEN Token("pause", 0) ELSE tokens[k]
  IN  [found |-> at.kind # "pause",
       at    |-> at,
       text  |-> SubSeq(tokens, 1, k - 1),
       rest  |-> SubSeq(tokens, k + 1, Len(tokens))]

(* The index of the tag found, and the rest of the line. *)
readUntil(tokens, tag, findTags) ==
  LET w == Wait(tokens, {tag} \cup (IF findTags THEN {"OK", "ERROR"} ELSE {}))
  IN  [idx  |-> CASE ~w.found           -> NoTag
                  [] w.at.kind = tag    -> NUMESPTAGS
                  [] w.at.kind = "OK"   -> 0
                  [] w.at.kind = "ERROR" -> 1,
       text |-> w.text, rest |-> w.rest]

(* Stream::parseInt: skips to the next number, 0 if there is none in time. *)
parseInt(tokens) ==
  LET w == Wait(tokens, {"number"})
  IN  [val |-> w.at.val, rest |-> w.rest]

(* A slip in getScanNetworks: no memset, the old name is written over. *)
Stored_NoClear(text, old) ==
  LET new == IF \E i \in DOMAIN text : text[i].kind = "long" THEN <<>> ELSE text
  IN  new \o SubSeq(old, Len(new) + 1, Len(old))

(* memset and getStrN: the text before the quote.  When that fills the ring*)
(* buffer the pointer is back at the start and nothing is copied.          *)
Stored(text, old) ==
  IF \E i \in DOMAIN text : text[i].kind = "long" THEN <<>> ELSE text

-----------------------------------------------------------------------------
(* getScanNetworks.                                                        *)

(* espEmptyBuf throws away what has arrived of an earlier answer, not what *)
(* is still on the way.  The module answers, at once or with a pause.      *)
scanNetworks ==
  /\ pc = "idle" /\ scans < MaxScans
  /\ scans' = scans + 1
  /\ \E n \in 0 .. MaxNets : \E nets \in Networks(n) : \E reply \in Replies(nets) :
       /\ seen' = nets
       /\ \E left \in Suffixes(line) :
            /\ quiet' = (left = <<>>)
            /\ \/ line' = left \o reply /\ late' = FALSE /\ UNCHANGED pauses
               \/ /\ pauses < MaxPauses
                  /\ pauses' = pauses + 1 /\ late' = TRUE
                  /\ \E tokens \in Paused(reply) : line' = left \o tokens
  /\ ssidListNum' = 0
  /\ pc' = "first"
  /\ UNCHANGED <<idx, listVars, ret, printed>>

firstEntry ==
  LET w == readUntil(line, "entry", TRUE)
  IN  /\ pc = "first"
      /\ line' = w.rest
      /\ idx' = w.idx
      /\ pc' = IF w.idx = NUMESPTAGS THEN "entry" ELSE "done"
      /\ UNCHANGED <<ssidListNum, listVars, ret, printed, hist>>

(* What a turn of the loop reads, up to the next entry or the end of the    *)
(* answer.                                                                 *)
Turn(tokens) ==
  LET type    == parseInt(tokens)
      opening == readUntil(type.rest, "quote", TRUE)
      name    == readUntil(opening.rest, "quote", FALSE)
      comma   == readUntil(name.rest, "comma", TRUE)
      signal  == parseInt(comma.rest)
      w       == readUntil(signal.rest, "entry", TRUE)
  IN  [encr |-> type.val, rssi |-> signal.val,
       named |-> name.idx = NUMESPTAGS, name |-> name.text,
       afterRssi |-> signal.rest, idx |-> w.idx, rest |-> w.rest]

(* A slip in the loop: it goes on when the list is full. *)
nextEntry_NoBreak ==
  LET turn == Turn(line)
  IN  /\ pc = "entry"
      /\ encr' = [encr EXCEPT ![ssidListNum] = turn.encr]
      /\ ssid' = IF turn.named
                   THEN [ssid EXCEPT ![ssidListNum] = Stored(turn.name, @)]
                   ELSE ssid
      /\ rssi' = [rssi EXCEPT ![ssidListNum] = turn.rssi]
      /\ line' = turn.rest
      /\ idx' = turn.idx
      /\ ssidListNum' = ssidListNum + 1
      /\ pc' = IF turn.idx # NUMESPTAGS THEN "done" ELSE "entry"
      /\ UNCHANGED <<ret, printed, hist>>

(* A slip in the loop: a full list is left before the next entry is sought.*)
nextEntry_BreakFirst ==
  LET turn == Turn(line)
      full == ssidListNum = MaxNum - 1
  IN  /\ pc = "entry"
      /\ encr' = [encr EXCEPT ![ssidListNum] = turn.encr]
      /\ ssid' = IF turn.named
                   THEN [ssid EXCEPT ![ssidListNum] = Stored(turn.name, @)]
                   ELSE ssid
      /\ rssi' = [rssi EXCEPT ![ssidListNum] = turn.rssi]
      /\ line' = IF full THEN turn.afterRssi ELSE turn.rest
      /\ idx' = IF full THEN idx ELSE turn.idx
      /\ ssidListNum' = IF full THEN ssidListNum ELSE ssidListNum + 1
      /\ pc' = IF full \/ turn.idx # NUMESPTAGS THEN "done" ELSE "entry"
      /\ UNCHANGED <<ret, printed, hist>>

(* One turn of the loop.  The last place of the list is filled, too, but   *)
(* the loop is left before it is counted.                                  *)
nextEntry ==
  LET turn == Turn(line)
      full == ssidListNum = MaxNum - 1
  IN  /\ pc = "entry"
      /\ encr' = [encr EXCEPT ![ssidListNum] = turn.encr]
      /\ ssid' = IF turn.named
                   THEN [ssid EXCEPT ![ssidListNum] = Stored(turn.name, @)]
                   ELSE ssid
      /\ rssi' = [rssi EXCEPT ![ssidListNum] = turn.rssi]
      /\ line' = turn.rest
      /\ idx' = turn.idx
      /\ ssidListNum' = IF full THEN ssidListNum ELSE ssidListNum + 1
      /\ pc' = IF full \/ turn.idx # NUMESPTAGS THEN "done" ELSE "entry"
      /\ UNCHANGED <<ret, printed, hist>>

(* -1 as a uint8_t is 255, and -1 again in the int8_t of scanNetworks. *)
result ==
  /\ pc = "done"
  /\ ret' = IF idx = NoTag THEN -1 ELSE ssidListNum
  /\ pc' = "list"
  /\ UNCHANGED <<line, ssidListNum, idx, listVars, printed, hist>>

-----------------------------------------------------------------------------
(* The sketch.                                                             *)

Null == <<Token("null", 0)>>
SSID(item) == IF item >= MaxNum THEN Null ELSE ssid[item]
RSSI(item) == IF item >= MaxNum THEN 0 ELSE rssi[item]
encryptionType(item) == IF item >= MaxNum THEN 0 ELSE encr[item]

(* listNetworks prints the list, or stops for ever. *)
listNetworks ==
  /\ pc = "list"
  /\ IF ret = -1 THEN pc' = "stopped" /\ UNCHANGED printed
     ELSE /\ printed' = [i \in 1 .. ret |-> [encr |-> encryptionType(i - 1),
                                             name |-> SSID(i - 1),
                                             rssi |-> RSSI(i - 1)]]
          /\ pc' = "idle"
  /\ ssidListNum' = 0 /\ idx' = 0
  /\ UNCHANGED <<line, listVars, ret, hist>>

Init ==
  /\ pc = "idle" /\ line = <<>>
  /\ ssidListNum = 0 /\ idx = 0
  /\ encr = [i \in 0 .. MaxNum - 1 |-> 0]
  /\ ssid = [i \in 0 .. MaxNum - 1 |-> <<>>]
  /\ rssi = [i \in 0 .. MaxNum - 1 |-> 0]
  /\ ret = 0 /\ printed = <<>> /\ seen = <<>> /\ quiet = TRUE /\ late = FALSE
  /\ scans = 0 /\ pauses = 0

Next == scanNetworks \/ firstEntry \/ nextEntry \/ result \/ listNetworks

Spec == Init /\ [][Next]_vars

-----------------------------------------------------------------------------
TypeOK ==
  /\ pc \in {"idle", "first", "entry", "done", "list", "stopped"}
  /\ line \in Seq(Tokens)
  /\ ssidListNum \in 0 .. MaxNum - 1 /\ ret \in -1 .. MaxNum - 1
  /\ idx \in {NoTag, 0, 1, NUMESPTAGS}
  /\ encr \in [0 .. MaxNum - 1 -> Nat] /\ rssi \in [0 .. MaxNum - 1 -> Nat]
  /\ ssid \in [0 .. MaxNum - 1 -> Seq(Tokens)]
  /\ quiet \in BOOLEAN /\ late \in BOOLEAN
  /\ scans \in 0 .. MaxScans /\ pauses \in 0 .. MaxPauses

Listed == pc = "idle" /\ scans > 0

(* A name of at most 30 characters, and without the character that ends it.*)
Plain(name) == \A k \in DOMAIN name : name[k].kind \notin {"long", "quote"}

(* The i-th network printed is not the i-th of the answer.  Of a name that *)
(* is not plain no more is asked than that the printed one begins it.      *)
Spoiled(i) ==
  \/ printed[i].encr # seen[i].encr \/ printed[i].rssi # seen[i].rssi
  \/ ~IsPrefix(printed[i].name, seen[i].name)
  \/ Plain(seen[i].name) /\ printed[i].name # seen[i].name

(* What the sketch prints are the networks of this scan, each with its own *)
(* name, encryption and signal, in the order of the answer and without a   *)
(* trace of an earlier, longer list; a pause of the module spoils at most  *)
(* the one entry it falls in.  They are all the networks of the answer if  *)
(* these do not fill the list: of a full one nothing is said                *)
(* (getScanNetworks, getSSIDNetoworks, listNetworks of the example).       *)
ListIsAnswer ==
  (Listed /\ quiet) =>
    /\ Len(printed) <= Len(seen) /\ (Len(seen) < MaxNum => Len(printed) = Len(seen))
    /\ Cardinality({i \in DOMAIN printed : Spoiled(i)}) <= IF late THEN 1 ELSE 0

(* What is promised of a scan: it returns the number of networks discovered*)
(* (WiFiEsp.h 182), from a list of 10 (EspDrv.h 39) whose names have up to *)
(* 32 characters (CHANGES.txt 37).  So, unless the module pauses, all the  *)
(* networks for which the list has places are printed, with their names.   *)
ListIsComplete ==
  (Listed /\ quiet /\ ~late /\ Len(seen) <= MaxNum) =>
    /\ Len(printed) = Len(seen)
    /\ \A i \in DOMAIN seen :
         (\A k \in DOMAIN seen[i].name : seen[i].name[k].kind # "quote") =>
           printed[i].name = seen[i].name

(* When the module has found no more networks than the list has places,    *)
(* the scan has read the answer to its end: the next command finds a quiet *)
(* line and gets its own answer (the last wait of getScanNetworks' loop).  *)
QuietAfter == (Listed /\ quiet /\ Len(seen) <= MaxNum) => line = <<>>
=============================================================================
