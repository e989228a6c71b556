# A verification of WiFiEsp

WiFiEsp is an Arduino library that gives a sketch TCP clients, a TCP server and
UDP over an ESP8266 module on a serial line. The module is driven by AT
commands; data of all its connections, notices that connections were closed, and
the answers to commands come back on the same line. The library is sequential
(no interrupts, no threads of its own), but it is one of three parties that move
independently: the sketch and the library on one processor, the module, and the
peers. What is hard in it is the order of what comes on that line.

Paths below are relative to `src/src/`.

## The system

| part | state | operations | what makes it correct |
|---|---|---|---|
| Ring buffer (`utility/EspRingBuffer`) | `ringBuf`, `ringBufP` | `init`, `reset`, `push`, `endsWith`, `getStrN` | a tag just read is seen wherever it wraps; none is seen that was not read; the text before a tag can be copied out |
| Reading answers (`EspDrv::readUntil`, `sendCmd`, `sendCmdGet`) | the ring buffer, the caller's buffer | read up to a tag; extract a string between two tags | no awaited tag goes by; the string is the one between the tags, cut and terminated |
| Commands (`sendCmd`, `sendData`, `espEmptyBuf`) | none: the position in the line | send a command, wait for its tag, for a prompt, for SEND OK | a call gets its own answer; a payload reaches the peer as such; a call ends |
| Receive path (`availData`, `getData`, `getDataBuf`, `timedRead`) | `_connId`, `_bufPos`, the UART's buffer | find a packet's header, read its bytes, notice `CLOSED` | every byte to the client of its link, once, in order; no client loses its socket before its data |
| Socket table (`WiFiEsp.cpp` 209-230) | `_state[4]` | `getFreeSocket`, `allocateSocket`, `releaseSocket` | no number with two owners, none that nobody can give back |
| Clients, server, UDP (`WiFiEspClient`, `WiFiEspServer`, `WiFiEspUdp`) | `_sock` of each object | connect, accept, read, write, status, stop | an object's socket is its own connection |
| WiFi connection (`WiFiEsp.cpp` 34-97, `EspDrv` 74-319) | `_curMode`, `espMode` | init, reset, begin, beginAP, config, configAP, disconnect | what the driver remembers of the module is so when it is used; addresses hold; nothing is kept in the module's flash that should not be |
| Queries, ping (`EspDrv` 321-512, 564-638) | `_ssid`, `_bssid` | one command each | the value is the module's at that moment |
| Scan (`EspDrv::getScanNetworks`) | the list of networks, `_networkSsid`, `_networkRssi`, `_networkEncr` | scan, look up | the list is the answer, up to its size |
| Sketches (`../examples`, `../test/BasicTest`) | the place in the program | setup, loop | setup ends; a server answers whole requests and goes on |
| Logging (`utility/debug.h`) | none | print | output only, not modelled |

How they meet. Sockets, clients, server and UDP call the driver; the driver
gives commands and reads the receive path through the one serial stream. A
command begins by emptying the UART's buffer (`espEmptyBuf`) and reads past
everything up to its tag, so that commands and received data disturb each other.
`_connId` and `_bufPos` are shared by all objects. The table and the module's own
links are two accounts of the same thing, changed at different times.

Where it is hard: packets of several links follow each other on one line, and a
poll of one socket moves a position that belongs to another; the number 0 is a
link and stands for none; a wait that times out leaves its answer on the way; a
notice that a link is closed is only looked for at one point; the number of a
link is used again by the next connection; the ring buffer is restarted without
being cleared. `PROJECT.json` lists these with their lines as hazards.

## Modules

**EspRingBuffer** is the buffer cell by cell. `ringBuf` and `ringBufP` are the
code's (a pointer is an index), `pushed` is the stream since the last restart and
`clean` says that restart was `init`, not `reset`. `endsWith` and `getStrN` are
operators. **EspRingBufferProofs** has its theorems.

**EspReadUntil** extends it with the code that uses it. One action is one turn of
`readUntil`'s loop (`readChar`), a `timeout`, or what `sendCmdGet` does between its
three waits (`clearRing`, `copyOut`). `out` is the caller's buffer, cleared or not
before the call. The answers are given by the constant `Replies`, sequences of
characters; in **MCEspReadUntil** some have a string between tags, some a bare tag, a
tag inside other text, or no end. No answer begins with a proper last part of the
start tag (`RepliesAssumption`), as none of those to the commands of `sendCmdGet`
does. **EspReadUntilProofs** has its theorems.

**EspCommand** is one level up: tokens in place of characters, numbered calls, and
the module as the other party. Each token carries, as history, the call it
answers; the driver does not look at that. `sendCmd` empties what has arrived and
not what is in flight, `sendData` empties nothing; `skip` and `readTag` are
`readUntil`, which here stops at a tag of an answer only: that cells left in the ring
buffer can complete one that is not on the line is EspReadUntil's subject. The module (`Hear`, `AnswerCommand`, `Transmit`) drops a command that
comes while it is busy and takes whatever comes after its prompt as payload. A
`timeout` may end a wait when nothing more can come, or, `MaxLate` times, early.
**EspCommandProofs** has its theorems.

**EspReceive** is the receive path against a module that forwards packets and
closes links at any time. A token of the line is a packet header, one byte of
payload, a notice, an answer or the rest of one of these; `here` counts those that
have arrived, up to the size of the UART's buffer, beyond which they are lost. One
action is one read from the line in `availData`, `getData`, `getDataBuf` or a
command; the calls of the client and the server (`read`, `read(buf)`, `peek`,
`flush`, `available`, `status`, `write`, `stop`, `WiFiEspServer::available`) are in
`call`, and the place in the driver in `pc`. Commands only appear for what they do
to received data. The links of `UdpLinks` belong to UDP objects: `udpPeek`, which
returns its uninitialised local, and `send`, which does not stop the object when it
fails; `remote` is `_remoteIp` and `_remotePort`, the last byte of a packet stands
for its sender. A read that fails returns -1 to a UDP object and its byte as it is, never
set or zero, to a client (`DataFailed`). **EspReceiveProofs** has its theorems.

**LinkStreams** is what a client may expect: one FIFO stream for each link, and a
release only after the close and the last byte. EspReceive is shown to implement
it, with `received` mapped to what the reads returned plus what the running call
holds.

**WiFiEspSockets** is the table, the links of the module and the objects. A call of
the sketch is one action. Connections are numbered, so that two that had the same
link can be told apart; `conn` is the one an object was given. `Careful` is how the
examples use the library: stop a client before it is connected again, and do not
go on using others while a failed connect has not been followed by `stop`. Commands
may time out: then a connection can be made although `connect` failed, and a link stay
open although it was closed. `past` says whether that has happened ("disturbed"),
or whether the sketch has begun a server ("served"); then connections come in
from outside and take the lowest free link, while the table gives out the highest.
`unread`, `taken` and `body` are what EspReceive has of the line here: whose packets wait,
the header that has been taken (`_connId`), and whether its bytes are still there.
`Polls` is `availData` with its two wildcards: socket 0 is answered by any link's
packet, and a header of link 0 that has been taken answers for any socket. Every command throws
unread data away (`Discard`), not what is remembered of them. `read` is reading what
is found to its end; when its bytes are gone it takes what comes. `told` is what a
client was last told by `status`. **WiFiEspSocketsProofs** has its theorems.

**EspScan** is `getScanNetworks` on a line of tokens. One turn of its loop with its
six waits is one step, since nothing else moves during a scan but the line;
a `pause` in the answer ends whatever wait it falls in, and the waits after it read
on from there (`Turn` is what a turn reads). `listNetworks` is the sketch that prints what
`SSID`, `RSSI` and `encryptionType` return. `printed`, `seen`, `quiet` and `late` are
history. A name is hidden, plain, with a comma or a quote, or `long`: 31 or 32 characters,
for which the ring buffer is too short. **EspScanProofs** has its theorems.

**EspWiFi** is connection management, command by command. `now` and `flash` are the
module's settings and those it starts with, `hasCur` its firmware; the driver is
`espMode`, `_curMode`, the commands it has still to send (`todo`) and its place. The
constants of the seven sketches are their setups, call by call, as `examples/` and
`test/BasicTest` have them; the sketch "any" makes any calls, queries last. `Send`
is `sendCmd` with the module's answer, `Ask` is `sendCmdGet`. A lost answer may or
may not mean a lost command. There are two networks, and the name of one is longer
(`Networks`, `net`); `cache` is the static `_ssid` and `_bssid`, where a shorter name keeps the
tail of the longer (`Copy`, `Mixed`). `want`, `up`, `begun`, `kept` and `clean` are history:
what the sketch may expect of the module. **EspWiFiProofs** has its theorems.

**WebServerSketch** is the loop of `WebServer.ino` over EspReceive: `Loop` gives the
calls, one after the other, by what the last one returned; everything else is
EspReceive's. `WebServerAP` and `WebServerLed` have the same loop but for how they
look for the end of the request. **WebServerSketchProofs** has its theorems.

How they compose: EspReadUntil extends EspRingBuffer; WebServerSketch extends
EspReceive, which implements LinkStreams. EspCommand, EspScan and EspWiFi take
`readUntil` to stop at the first tag of the answer. EspReadUntil shows half of that, that no
awaited tag goes by; the other half, that it stops nowhere else, is an idealisation, which
the cells left in the ring buffer can break (see below).

## Runs

| run | what it shows |
|---|---|
| `ring_buffer` | size 4, two letters, every tag up to length 4, every stream up to 7 characters between restarts, so that writing wraps and tags lie across the end: `IInv`, `NoTagMissed`, `ExactAfterInit`, `ExtractsFrontOfTag` |
| `read_until` | three calls in a row, each with one of 13 answers and given up anywhere, on a buffer of 6 and a caller's buffer of 3: strings shorter than, as long as and longer than both. No tag goes by (`NoTagGoesBy`), what fits is extracted into a cleared buffer (`Extracted`); `RInv`, from which both are proved |
| `command` | five calls, two of which may end early: `OwnAnswer`, `PayloadIntact` and `WrittenIsSent` until the first late answer, `QuietCallOwnAnswer` after it as well, every call ends (`CallsEnd`), and `IInv`, from which the first four are proved |
| `receive_drain` | links 1 and 2, two packets of up to two bytes, a sketch that reads a packet to its end before it turns elsewhere and gives no commands: `ExactlyOnce`, the refinement `ImplementsStreams`, and `Delivering`, from which both are proved |
| `receive_commands` | clients on links 0 and 1, a UDP object on link 2, with writes, sends and stops between the packets: `Framed`; `WholePackets`, since commands throw packets away but only whole ones; `RemoteIsSender`, what `remoteIP` says after a read of the UDP object |
| `receive_calls_return` | a UART of three tokens that overflows, a sketch that switches sockets at any point, `status` and `stop` included: `CallsReturn` |
| `web_server` | the web server, two browsers on links 0 and 1, a UART of three tokens, the length of a request, that overflows: `WholeRequest`, and `ListensAgain`: until something is lost every client is let go, and after it
when its client has closed, unless `Wedged` |
| `sockets` | two clients and a UDP object, two sockets, three links, three connections, with and without a server, commands that time out at any point (1.6 million states, the clients interchangeable): `NoSocketLeaks`, `OwnConnection` and `ConnectedIsOwn` until a server begins, `NoOrphanLink` until a command times out, `TableIsHeld` always, and `Accounts`, from which the others but the last are proved |
| `scan` | two scans of up to five networks into a list of three, hidden, long, quoted and comma names, one pause anywhere: `ListIsAnswer` (what is printed is of this answer, all of it if it does not fill the list), `QuietAfter`, and no index leaves the list (`TypeOK`) |
| `wifi` | seven sketches and any four calls, both firmwares, new or used modules, two networks that come and go, one lost answer, one restart: `InterfaceAsked`, `FormKnown`, `AddressHolds`, `NoAutoStart`, `ReadyToServe`, `AnswersAreCurrent`, `SetupEnds`, and `OnCourse`, from which all but the last are proved |

Two runs end in a counterexample. `sockets_table_end` (`InsideTable`): the table has four
entries, the module five links, and accepting a connection on the last link writes past
the end of the table. `scan_complete` (`ListIsComplete`): a scan is to return the number
of networks discovered, in a list of 10 and with names of up to 32 characters, and returns one less
when the list is full; with `MaxNum = 2` the same property fails on a name of 31 characters, which
comes out empty. These, and two disagreements with the documentation that properties of
passing runs name as their exceptions, are the findings in `PROJECT.json`:
* `ConnectedIsOwn`: `connected` is to be true of a client that is connected or has unread data
  (`WiFiEspClient.h` 107-109). It is true as well for a client on socket 0 when any link
  has data, for any client when a header of link 0 has been taken, and when the
  header's bytes were thrown away by a command.
* `AnswersAreCurrent`: `SSID` is to return the current SSID (`WiFiEsp.h` 139). Behind a shorter name
  comes the tail of a longer one that was returned earlier.
The runs reach each of these exceptions; without any one of them TLC finds the property
violated.

The bounds. Every error that needs two parties appears with two links, two clients
or two calls; a third packet or call only repeats a situation already reached, which
the tokens of link, kind and rest of packet make finite. Packets of two bytes have
a first and a last byte that differ; in `web_server` they have up to three, so that a
request has a middle; the UART there holds no more than a request, so that its last byte alone
can be lost (with `RxSize`, `MaxPackets`, `MaxLen` = 1, 2, 3, or 2, 2, 3, or 2, 3, 2 the
properties hold, too). The table has fewer entries than there are links in every
socket run, as in the code (4 and 5). `MaxConns` lets a link be used again twice. Buffers shorter than a string and its tag are in `read_until` because the wrap
is where the extraction goes wrong. In `scan` five networks are two more than the
list, and the second scan's list may be shorter than, as long as or longer than the
first's. In `wifi` a module that starts up misses five commands, as many as init
tries; four calls reach begin, then a failed or another begin, then config, then a
query or reset; restarts, lost answers and calls have no bound in the proofs.
Deadlock is not checked in the runs whose counters stop at their bound (a sketch
that has made all its calls or stops for want of a shield, a module that has sent all
its packets); in `ring_buffer` it is.

Fairness. `CallsReturn` and `CallsEnd` are checked under weak fairness of the
driver's own steps (one processor runs them), of the arrival of what was sent and of
the module's answer to a command; `ListensAgain` adds the loop of the sketch, which
the same processor runs. That a peer sends or closes, or that a sketch which may
choose calls, is never assumed. A wait that finds nothing is ended by its timeout,
which is a step of the driver: that is what makes the calls end. `SetupEnds` is checked
under weak fairness of the driver and its sketch, and strong fairness of a
`begin` that succeeds: a network that is asked again and again, of a module that could
join it, lets it in at some time. Without it the examples, which repeat `begin` for
ever, need not get through their setup.

Timeouts. In EspReceive a wait times out only when nothing is in flight: the
timeouts are half a second and more, a token takes milliseconds. EspCommand drops
this for the module's answers, up to `MaxLate` times, EspWiFi for `MaxLost` of them,
EspScan for `MaxPauses` pauses, and EspReadUntil altogether.

## What the code does outside these conditions

Each condition of a property is one that the model needs. The following happens
without it; these are steps of the models, found as counterexamples when the
condition is dropped.

Reading answers and commands:

* `Extracted` without the bound on the length: a string as long as the ring buffer
  less its end tag comes out empty or as its tail, and `sendCmdGet` returns true.
  Without `fresh`: `getStrN` does not terminate, stale characters follow the string.
* `readUntil` restarts the ring buffer with `reset`, which does not clear it
  (`EspDrv.cpp` 1101; its comment at 1095 says that it reads until the tag is found),
  and `endsWith` compares across the wrap: a few characters complete a tag with what
  an earlier answer left. EspCommand, EspScan and EspWiFi do not have this.
* `OwnAnswer`, `PayloadIntact`, `WrittenIsSent` without `InTime`: the next command
  returns the late answer; a late prompt makes the module send the text of the next
  command to the peer; a late SEND OK is taken for that of the next payload.

Receiving:

* `Framed` for a sketch that polls another socket within a packet: `availData`
  searches the rest of the payload for a header and discards it, keeps `_bufPos`, and
  the first client then reads protocol text.
* With `status` among the calls a packet that comes between `availData` and
  `AT+CIPSTATUS` is thrown away and the client closed.
* On link 0: `_connId == 0` is also what the driver has when there is no packet
  (`EspDrv.cpp` 714). While another link's packet is announced, a `read` of a client on
  link 0 passes `availData`, is refused by `getData` and returns its uninitialised
  local, where `WiFiEspClient.h` 84 promises a byte or -1 (a UDP object's `read` returns -1);
  `flush` goes round for
  ever (`CallsReturn` is checked on other links).
* `WiFiEspServer::available` takes whatever link has data for a client, that of a UDP
  object too: the runs have the one or the other. A `_bufPos` left behind by a packet
  that a command threw away makes a client without data (on link 0 in `web_server`);
  the loop finds that it is not connected and stops it.
* UDP: `peek` returns an uninitialised local. The rest of a datagram that was not read
  is thrown away by the next `send` while `_bufPos` still counts it; otherwise
  `parsePacket` takes it for the next packet. `remoteIP` is right from a read to the next
  poll of another socket.
* `web_server` after a loss: when the UART loses the end of a request the server waits
  until the browser closes. If the read that waits for the lost byte times out and the loop,
  whose client is on another link, then takes a header of link 0 (`Wedged`), `availData` says
  data at every turn, for `_connId` is 0, and `getData` refuses it, for the socket is not: the
  module is never asked again, and the loop goes round for ever after the peer has closed. A request that comes in two packets, or has a body, can
  lose its second part to the command of `connected`, which the loop gives before every
  byte.

Sockets:

* A client whose `connect` has failed keeps the number of the socket
  (`WiFiEspClient.cpp` 95; `WiFiEspClient.h` 109: `connected` is true if the client is), and the next client
  gets the same one: unless the first is stopped (`Careful`), it reports the other's
  connection.
* `connected` is answered by data first: see the exceptions of `ConnectedIsOwn` above. A client
  that has lost its connection can so be told the opposite for as long as another
  client's packet is not read.
* `OwnConnection` and `ConnectedIsOwn` with a server: the module gives a link whose connection was closed
  to a connection from outside while a client still has the number.
* `NoOrphanLink` with commands that time out: `stop` gives the socket back and the
  link stays open; the next client with that number finds its `connect` refused. The same when
  a read takes what comes for bytes that a command has thrown away, and sees a closing
  notice there.
* `OwnConnection` of a UDP object after a command has timed out: `begin` does not look at the
  result of `startClient`, and keeps a socket whose link may be another connection.
* `TableIsHeld` without socket 1: `WiFiEspServer::begin` takes its entry whoever has it.

Connection management:

* `ReadyToServe` without `tries < 5`: init gives up after five unanswered ATs and returns
  as when it succeeds; a module that is up a moment later passes the sketch's check for a
  shield, without CIPMUX and CIPDINFO. The same after a restart by itself, which
  no call notices.
* `NoAutoStart` without `kept`: any failure of a _CUR command, a wrong password or a lost
  answer too, is taken for old firmware; the plain form is tried, the flash keeps
  it, and config and configAP use the plain form from then on, also after `reset`,
  which leaves `_curMode`. BasicTest does this when it begins with a wrong password.
* `FormKnown` without `begun`: `configAP` before the first begin uses the _CUR form, which
  old firmware refuses, and returns nothing.
* `InterfaceAsked` ends with the next attempt: a begin that fails leaves `espMode = 1`
  while the access point runs, and `localIP` asks for the station's address.
* `AddressHolds` excepts `beginAP` for both modes, which turns the station's DHCP on
  again, and, of the station, `configAP`, which turns the station off. `beginAP` returns WL_CONNECTED whatever the DHCP command is answered.
* `SetupEnds`, the second case: begin never sets station mode, so that on a module that
  is an access point (after `beginAP`, `configAP`, a restart, or when reset's CWMODE=1 was
  lost) it cannot succeed, and the examples repeat it for ever.
* `AnswersAreCurrent` says what is left of "the query returns the module's answer":
  RSSI, BSSID, MAC address, status, netmask and gateway go through local buffers that
  `getStrN` does not terminate (`Garbled`); the status of old firmware is always
  "connected". An SSID shorter than an earlier one keeps the old one's end (`cache.tail`):
  `getCurrentSSID` clears the first character of `_ssid` only, and the line of `getStrN` that
  would end the string (`EspRingBuffer.cpp` 109) is a comment.

Scanning:

* `ListIsAnswer` says nothing of the length of a list that is full, nor of the names that are
  long or hold a quote but that what is printed begins them: the last network of a full list is
  not counted (`EspDrv.cpp` 550), a name of 31 or 32 characters is empty, one with a
  quote ends there.

## Proofs

`EspRingBufferProofs`, for every size of the buffer and every alphabet:
`IInvariance` (`Spec => []IInv`), `TagsAreSeen`, `ExactnessAfterInit` and `Extraction`
(the three properties of the run). The array and its pointer say nothing by
themselves about the stream; `IInv` adds that the cells behind the pointer, followed
backwards and around the end, are the newest characters (`TailHeld`), that before
the first wrap the pointer counts them (`PointerCounts`), and that after `init` the
other cells hold NUL (`RestCleared`). `push` shifts each of these by one place
(`BackShifts`), and the three properties follow from `IInv` without looking at the
steps. Assumed: the size is positive, NUL is a character.

`EspReadUntilProofs`, for every ring buffer, set of tags, caller's buffer and set of
answers: `ReadInvariance` (`RSpec => []RInv`), `TagsStop` (`NoTagGoesBy`) and `Extracts`
(`Extracted`). `RInv` is the ring buffer's `IInv` with what ties the stream pushed to the
answer: it is the part read since the last restart (`Position`), each place of
`sendCmdGet` has found the first tags of their kind (`Found`), and a caller's buffer that
was cleared stays so until the copy (`Copying`). `ReadNoTagGoesBy` is where the buffer
may have wrapped: if `endsWith` says no, `TagsAreSeen` says that the tag is not at the end
of the stream. `clearRing` calls `init`, so the end tag is found exactly; the start tag is
looked for after `reset`, and that it is found exactly needs `RepliesAssumption`: a
character left in the buffer could otherwise complete a start tag of which only the last
part was read (`StartFound`; without the assumption the run finds `Extracted` violated).

`EspCommandProofs`, for every number of calls, of waits that end early and of lines in
flight: `Inductive` (`Spec => []IInv`), and from it `Answers` (`OwnAnswer`), `QuietCalls`
(`QuietCallOwnAnswer`), `Payloads` (`PayloadIntact`) and `Written` (`WrittenIsSent`). None
of them says where the driver and the module are in a call; `InStep` lists the pairs
in which a call that began quiet can find them, with what is on the line in each. That
every call begins quiet while no answer was late is the other half: a call that ends
leaves the line empty and the module ready.

`EspReceiveProofs`, for every set of links and UDP objects, size of the UART's buffer,
number and length of packets:
* `BaseInvariance` (`Base`) and `TypeCorrectness`, for every sketch and whatever the UART
  loses: `_bufPos` stays between 0 and a packet, no read asks for more than it, and there is
  at most one answer on its way, while the driver waits for it.
* `KeepingStep` (`Framed`), for the sketches of `KeepsStep`: they read a packet to its end
  before they turn elsewhere, and do not call `status` (nor, on link 0, `flush`); they may
  give commands. `Framing` is inductive with `Base`: it adds where in a packet each place of
  the driver may be (`Placed`), that messages are whole (`Whole`), and that a `notice`
  that is being read is the one of this link, already there. `status` is excluded because
  it asks `availData` first and then gives a command although a header may have been
  taken; `flush` on link 0 because it goes round its loop with the packet of another link.
* `EveryByteOnce` (`ExactlyOnce`), `InStepAndComplete` (`Delivering`) and
  `StreamsImplemented`, for the sketches of `Drains`, which also give no commands and have
  no link 0 (commands throw data away; `_connId == 0` is also none). `Streaming` adds to
  `Framing`, link by link, that the bytes of a link on the line are in order and are just
  those not yet delivered, and that nothing of a link follows its notice. What a read takes
  is the head of the line, which `InStep` says is the next byte of the call's own link
  (`NextInStep`, `Reads`).
* The refinement: `Spec /\ []~lost => ImplementsStreams`. A forwarded packet is `Send`, a
  peer's close is the abstract close, `DataByte` and `BufByte` are `Receive`, `NoticeFound` is
  `Release`, and every other step stutters, also when a byte moves from `val` or `buf` to what
  was returned (`HeldIsGot`). Without `[]~lost` the abstract streams, which lose nothing,
  are not what the driver implements.

* `PacketsAreWhole` (`WholePackets`) and `SenderIsRemote` (`RemoteIsSender`), for the
  sketches of `KeepsStep`, so with commands, which throw away what has arrived, and with
  link 0. Both follow from `Tracing`, which `TracingHolds` proves.

`Tracing` joins to `Base` and `Framing`
* `Numbered`, of every sketch and also when the UART loses tokens: what is on the line of a
  link is in the order sent and reaches up to the end of a packet that was forwarded. A step
  other than `Packet` only thins the line out (`LineThins`: a map of the tokens left to
  those before, `Thins`), which `NumberedThinned` shows to be enough;
* `Connected`: the numbers of a packet's tokens follow each other, and while a packet is being
  read, `remote` is its last byte;
* `Ordered`: what is left on the line for a link is later than the last byte it got, and
  goes on with that packet or, if `_connId` and `_bufPos` do not say so, begins another one;
* `Sourced`: the bytes a call holds (`val`, `buf`) or has just returned are of the packet that
  `remote` names.

`StepsInStep` is what the rest of the proof needs of the driver: in step it takes a header, a
byte of the packet being read, something that is no part of a packet, or, in a
command, anything; the lemmas of each conjunct follow these cases. `DataMismatch` on
link 0 returns a byte that was never set, which is why `InPackets` looks for the last result
that is a byte (`OrderedUnset`). TLC has checked `Tracing` on the instance of `RxCommands.cfg`;
`tlc -config RxCommands.cfg EspReceiveProofs` with `Tracing` among its INVARIANTS repeats it.
What a step keeps is stated for any sketch, with what it needs of a call said of the step
itself: `Turning`, a call turns to another socket only between packets, and `Heeding`, it
gives no command between taking a header and its packet. `KeptCalls` has both of
the sketches of `KeepsStep`; the web server has them in another way.

`WebServerSketchProofs`, for every number of browsers, requests, prints of a response and
bytes of a request, and every size of the UART's buffer: `WTypes` (`WTypeOK`), whatever is
lost, and `RequestsAreWhole` (`WholeRequest`). The loop is not a sketch of `KeepsStep`: it
asks for the status before each byte. `Served`, the inductive invariant (`ServedHolds`),
adds to the receive path's `Framing`, `Numbered` and `Connected` where the loop is and what
its last call has told it (`Serving`): the status is asked only inside the packet the loop is
reading, where it gives no command (a byte that does not end the request leaves more of the
packet to read); and what was read since the client was accepted is the first part of one packet (`Part`), whose
rest is still to come. The byte that ends a request is the last of a packet, and the part is
then the whole. Assumed: a sketch of EspReceive may make the loop's calls
(`CallsAssumption`). TLC has checked `Served` on the instance of `WebServer.cfg`.

`WiFiEspSocketsProofs`, for every set of clients and UDP objects and every number of
sockets, links and connections, with no more sockets than links and `NO_SOCKET_AVAIL` no link:
* `TypeCorrectness`: `TypeOK`, for any sketch, `Ownership` (`NoSocketLeaks`, with `OneOwner`) and
  `ServedTable` (`TableIsHeld`), for a careful one.
  None of these but the first is inductive alone: a free entry is
  given out safely only because the table is exact, and the table stays exact on a
  release only because the socket had one owner (`Owned`). `TableIsHeld` leaves out the
  server's own socket 1, since `begin` allocates it and nothing releases it.
* `AccountsAgree` (`Accounts`), for a careful sketch, and from it `NoOrphans` (`NoOrphanLink`),
  `OwnConnections` (`OwnConnection`) and `ConnectedOwns` (`ConnectedIsOwn`). That an object meets
  no one else's connection rests on what a free entry means. While nothing has timed out
  no link is open behind it and no data wait on it; so `Accounts` joins the table's
  exactness with the links' (every open link is an object's) and the data's
  (`DataAreHeld`). Afterwards a link may be open behind a free entry, but then a
  `CIPSTART` on it is refused, and every command throws away what waits: a client
  whose connect succeeded meets its own connection all the same.
  Every call takes a free socket, gives one up or keeps it (`TakeAgrees`, `GiveAgrees`,
  `KeepAgrees`). `ConnectedIsOwn` follows from what `Polls` can find: a packet of the client's
  own socket, which is its own by `OwnConnection`, or one of the exceptions.

`EspWiFiProofs`, for every number of lost answers, restarts and calls and every time the
module takes to start up: `Invariance` (`Spec => []IInv`), and from it
`AsksTheRightInterface` (`InterfaceAsked`), `UsesAKnownForm` (`FormKnown`),
`AddressStays` (`AddressHolds`) and `FlashStays` (`NoAutoStart`). None of the four is
inductive: a call sends several commands and looks at none of their results, so
that what it promises at its end depends on what each of them has done. `IInv` adds,
for each place inside a call, what the module has carried out so far if no answer was
missing (`WithinCall`: `Resetting`, `Configuring`, `ConfiguringAP`, `BeginningAP`), and
that `kept` implies `_curMode`. The four also need each other: that config's
commands are carried out (`AddressHolds`) rests on their form being known
(`FormKnown`), and that the flash stays on config's using the _CUR form. `SendEffect`,
`ExecuteEffect` and `SendKeeps` say once what a command does to the module; then there
is one lemma for each action, and for `sendNext` one for each call it belongs to.
Assumed: the bounds are numbers, and a module needs some time to start up.
From `IInv` and a look at each query also `NothingIsStale` (`AnswersAreCurrent`, an action
property): inside a call of commands `call` is that call (`WithinCall`), so that a step
that ends a query is the query's own and returns a copy of what it has just read.
`ExamplesAreReady` (`ReadyToServe`) needs to know where in its setup an example is: `Course`
says, as long as an example is `Undisturbed` (init was answered, nothing was lost, the
module did not restart), which call the driver is in, that the module is no longer
busy, which options reset has set by the command it has reached, and that after the
`begin` of the setup (`BeginsAt`) the station is up. `Courses` (`Spec => []OnCourse`, that is
`IInv /\ Course`) is proved action by action like `Invariance`.

`EspScanProofs`, for a list of any size, answers of any number of networks, and any number
of scans and pauses: `ScanTypes` (`TypeOK`), and from `Scanning`
(`ScanningHolds`) `ListsTheAnswer` (`ListIsAnswer`) and `ReadsToTheEnd` (`QuietAfter`).
Neither of the two says anything of a scan that is under way. `Scanning` does: the line is
what is left of the answer to this scan from the entry that is next (`Reading`), the places
of the list filled so far are those of its first networks but for one that a pause has
spoilt (`Spared`), and at the end the whole of it is there (`Complete`). What the code makes of a
long or a quoted name is exact in the proof only (`Shown`). Two things carry it.
* Where things are in an answer. It is flattened from its networks by a recursive function,
  and the theorems of the library that state induction take an operator, which no prover here can
  instantiate. A set of naturals has a least element (`LeastNat`, from the well-foundedness of
  <, which can be cited), and with the set of all m that have the property for a parameter that
  is a set, `UpToNat` is induction over 0 .. n. With it `UptoExists` shows that the function
  exists, `UptoProperties` that each network's tokens are where its place says, and `Layout`
  that an answer is its networks one after the other and then OK. `Laid` puts the pause in
  and `Moved` says where a token is then.
* What a turn reads. `WaitStops` is one wait: it ends at the first token it is for.
  `TurnExact` follows the six waits of a turn over an entry without a pause. With one, each wait
  ends at the token it is for or before it, so that a turn ends where the next one starts, or
  with no tag found (`TurnEnds`): that a pause spoils one entry and not the next as well.
  `TurnReads` joins them, and `TurnStep` is the loop's step.

The names are those the model's module sends (`Names`: hidden, plain, with a comma or a quote,
or too long). The lemmas on answers and turns hold for any name that is text, commas and
quotes, or is one part that is too long (`Named`). TLC has checked `Scanning` on the instance of
`Scan.cfg` with `MaxNets = 4`.

Only model-checked is liveness under fairness (`CallsReturn`, `CallsEnd`, `ListensAgain`,
`SetupEnds`), which is outside what the provers can do; every invariant and action property of a
passing run is proved. No module declares a RECURSIVE operator.

## Not modelled

The text of commands (`sprintf`, escaping) and the conversion of an answer's digits to
addresses; logging (`utility/debug.h`). `_server_port` is written and never read. Copies
of a client object share a number and are not distinguished from it: `WebServerLed`
passes its client by value to a function whose write may stop the copy, and the loop
then stops the link again. The flush and stop of a UDP object byte by byte (WiFiEspSockets has
what they leave). Of the examples, the
loops of `WebClient`, `WebClientSSL`, `WebClientRepeating`, `UdpNTPClient` and
`UdpSendReceive`, and the
HTTP of the server's answer; of the tests, those that only print a report.
What the module does when it is told to
open a link that is open, or loses power in a write to its flash, is its own.

## Plan

1. Copies of client objects in WiFiEspSockets, with the loop of `WebServerLed` over it.
2. Composition: EspCommand as the abstraction of EspReadUntil (a token is an answer
   that `readUntil` has read), and WiFiEspSockets over EspReceive for one client.
3. The loops of `WebClientRepeating` and `UdpNTPClient` over EspReceive: a request that is
   sent again when its answer is late.
4. Proofs: names with more than one quote or comma in EspScan, which only `NetworksAre`
   would have to know of, and the web server with requests that come in several packets.
