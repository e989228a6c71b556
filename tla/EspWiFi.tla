------------------------------- MODULE EspWiFi -------------------------------
(***************************************************************************)
(* Connection management: init, begin, beginAP, config, configAP,          *)
(* disconnect, reset and the queries (EspDrv.cpp 74-624, WiFiEsp.cpp       *)
(* 34-206), called by the sketches of examples/ and test/ or in any order. *)
(*                                                                         *)
(* What the driver remembers of the module is two variables: espMode, the  *)
(* mode begin or beginAP last asked for, and _curMode, whether the last    *)
(* attempt used a command's _CUR form, which is lost when the module       *)
(* restarts, or the plain one, which the module also keeps in its flash.   *)
(* Older firmware has no _CUR forms.  Most results are ignored.            *)
(*                                                                         *)
(* A command is one step, with the module's answer; EspCommand is about    *)
(* how an answer is found.  It is carried out or refused, or, MaxLost      *)
(* times, the driver does not get an answer and the command is carried out *)
(* or lost.  A module that is starting up takes no commands.               *)
(***************************************************************************)
EXTENDS Integers, Sequences

CONSTANTS MaxBusy,     \* bound: commands that pass while the module starts up
          MaxLost,     \* bound: answers the driver does not get
          MaxRestarts, \* bound: restarts of the module by itself
          MaxCalls     \* bound: calls of the sketch that makes any calls

ASSUME WiFiBounds ==
  /\ MaxBusy \in Nat \ {0} /\ MaxLost \in Nat /\ MaxRestarts \in Nat /\ MaxCalls \in Nat

VARIABLES hasCur,            \* the module: its firmware has the _CUR forms
          now, flash,        \* its settings, and those it starts with
          joined,            \* the network it has joined, or None
          options,           \* CIPMUX and CIPDINFO, which a restart clears
          busy,              \* commands that will pass before it is up
          pc, todo, tries,   \* the driver: its place, commands to send, i
          espMode, curMode,  \* WiFiEspClass::espMode, EspDrv::_curMode
          cache,             \* _ssid and _bssid: what they hold
          net,               \* the network begin was last given
          sketch, at, call,  \* the sketch, its place and the call it makes
          ret                \* what the last call returned

(* History, for the properties. *)
VARIABLES clean,             \* no command of this call was without an answer
          up,                \* the interface begin or beginAP has brought up
          begun,             \* begin or beginAP has tried both forms
          want,              \* interfaces given an address that should hold
          kept,              \* set up, and no _CUR command has failed since
          lost, restarts     \* answers lost, restarts by itself

espVars == <<hasCur, now, flash, joined, options, busy, lost>>
drvVars == <<espMode, curMode, cache, net>>
ctlVars == <<pc, todo, tries, sketch, at, call, ret>>
hist == <<up, begun, want, kept>>
vars == <<espVars, drvVars, ctlVars, hist, clean, restarts>>

None == "none"

(* Two networks; the name of one is longer than that of the other. *)
Networks == {"short", "long"}

-----------------------------------------------------------------------------
(* The module.                                                             *)

Interfaces == {"sta", "ap"}
On(mode) == CASE mode = 1 -> {"sta"} [] mode = 2 -> {"ap"} [] mode = 3 -> Interfaces

Settings == [mode : 1 .. 3, dhcp : SUBSET Interfaces,
             fixed : SUBSET Interfaces,    \* interfaces given an address
             auto : BOOLEAN,               \* join at start-up
             saved : Networks \cup {None}] \* the network to join

(* A command: what it sets, to what, in which form. *)
Cmd(name, args, cur) == [name |-> name, args |-> args, cur |-> cur]

(* CWDHCP=<0 softAP | 1 station | 2 both>,<on>. *)
DhcpOf(n) == CASE n = 0 -> {"ap"} [] n = 1 -> {"sta"} [] n = 2 -> Interfaces

(* A station that asks for an address gives up the one it was given. *)
Set(c, s) ==
  CASE c.name = "CWMODE"     -> [s EXCEPT !.mode = c.args[1]]
    [] c.name = "CWDHCP" /\ c.args[2] = 1 ->
         [s EXCEPT !.dhcp = @ \cup DhcpOf(c.args[1]), !.fixed = @ \ (DhcpOf(c.args[1]) \ {"ap"})]
    [] c.name = "CWDHCP" /\ c.args[2] = 0 -> [s EXCEPT !.dhcp = @ \ DhcpOf(c.args[1])]
    [] c.name = "CIPSTA"     -> [s EXCEPT !.fixed = @ \cup {"sta"}]
    [] c.name = "CIPAP"      -> [s EXCEPT !.fixed = @ \cup {"ap"}]
    [] c.name = "CWAUTOCONN" -> [s EXCEPT !.auto = FALSE]
    [] c.name = "CWJAP"      -> [s EXCEPT !.saved = c.args[1]]
    [] OTHER                 -> s

(* It starts with what the flash says. *)
StartUp ==
  /\ now' = flash
  /\ options' = {}
  /\ joined' = IF flash.auto /\ "sta" \in On(flash.mode) THEN flash.saved ELSE None

Execute(c) ==
  /\ flash' = IF c.cur THEN flash ELSE Set(c, flash)
  /\ IF c.name = "RST" THEN StartUp
     ELSE /\ now' = Set(c, now)
          /\ options' = options \cup ({c.name} \cap {"CIPMUX", "CIPDINFO"})
          /\ joined' = CASE c.name = "CWJAP" -> c.args[1]
                         [] c.name = "CWQAP" -> None
                         [] OTHER -> IF "sta" \in On(now'.mode) THEN joined ELSE None

(* The form is unknown, or the interface is off. *)
Impossible(c) == \/ c.cur /\ ~hasCur
                 \/ c.name \in {"CWJAP", "CIPSTA"} /\ "sta" \notin On(now.mode)
                 \/ c.name \in {"CWSAP", "CIPAP"} /\ "ap" \notin On(now.mode)

(* A wrong password, no such network, a bad parameter, no such host. *)
MayFail(c) == c.name \in {"CWJAP", "CWSAP", "PING"}

NotDone == UNCHANGED <<now, flash, joined, options>>

Answers == {"OK", "ERROR", "timeout"}

(* A command is sent and answered (sendCmd). *)
Send(c, answer) ==
  /\ UNCHANGED hasCur
  /\ clean' = (clean /\ answer # "timeout")
  /\ \/ busy > 0 /\ answer = "timeout" /\ busy' = busy - 1 /\ NotDone /\ UNCHANGED lost
     \/ /\ busy = 0 /\ UNCHANGED busy
        /\ \/ answer = "OK" /\ ~Impossible(c) /\ Execute(c) /\ UNCHANGED lost
           \/ answer = "ERROR" /\ (Impossible(c) \/ MayFail(c)) /\ NotDone /\ UNCHANGED lost
           \/ /\ answer = "timeout" /\ lost < MaxLost
              /\ lost' = lost + 1
              /\ NotDone \/ (~Impossible(c) /\ Execute(c))

(* A question is sent; the answer holds truth, or None if the tag that     *)
(* begins it is not in it or not there in time (sendCmdGet).               *)
Ask(truth, answer) ==
  /\ NotDone /\ UNCHANGED hasCur
  /\ \/ busy > 0 /\ answer = None /\ busy' = busy - 1 /\ UNCHANGED lost
     \/ busy = 0 /\ answer = truth /\ UNCHANGED <<busy, lost>>
     \/ busy = 0 /\ answer = None /\ lost < MaxLost /\ lost' = lost + 1 /\ UNCHANGED busy

(* Bound: when the last of MaxCalls calls has been made nothing follows. *)
Over == sketch = "any" /\ at > MaxCalls

(* A power failure, a watchdog. *)
Restart ==
  /\ restarts < MaxRestarts /\ ~Over
  /\ restarts' = restarts + 1
  /\ StartUp
  /\ busy' \in {0, MaxBusy}
  /\ clean' = FALSE /\ up' = None /\ want' = {}
  /\ UNCHANGED <<hasCur, flash, lost, drvVars, ctlVars, begun, kept>>

(* The access point goes away. *)
LoseNetwork ==
  /\ joined # None /\ joined' = None /\ ~Over
  /\ UNCHANGED <<hasCur, now, flash, options, busy, lost, drvVars, ctlVars, hist,
                 clean, restarts>>

-----------------------------------------------------------------------------
(* The sketches: the calls of setup, and of loop where it makes such calls.*)

WebServer    == <<"init", "status", "begin", "SSID", "localIP">>
WebServerLed == <<"init", "status", "disconnect", "reset", "begin", "SSID", "localIP">>
WebServerAP  == <<"init", "status", "beginAP", "localIP">>
WebClient    == <<"init", "status", "begin", "SSID", "localIP", "RSSI">>
UdpNTPClient == <<"init", "status", "begin">>
ConnectWPA   == <<"init", "status", "begin",
                  "SSID", "BSSID", "RSSI", "localIP", "macAddress">>
BasicTest    == <<"init", "firmwareVersion", "status", "begin", "status", "SSID",
                  "localIP", "macAddress", "disconnect", "status", "localIP",
                  "SSID", "begin", "config", "begin", "status", "localIP">>

Calls(s) == CASE s = "WebServer"    -> WebServer
              [] s = "WebServerLed" -> WebServerLed
              [] s = "WebServerAP"  -> WebServerAP
              [] s = "WebClient"    -> WebClient
              [] s = "UdpNTPClient" -> UdpNTPClient
              [] s = "ConnectWPA"   -> ConnectWPA
              [] s = "BasicTest"    -> BasicTest

Examples == {"WebServer", "WebServerLed", "WebServerAP", "WebClient",
             "UdpNTPClient", "ConnectWPA"}
Sketches == Examples \cup {"BasicTest", "any"}

stopped == 0

(* The sketch is about to call c. *)
Calling(c) ==
  /\ pc = "idle" /\ at # stopped
  /\ IF sketch = "any" THEN at <= MaxCalls /\ (at = 1 <=> c = "init")
     ELSE at \in DOMAIN Calls(sketch) /\ Calls(sketch)[at] = c

(* The examples stop without a shield and repeat begin until it succeeds;  *)
(* ConnectWPA and BasicTest have a loop that calls, the others go on with  *)
(* their clients.                                                          *)
After(c, value) ==
  CASE sketch \in Examples /\ c = "status" /\ value = "NO_SHIELD"    -> stopped
    [] sketch \in Examples /\ c = "begin" /\ value = "CONNECT_FAILED" -> at
    [] sketch = "ConnectWPA" /\ at = Len(ConnectWPA)                 -> 4
    [] sketch = "BasicTest" /\ at = Len(BasicTest)                   -> 2
    [] OTHER                                                         -> at + 1

(* A call of several commands begins, at the first of them, and returns.   *)
Begin(c, first) ==
  /\ Calling(c)
  /\ pc' = first /\ call' = c
  /\ clean' = TRUE /\ ret' = None
  /\ UNCHANGED <<espVars, restarts, sketch, at>>

Return(c, value) ==
  /\ pc' = "idle" /\ ret' = value /\ at' = After(c, value)
  /\ UNCHANGED sketch

Goto(place) == pc' = place /\ UNCHANGED <<at, ret, sketch>>

-----------------------------------------------------------------------------
(* init and reset.                                                         *)

(* A slip in reset: the restart comes after CIPMUX. *)
ResetCommands_Late ==
  <<Cmd("CIPMUX", <<1>>, FALSE), Cmd("RST", <<>>, FALSE), Cmd("ATE0", <<>>, FALSE),
    Cmd("CWMODE", <<1>>, FALSE), Cmd("CIPDINFO", <<1>>, FALSE), Cmd("CWAUTOCONN", <<0>>, FALSE),
    Cmd("CWDHCP", <<1, 1>>, FALSE)>>

(* A slip in reset: no CWMODE=1. *)
ResetCommands_NoMode ==
  <<Cmd("RST", <<>>, FALSE), Cmd("ATE0", <<>>, FALSE),
    Cmd("CIPMUX", <<1>>, FALSE), Cmd("CIPDINFO", <<1>>, FALSE), Cmd("CWAUTOCONN", <<0>>, FALSE),
    Cmd("CWDHCP", <<1, 1>>, FALSE)>>

ResetCommands ==
  <<Cmd("RST", <<>>, FALSE), Cmd("ATE0", <<>>, FALSE), Cmd("CWMODE", <<1>>, FALSE),
    Cmd("CIPMUX", <<1>>, FALSE), Cmd("CIPDINFO", <<1>>, FALSE), Cmd("CWAUTOCONN", <<0>>, FALSE),
    Cmd("CWDHCP", <<1, 1>>, FALSE)>>

wifiDriverInit ==
  /\ Begin("init", "AT")
  /\ tries' = 0
  /\ up' = None /\ want' = {} /\ kept' = FALSE
  /\ UNCHANGED <<drvVars, todo, begun>>

(* A slip in init: it tries for ever. *)
attempt_NoLimit ==
  /\ pc = "AT"
  /\ \E answer \in Answers :
       /\ Send(Cmd("AT", <<>>, FALSE), answer)
       /\ IF answer = "OK" THEN Goto("todo") /\ todo' = ResetCommands /\ UNCHANGED tries
          ELSE /\ tries' = tries + 1
               /\ Goto("AT")
               /\ UNCHANGED todo
  /\ UNCHANGED <<drvVars, hist, call, restarts>>

(* Five attempts; then init returns as it does when it succeeds. *)
attempt ==
  /\ pc = "AT"
  /\ \E answer \in Answers :
       /\ Send(Cmd("AT", <<>>, FALSE), answer)
       /\ IF answer = "OK" THEN Goto("todo") /\ todo' = ResetCommands /\ UNCHANGED tries
          ELSE /\ tries' = tries + 1
               /\ IF tries + 1 < 5 THEN Goto("AT") ELSE Return(call, None)
               /\ UNCHANGED todo
  /\ UNCHANGED <<drvVars, hist, call, restarts>>

reset ==
  /\ Begin("reset", "todo")
  /\ todo' = ResetCommands
  /\ up' = None /\ want' = {} /\ kept' = FALSE
  /\ UNCHANGED <<drvVars, tries, begun>>

(* The next command of those whose results are ignored. *)
ConfigTakes == /\ call \in {"config", "configAP"}
               /\ clean' /\ (begun \/ hasCur)

sendNext ==
  /\ pc = "todo" /\ todo # <<>>
  /\ \E answer \in Answers : Send(Head(todo), answer)
  /\ todo' = Tail(todo)
  /\ IF Tail(todo) # <<>> THEN Goto("todo") /\ UNCHANGED <<up, want, kept>>
     ELSE /\ \/ call = "init" /\ Goto("version")
             \/ call = "beginAP" /\ Return(call, "CONNECTED")
             \/ call \notin {"init", "beginAP"} /\ Return(call, None)
          /\ up' = IF call = "beginAP" /\ clean' THEN "ap" ELSE up
          /\ kept' = IF call \in {"init", "reset"} THEN clean' /\ curMode ELSE kept
          /\ want' = want \cup IF ~ConfigTakes THEN {}
                               ELSE IF call = "configAP" THEN {"ap"}
                               ELSE {"sta"} \cap On(now.mode)
  /\ UNCHANGED <<drvVars, tries, call, begun, restarts>>

(* init asks for the firmware's version at its end. *)
checkVersion ==
  /\ pc = "version"
  /\ \E answer \in {"fw", None} :
       /\ Ask("fw", answer)
       /\ clean' = (clean /\ answer # None)
       /\ Return(call, None)
  /\ UNCHANGED <<drvVars, todo, tries, call, hist, restarts>>

-----------------------------------------------------------------------------
(* begin and disconnect.                                                   *)

(* A slip in begin: espMode is not set. *)
begin_KeepsMode ==
  /\ Begin("begin", "CWJAP_CUR")
  /\ net' \in IF sketch = "any" THEN Networks ELSE {"short"}
  /\ UNCHANGED espMode
  /\ up' = None
  /\ UNCHANGED <<curMode, cache, todo, tries, begun, want, kept>>

begin ==
  /\ Begin("begin", "CWJAP_CUR")
  /\ net' \in IF sketch = "any" THEN Networks ELSE {"short"}
  /\ espMode' = 1
  /\ up' = None
  /\ UNCHANGED <<curMode, cache, todo, tries, begun, want, kept>>

(* A slip in wifiConnect: no _curMode = 0 in the second attempt. *)
wifiConnect_KeepsForm ==
  /\ pc \in {"CWJAP_CUR", "CWJAP"}
  /\ \E answer \in Answers :
       /\ Send(Cmd("CWJAP", <<net>>, pc = "CWJAP_CUR"), answer)
       /\ curMode' = TRUE
       /\ begun' = (begun \/ pc = "CWJAP" \/ answer = "OK")
       /\ kept' = (kept /\ curMode')
       /\ up' = IF answer = "OK" THEN "sta" ELSE None
       /\ \/ answer = "OK" /\ Return(call, "CONNECTED")
          \/ answer # "OK" /\ pc = "CWJAP_CUR" /\ Goto("CWJAP")
          \/ answer # "OK" /\ pc = "CWJAP" /\ Return(call, "CONNECT_FAILED")
  /\ UNCHANGED <<espMode, cache, net, todo, tries, call, want, restarts>>

(* The _CUR form is tried first, then, whatever was wrong, the plain one.  *)
wifiConnect ==
  /\ pc \in {"CWJAP_CUR", "CWJAP"}
  /\ \E answer \in Answers :
       /\ Send(Cmd("CWJAP", <<net>>, pc = "CWJAP_CUR"), answer)
       /\ curMode' = (pc = "CWJAP_CUR")
       /\ begun' = (begun \/ pc = "CWJAP" \/ answer = "OK")
       /\ kept' = (kept /\ curMode')
       /\ up' = IF answer = "OK" THEN "sta" ELSE None
       /\ \/ answer = "OK" /\ Return(call, "CONNECTED")
          \/ answer # "OK" /\ pc = "CWJAP_CUR" /\ Goto("CWJAP")
          \/ answer # "OK" /\ pc = "CWJAP" /\ Return(call, "CONNECT_FAILED")
  /\ UNCHANGED <<espMode, cache, net, todo, tries, call, want, restarts>>

disconnect ==
  /\ Begin("disconnect", "CWQAP")
  /\ UNCHANGED <<drvVars, todo, tries, hist>>

leave ==
  /\ pc = "CWQAP"
  /\ \E answer \in Answers : Send(Cmd("CWQAP", <<>>, FALSE), answer)
  /\ Return(call, "DISCONNECTED")
  /\ UNCHANGED <<drvVars, todo, tries, call, hist, restarts>>

-----------------------------------------------------------------------------
(* beginAP.                                                                *)

(* The default of apOnly is TRUE. *)
beginAP(apOnly) ==
  /\ Begin("beginAP", "CWMODE_CUR")
  /\ sketch = "any" \/ apOnly
  /\ espMode' = IF apOnly THEN 2 ELSE 3
  /\ up' = None
  /\ want' = IF apOnly THEN want ELSE want \ {"sta"}
  /\ UNCHANGED <<curMode, cache, net, todo, tries, begun, kept>>

setMode ==
  /\ pc \in {"CWMODE_CUR", "CWMODE"}
  /\ \E answer \in Answers :
       /\ Send(Cmd("CWMODE", <<espMode>>, pc = "CWMODE_CUR"), answer)
       /\ curMode' = (pc = "CWMODE_CUR")
       /\ begun' = (begun \/ pc = "CWMODE" \/ answer = "OK")
       /\ kept' = (kept /\ curMode')
       /\ \/ answer = "OK" /\ Goto("CWSAP")
          \/ answer # "OK" /\ pc = "CWMODE_CUR" /\ Goto("CWMODE")
          \/ answer # "OK" /\ pc = "CWMODE" /\ Return(call, "CONNECT_FAILED")
  /\ UNCHANGED <<espMode, cache, net, todo, tries, call, up, want, restarts>>

(* A slip in wifiStartAP: DHCP for both interfaces, whatever the mode. *)
wifiStartAP_DhcpBoth ==
  /\ pc = "CWSAP"
  /\ \E answer \in Answers :
       /\ Send(Cmd("CWSAP", <<>>, curMode), answer)
       /\ IF answer = "OK"
            THEN /\ Goto("todo")
                 /\ todo' = <<Cmd("CWDHCP", <<2, 1>>, curMode)>>
            ELSE Return(call, "CONNECT_FAILED") /\ UNCHANGED todo
  /\ UNCHANGED <<drvVars, tries, call, hist, restarts>>

wifiStartAP ==
  /\ pc = "CWSAP"
  /\ \E answer \in Answers :
       /\ Send(Cmd("CWSAP", <<>>, curMode), answer)
       /\ IF answer = "OK"
            THEN /\ Goto("todo")
                 /\ todo' = <<Cmd("CWDHCP", <<IF espMode = 2 THEN 0 ELSE 2, 1>>, curMode)>>
            ELSE Return(call, "CONNECT_FAILED") /\ UNCHANGED todo
  /\ UNCHANGED <<drvVars, tries, call, hist, restarts>>

-----------------------------------------------------------------------------
(* config and configAP: in the form of the last begin or beginAP.          *)

(* A slip in config: the address is set in the plain form. *)
config_Plain ==
  /\ Begin("config", "todo")
  /\ todo' = <<Cmd("CWDHCP", <<1, 0>>, curMode), Cmd("CIPSTA", <<>>, FALSE)>>
  /\ UNCHANGED <<drvVars, tries, hist>>

config ==
  /\ Begin("config", "todo")
  /\ todo' = <<Cmd("CWDHCP", <<1, 0>>, curMode), Cmd("CIPSTA", <<>>, curMode)>>
  /\ UNCHANGED <<drvVars, tries, hist>>

configAP ==
  /\ Begin("configAP", "todo")
  /\ todo' = <<Cmd("CWMODE", <<2>>, curMode), Cmd("CWDHCP", <<2, 0>>, curMode),
               Cmd("CIPAP", <<>>, curMode)>>
  /\ up' = None
  /\ want' = want \ {"sta"}
  /\ UNCHANGED <<drvVars, tries, begun, kept>>

-----------------------------------------------------------------------------
(* The queries: one command, whose answer holds what is asked for or not.  *)

(* Only SSID changes something that another call reads: when any call may  *)
(* be made, other queries are the last.                                    *)
Asking(c) == Calling(c) /\ (sketch = "any" => at = MaxCalls \/ c = "SSID")

(* What the module would say. *)
Truth(c) ==
  CASE c \in {"SSID", "BSSID", "RSSI"} -> joined
    [] c = "status"          -> IF joined # None \/ ~hasCur THEN "CONNECTED" ELSE "DISCONNECTED"
    [] c = "macAddress"      -> IF "sta" \in On(now.mode) THEN "mac" ELSE None
    [] c = "firmwareVersion" -> "fw"
    [] c = "STAIP"           -> IF "sta" \in On(now.mode) /\ (joined # None \/ "sta" \in now.fixed)
                                  THEN "sta" ELSE None
    [] c = "CIPSTA"          -> IF "sta" \in On(now.mode) THEN "sta" ELSE None
    [] c = "CIPAP"           -> IF "ap" \in On(now.mode) THEN "ap" ELSE None

(* getStrN does not end what it copies.  Behind an answer in a local       *)
(* buffer that was not cleared there may be digits of what the stack held. *)
Garbled == "garbled"
Copied(answer) == IF answer = None THEN {None} ELSE {answer, Garbled}

Query(c, question, answer) ==
  /\ Asking(c)
  /\ Ask(Truth(question), answer)
  /\ call' = c
  /\ UNCHANGED <<espMode, curMode, net, todo, tries, hist, clean, restarts>>

(* The static _ssid after an answer was copied into it, and behind it the  *)
(* rest of a longer name (tail) that it has held before.                   *)
Mixed == "mixed"

Copy(answer) == [cache EXCEPT !.ssid = IF answer = "short" /\ cache.tail THEN Mixed ELSE answer,
                              !.tail = @ \/ answer = "long"]

(* A slip in getCurrentSSID and sendCmdGet: nothing sets _ssid[0] = 0. *)
getCurrentSSID_KeepsOld ==
  \E answer \in Networks \cup {None} :
    /\ Query("SSID", "SSID", answer)
    /\ cache' = IF answer = None THEN cache ELSE Copy(answer)
    /\ Return("SSID", cache'.ssid)

(* An answer that is not found leaves the variable empty. *)
getCurrentSSID ==
  \E answer \in Networks \cup {None} :
    /\ Query("SSID", "SSID", answer)
    /\ cache' = Copy(answer)
    /\ Return("SSID", cache'.ssid)

getCurrentBSSID ==
  \E answer \in Networks \cup {None} :
    /\ Query("BSSID", "BSSID", answer)
    /\ \E copied \in Copied(answer) : cache' = [cache EXCEPT !.bssid = copied]
    /\ Return("BSSID", cache'.bssid)

getCurrentRSSI ==
  \E answer \in Networks \cup {None} :
    /\ Query("RSSI", "RSSI", answer)
    /\ \E copied \in Copied(answer) : Return("RSSI", copied)
    /\ UNCHANGED cache

getFwVersion ==
  \E answer \in {"fw", None} :
    /\ Query("firmwareVersion", "firmwareVersion", answer)
    /\ Return("firmwareVersion", answer)
    /\ UNCHANGED cache

getMacAddress ==
  \E answer \in {"mac", None} :
    /\ Query("macAddress", "macAddress", answer)
    /\ \E copied \in Copied(answer) : Return("macAddress", copied)
    /\ UNCHANGED cache

(* Which address is asked for depends on espMode. *)
localIP ==
  \E answer \in {"sta", "ap", None} :
    /\ Query("localIP", IF espMode = 1 THEN "STAIP" ELSE "CIPAP", answer)
    /\ Return("localIP", answer)
    /\ UNCHANGED cache

(* An answer that is not found is taken for a missing shield; with other   *)
(* digits behind it the status is no known one.                            *)
getConnectionStatus ==
  \E answer \in {"CONNECTED", "DISCONNECTED", None} :
    /\ Query("status", "status", answer)
    /\ \E copied \in Copied(answer) :
         Return("status", CASE copied = None    -> "NO_SHIELD"
                            [] copied = Garbled -> "IDLE_STATUS"
                            [] OTHER            -> copied)
    /\ UNCHANGED cache

(* Without a station there is nothing to ask for. *)
subnetMask ==
  \E answer \in {"sta", None} :
    /\ IF espMode = 1 THEN Query("subnetMask", "CIPSTA", answer)
       ELSE /\ Asking("subnetMask") /\ answer = None /\ call' = "subnetMask"
            /\ UNCHANGED <<espVars, espMode, curMode, net, todo, tries, hist, clean, restarts>>
    /\ \E copied \in Copied(answer) : Return("subnetMask", copied)
    /\ UNCHANGED cache

gatewayIP ==
  \E answer \in {"sta", None} :
    /\ IF espMode = 1 THEN Query("gatewayIP", "CIPSTA", answer)
       ELSE /\ Asking("gatewayIP") /\ answer = None /\ call' = "gatewayIP"
            /\ UNCHANGED <<espVars, espMode, curMode, net, todo, tries, hist, clean, restarts>>
    /\ \E copied \in Copied(answer) : Return("gatewayIP", copied)
    /\ UNCHANGED cache

ping ==
  /\ Begin("ping", "PING")
  /\ UNCHANGED <<drvVars, todo, tries, hist>>

pinged ==
  /\ pc = "PING"
  /\ \E answer \in Answers :
       /\ Send(Cmd("PING", <<>>, FALSE), answer)
       /\ Return(call, IF answer = "OK" THEN "reached" ELSE None)
  /\ UNCHANGED <<drvVars, todo, tries, call, hist, restarts>>

-----------------------------------------------------------------------------
(* As delivered (an access point), or as earlier sketches have left it.     *)
Start(mode, fixed, saved) ==
  [mode |-> mode, dhcp |-> Interfaces \ {fixed}, fixed |-> Interfaces \cap {fixed},
   auto |-> saved # None, saved |-> saved]

Init ==
  /\ hasCur \in BOOLEAN
  /\ flash \in {Start(1, "sta", "long"), Start(2, None, None)}
  /\ now = flash
  /\ joined = IF flash.auto /\ "sta" \in On(flash.mode) THEN flash.saved ELSE None
  /\ options = {}
  /\ sketch \in Sketches /\ at = 1 /\ call = None /\ ret = None
  /\ busy \in IF sketch = "any" THEN {0} ELSE {0, MaxBusy - 1, MaxBusy}
  /\ pc = "idle" /\ todo = <<>> /\ tries = 0
  /\ espMode = 0 /\ curMode = TRUE
  /\ cache = [ssid |-> None, bssid |-> None, tail |-> FALSE] /\ net = "short"
  /\ clean = TRUE /\ up = None /\ begun = FALSE /\ want = {} /\ kept = FALSE
  /\ lost = 0 /\ restarts = 0

Queries ==
  \/ getCurrentSSID \/ getCurrentBSSID \/ getCurrentRSSI \/ getFwVersion
  \/ getMacAddress \/ localIP \/ getConnectionStatus \/ subnetMask \/ gatewayIP

Driver ==
  \/ wifiDriverInit \/ attempt \/ checkVersion \/ reset \/ sendNext
  \/ begin \/ wifiConnect \/ disconnect \/ leave
  \/ (\E apOnly \in BOOLEAN : beginAP(apOnly)) \/ setMode \/ wifiStartAP
  \/ config \/ configAP \/ ping \/ pinged \/ Queries

Next == Driver \/ Restart \/ LoseNetwork

(* The sketch and the driver go on, and a network that is asked again and  *)
(* again lets the station in at some time.                                 *)
Joins == wifiConnect /\ ret' = "CONNECTED"

Spec == Init /\ [][Next]_vars /\ WF_vars(Driver) /\ SF_vars(Joins)

-----------------------------------------------------------------------------
Names == {"AT", "ATE0", "RST", "CWMODE", "CIPMUX", "CIPDINFO", "CWAUTOCONN", "CWDHCP",
          "CWJAP", "CWQAP", "CWSAP", "CIPSTA", "CIPAP", "PING"}

Commands == [name : Names, args : Seq(Nat) \cup Seq(Networks), cur : BOOLEAN]

Caches == [ssid : Networks \cup {None, Mixed}, bssid : Networks \cup {None, Garbled},
           tail : BOOLEAN]

WellFormed(c) ==
  /\ c.name = "CWMODE" => c.args[1] \in 1 .. 3
  /\ c.name = "CWDHCP" => c.args[1] \in 0 .. 2 /\ c.args[2] \in 0 .. 1
  /\ c.name = "CWJAP"  => c.args[1] \in Networks

ModuleType ==
  /\ hasCur \in BOOLEAN /\ now \in Settings /\ flash \in Settings
  /\ joined \in Networks \cup {None} /\ options \subseteq {"CIPMUX", "CIPDINFO"}
  /\ busy \in 0 .. MaxBusy /\ lost \in 0 .. MaxLost

DriverType ==
  /\ pc \in {"idle", "AT", "todo", "version", "CWJAP_CUR", "CWJAP", "CWQAP",
             "CWMODE_CUR", "CWMODE", "CWSAP", "PING"}
  /\ tries \in 0 .. 5 /\ (pc = "AT" => tries < 5)
  /\ espMode \in 0 .. 3 /\ curMode \in BOOLEAN
  /\ cache \in Caches /\ net \in Networks
  /\ sketch \in Sketches /\ at \in Nat

TodoType ==
  /\ todo \in Seq(Commands) /\ (pc = "todo" => todo # <<>>)
  /\ \A i \in DOMAIN todo : WellFormed(todo[i])

HistoryType ==
  /\ clean \in BOOLEAN /\ up \in Interfaces \cup {None} /\ begun \in BOOLEAN
  /\ want \subseteq Interfaces /\ kept \in BOOLEAN
  /\ restarts \in 0 .. MaxRestarts

TypeOK == ModuleType /\ DriverType /\ TodoType /\ HistoryType

(* After a begin or beginAP that succeeded localIP asks for the address of *)
(* the interface it brought up, and that interface is on, whatever calls   *)
(* were made since, until the next attempt, reset, configAP or restart     *)
(* (WiFiEspClass::espMode).                                                *)
InterfaceAsked ==
  up # None => /\ up \in On(now.mode)
               /\ (espMode = 1) <=> (up = "sta")

(* Once begin or beginAP has been called, _curMode is set only if the      *)
(* firmware has the _CUR forms: config and configAP, however much later,   *)
(* use a form the module knows.  (Between the two attempts of a call it    *)
(* may be wrong; nothing reads it there.)                                  *)
FormKnown == (begun /\ curMode /\ pc \notin {"CWJAP", "CWMODE"}) => hasCur

(* An address given to the station or the access point holds until the     *)
(* next reset or restart; the station's until the next beginAP that wants  *)
(* a station, too, or configAP, which turns the station off.  No           *)
(* other call turns DHCP on again or takes the address away.               *)
AddressHolds == want \subseteq now.fixed /\ ("sta" \in want => "sta" \notin now.dhcp)

(* As long as no _CUR command has failed since a reset whose commands were *)
(* all answered, the module starts as a station that gets its address from *)
(* the network and joins none by itself: "use CUR mode to avoid connection *)
(* at boot".                                                               *)
NoAutoStart ==
  kept => flash.mode = 1 /\ ~flash.auto /\ "sta" \in flash.dhcp /\ "sta" \notin flash.fixed

(* What holds inside a call, and makes these four inductive: where the     *)
(* driver stands in it, and what the module has carried out of it if no    *)
(* answer was missing.                                                     *)
BeginningAP ==
  /\ call = "beginAP" /\ up = None /\ espMode \in {2, 3}
  /\ espMode = 3 => "sta" \notin want
  /\ (clean /\ pc \in {"CWSAP", "todo"}) => now.mode = espMode

ResetRest(k) == SubSeq(ResetCommands, k, Len(ResetCommands))

Resetting ==
  /\ call \in {"init", "reset"} /\ up = None /\ want = {} /\ ~kept
  /\ pc = "todo" => \E k \in DOMAIN ResetCommands :
                       /\ todo = ResetRest(k)
                       /\ clean /\ k > 3 => flash.mode = 1
                       /\ clean /\ k > 6 => ~flash.auto

(* The module knows the form, and has answered each command. *)
Taking == clean /\ (begun \/ hasCur)

Configuring ==
  /\ call = "config"
  /\ \A i \in DOMAIN todo : todo[i].cur = curMode
  /\ \/ Len(todo) = 2 /\ todo[1].name = "CWDHCP" /\ todo[1].args = <<1, 0>>
                     /\ todo[2].name = "CIPSTA"
     \/ /\ Len(todo) = 1 /\ todo[1].name = "CIPSTA"
        /\ Taking => "sta" \notin now.dhcp

ConfiguringAP ==
  /\ call = "configAP" /\ up = None /\ "sta" \notin want
  /\ \A i \in DOMAIN todo : todo[i].cur = curMode
  /\ \/ Len(todo) = 3 /\ todo[1].name = "CWMODE" /\ todo[1].args = <<2>>
                     /\ todo[2].name = "CWDHCP" /\ todo[2].args = <<2, 0>>
                     /\ todo[3].name = "CIPAP"
     \/ /\ Len(todo) = 2 /\ todo[1].name = "CWDHCP" /\ todo[1].args = <<2, 0>>
        /\ todo[2].name = "CIPAP"
        /\ Taking => now.mode = 2
     \/ Len(todo) = 1 /\ todo[1].name = "CIPAP" /\ (Taking => now.mode = 2)

WithinCall ==
  /\ pc \in {"CWJAP_CUR", "CWJAP"} => call = "begin" /\ espMode = 1
  /\ pc = "version" => call = "init"
  /\ pc = "CWQAP" => call = "disconnect"
  /\ pc = "PING" => call = "ping"
  /\ pc \in {"CWMODE_CUR", "CWMODE", "CWSAP"} => BeginningAP
  /\ pc = "AT" => Resetting /\ call = "init"
  /\ pc = "todo" => \/ Resetting \/ Configuring \/ ConfiguringAP
                    \/ /\ BeginningAP
                       /\ todo = <<Cmd("CWDHCP", <<IF espMode = 2 THEN 0 ELSE 2, 1>>, curMode)>>

(* The inductive invariant.  kept stands for a _curMode that was never     *)
(* lost, so that config and configAP use the _CUR forms.                   *)
IInv == /\ TypeOK /\ WithinCall /\ (kept => curMode)
        /\ InterfaceAsked /\ FormKnown /\ AddressHolds /\ NoAutoStart

(* When the setup of an example is over, the module has multiple           *)
(* connections and the long +IPD header on, and its station is up: on a    *)
(* module that answered one of init's five AT commands, restarted by       *)
(* itself never and left no command without an answer.                     *)
SetUp == sketch \in Examples /\ at > IF sketch = "ConnectWPA" THEN 3 ELSE Len(Calls(sketch))

ReadyToServe ==
  (SetUp /\ lost = 0 /\ restarts = 0 /\ tries < 5) =>
     options = {"CIPMUX", "CIPDINFO"} /\ (sketch # "WebServerAP" => up = "sta")

(* Why it holds: where an example is in its calls, and what the module has *)
(* carried out of init, reset and begin by then.                           *)
BeginsAt == IF sketch = "WebServerLed" THEN 5 ELSE 3

Undisturbed == sketch \in Examples /\ lost = 0 /\ restarts = 0 /\ tries < 5

SettingUp == pc = "todo" /\ call \in {"init", "reset"}

Course ==
  Undisturbed =>
    /\ pc # "idle" => at \in DOMAIN Calls(sketch) /\ call = Calls(sketch)[at]
    /\ at > 1 \/ pc \in {"todo", "version"} => busy = 0
    /\ SettingUp => \E k \in DOMAIN ResetCommands :
                      /\ todo = ResetRest(k)
                      /\ k > 4 => "CIPMUX" \in options
                      /\ k > 5 => "CIPDINFO" \in options
    /\ (at > 1 \/ pc = "version") /\ ~SettingUp => options = {"CIPMUX", "CIPDINFO"}
    /\ at > BeginsAt /\ sketch # "WebServerAP" => up = "sta"

(* The inductive invariant for ReadyToServe. *)
OnCourse == IInv /\ Course

(* A query returns what the module would say at that moment, or that there *)
(* is no answer; never what an earlier query left in a static variable,    *)
(* with one exception: behind the name of a network SSID returns the tail  *)
(* of a longer one that an earlier SSID returned, for _ssid is not ended.  *)
(* Where the answer went through a local buffer it may be garbled, but     *)
(* nothing is made up: without an answer there is no value, and a shield   *)
(* that answered is not reported missing.                                  *)
Current ==
  /\ call' = "SSID" => \/ ret' \in {Truth("SSID"), None}
                       \/ cache.tail /\ Truth("SSID") = "short" /\ ret' = Mixed
  /\ call' = "firmwareVersion" => ret' \in {Truth(call'), None}
  /\ call' \in {"BSSID", "RSSI", "macAddress"} => ret' \in Copied(Truth(call')) \cup {None}
  /\ call' = "status" => /\ ret' \in {Truth(call'), "IDLE_STATUS", "NO_SHIELD"}
                         /\ ret' = "NO_SHIELD" => (busy > 0 \/ lost' # lost)
  /\ call' = "localIP" => ret' \in {Truth("STAIP"), Truth("CIPAP"), None}

AnswersAreCurrent == [][at' # at => Current]_vars

(* The setup of every example ends: it goes on to its loop or stops for    *)
(* want of a shield.  Otherwise it asks for ever for a network, as a       *)
(* station, of a module that is an access point only, because an answer    *)
(* was lost, or a restart or five unanswered ATs kept reset's CWMODE=1     *)
(* from it.                                                                *)
Missed == lost > 0 \/ restarts > 0 \/ tries = 5

SetupEnds ==
  (sketch \in Examples) => (<>(at = stopped \/ SetUp) \/ <>[](now.mode = 2 /\ Missed))
=============================================================================
