----------------------------- MODULE EspWiFiProofs -----------------------------
(***************************************************************************)
(* Proofs about EspWiFi: the inductive invariant IInv, and from it that    *)
(* what the driver remembers of the module agrees with the module and that *)
(* no query is answered from memory, for every number of lost answers,     *)
(* restarts and calls; then OnCourse, and that the examples' setups end in *)
(* a module that is ready.                                                 *)
(***************************************************************************)
EXTENDS EspWiFi, SequenceTheorems, TLAPS

-----------------------------------------------------------------------------
(* The module.                                                             *)

(* What a command sets, and what it leaves alone (Set). *)
LEMMA SetEffect ==
  ASSUME NEW s \in Settings, NEW c \in Commands, WellFormed(c)
  PROVE  /\ Set(c, s) \in Settings
         /\ Set(c, s).mode = IF c.name = "CWMODE" THEN c.args[1] ELSE s.mode
         /\ Set(c, s).auto = (s.auto /\ c.name # "CWAUTOCONN")
         /\ c.name # "CWDHCP" => Set(c, s).dhcp = s.dhcp
         /\ c.name \notin {"CWDHCP", "CIPSTA", "CIPAP"} => Set(c, s).fixed = s.fixed
<1>1. CASE c.name = "CWMODE"
  BY <1>1 DEF Set, Settings, WellFormed
<1>2. CASE c.name = "CWDHCP"
  <2>1. c.args[1] \in 0 .. 2 /\ c.args[2] \in 0 .. 1
    BY <1>2 DEF WellFormed
  <2>2. DhcpOf(c.args[1]) \subseteq Interfaces
    BY <2>1 DEF DhcpOf, Interfaces
  <2>3. CASE c.args[2] = 1
    <3>1. Set(c, s) = [s EXCEPT !.dhcp = @ \cup DhcpOf(c.args[1]),
                                !.fixed = @ \ (DhcpOf(c.args[1]) \ {"ap"})]
      BY <1>2, <2>3 DEF Set
    <3>2. /\ s.dhcp \cup DhcpOf(c.args[1]) \in SUBSET Interfaces
          /\ s.fixed \ (DhcpOf(c.args[1]) \ {"ap"}) \in SUBSET Interfaces
      BY <2>2 DEF Settings
    <3>3. QED
      BY <1>2, <3>1, <3>2 DEF Settings
  <2>4. CASE c.args[2] = 0
    <3>1. Set(c, s) = [s EXCEPT !.dhcp = @ \ DhcpOf(c.args[1])]
      BY <1>2, <2>4 DEF Set
    <3>2. QED
      BY <1>2, <2>2, <3>1 DEF Settings
  <2>5. QED
    BY <2>1, <2>3, <2>4
<1>3. CASE c.name \in {"CIPSTA", "CIPAP"}
  BY <1>3 DEF Set, Settings, Interfaces
<1>4. CASE c.name \in {"CWAUTOCONN", "CWJAP"}
  BY <1>4 DEF Set, Settings, WellFormed
<1>5. CASE c.name \notin {"CWMODE", "CWDHCP", "CIPSTA", "CIPAP", "CWAUTOCONN", "CWJAP"}
  BY <1>5 DEF Set, Settings
<1>6. QED
  BY <1>1, <1>2, <1>3, <1>4, <1>5

(* What a command that is sent does: it is carried out or nothing changes, *)
(* and it is carried out if it is answered OK, or if it cannot fail and is *)
(* answered (Send).                                                        *)
LEMMA SendEffect ==
  ASSUME NEW c, NEW answer, Send(c, answer)
  PROVE  /\ hasCur' = hasCur
         /\ clean' = (clean /\ answer # "timeout")
         /\ NotDone \/ (~Impossible(c) /\ Execute(c))
         /\ answer = "OK" => ~Impossible(c) /\ Execute(c)
         /\ (clean' /\ answer \in Answers /\ ~Impossible(c) /\ ~MayFail(c)) => Execute(c)
  BY DEF Send, Answers

(* A module that carries out a command (Execute). *)
LEMMA ExecuteEffect ==
  ASSUME ModuleType, NEW c \in Commands, WellFormed(c), Execute(c)
  PROVE  /\ now' \in Settings /\ flash' \in Settings /\ joined' \in Networks \cup {None}
         /\ options' \subseteq {"CIPMUX", "CIPDINFO"}
         /\ flash' = IF c.cur THEN flash ELSE Set(c, flash)
         /\ now' = IF c.name = "RST" THEN flash ELSE Set(c, now)
<1>1. flash' = IF c.cur THEN flash ELSE Set(c, flash)
  BY DEF Execute
<1>2. flash' \in Settings
  BY <1>1, SetEffect DEF ModuleType
<1>3. CASE c.name = "RST"
  BY <1>1, <1>2, <1>3 DEF Execute, StartUp, ModuleType, Settings
<1>4. CASE c.name # "RST"
  <2>1. /\ now' = Set(c, now)
        /\ options' = options \cup ({c.name} \cap {"CIPMUX", "CIPDINFO"})
        /\ joined' = CASE c.name = "CWJAP" -> c.args[1]
                       [] c.name = "CWQAP" -> None
                       [] OTHER -> IF "sta" \in On(now'.mode) THEN joined ELSE None
    BY <1>4 DEF Execute
  <2>2. joined' \in Networks \cup {None}
    BY <2>1 DEF ModuleType, WellFormed
  <2>3. now' \in Settings
    BY <2>1, SetEffect DEF ModuleType
  <2>4. QED
    BY <1>1, <1>2, <1>4, <2>1, <2>2, <2>3 DEF ModuleType
<1>5. QED
  BY <1>3, <1>4

(* What a command that is sent leaves as it was, carried out or not. *)
LEMMA SendKeeps ==
  ASSUME ModuleType, clean \in BOOLEAN,
         NEW c \in Commands, WellFormed(c), NEW answer \in Answers, Send(c, answer)
  PROVE  /\ ModuleType' /\ clean' \in BOOLEAN
         /\ c.cur => flash' = flash
         /\ c.name \notin {"RST", "CWMODE"} => now'.mode = now.mode
         /\ c.name \notin {"RST", "CWDHCP"} => now'.dhcp = now.dhcp
         /\ c.name \notin {"RST", "CWDHCP", "CIPSTA", "CIPAP"} => now'.fixed = now.fixed
         /\ c.name # "CWMODE" => flash'.mode = flash.mode
         /\ flash'.auto => flash.auto
<1>1. hasCur' \in BOOLEAN /\ clean' \in BOOLEAN
  BY DEF Send, ModuleType
<1>2. busy' \in 0 .. MaxBusy /\ lost' \in 0 .. MaxLost
  BY WiFiBounds DEF Send, ModuleType
<1>3. NotDone \/ Execute(c)
  BY SendEffect
<1>4. CASE NotDone
  BY <1>1, <1>2, <1>4 DEF NotDone, ModuleType
<1>5. CASE Execute(c)
  <2>1. /\ now' \in Settings /\ flash' \in Settings /\ joined' \in Networks \cup {None}
        /\ options' \subseteq {"CIPMUX", "CIPDINFO"}
        /\ flash' = IF c.cur THEN flash ELSE Set(c, flash)
        /\ now' = IF c.name = "RST" THEN flash ELSE Set(c, now)
    BY <1>5, ExecuteEffect
  <2>2. now \in Settings /\ flash \in Settings
    BY DEF ModuleType
  <2>3. ModuleType'
    BY <1>1, <1>2, <2>1 DEF ModuleType
  <2>4. c.name # "CWMODE" => flash'.mode = flash.mode
    BY <2>1, <2>2, SetEffect
  <2>5. flash'.auto => flash.auto
    BY <2>1, <2>2, SetEffect
  <2>6. c.name # "RST" => now' = Set(c, now)
    BY <2>1
  <2>7. QED
    BY <1>1, <2>1, <2>2, <2>3, <2>4, <2>5, <2>6, SetEffect
<1>6. QED
  BY <1>3, <1>4, <1>5

(* A call that returns leaves the sketch at a place of its program. *)
LEMMA ReturnType ==
  ASSUME at \in Nat, NEW c, NEW value, Return(c, value)
  PROVE  at' \in Nat /\ pc' = "idle" /\ sketch' = sketch
<1>1. After(c, value) \in {stopped, at, 4, 2, at + 1}
  BY Zenon DEF After
<1>2. stopped \in Nat /\ 4 \in Nat /\ 2 \in Nat /\ at + 1 \in Nat
  BY DEF stopped
<1>3. at' \in Nat
  BY <1>1, <1>2, Zenon DEF Return
<1>4. QED
  BY <1>3 DEF Return

(* The commands about addresses: what they do to those of an interface. *)
LEMMA AddressEffect ==
  ASSUME NEW s \in Settings, NEW c \in Commands, WellFormed(c)
  PROVE  /\ (c.name = "CWDHCP" /\ c.args[2] = 0) =>
              Set(c, s).fixed = s.fixed /\ Set(c, s).dhcp = s.dhcp \ DhcpOf(c.args[1])
         /\ (c.name = "CWDHCP" /\ c.args[2] = 1) =>
              /\ Set(c, s).fixed = s.fixed \ (DhcpOf(c.args[1]) \ {"ap"})
              /\ Set(c, s).dhcp = s.dhcp \cup DhcpOf(c.args[1])
         /\ c.name = "CIPSTA" => Set(c, s).fixed = s.fixed \cup {"sta"}
         /\ c.name = "CIPAP" => Set(c, s).fixed = s.fixed \cup {"ap"}
<1>1. CASE c.name = "CWDHCP" /\ c.args[2] = 0
  <2>1. Set(c, s) = [s EXCEPT !.dhcp = @ \ DhcpOf(c.args[1])]
    BY <1>1 DEF Set
  <2>2. QED
    BY <1>1, <2>1 DEF Settings
<1>2. CASE c.name = "CWDHCP" /\ c.args[2] = 1
  <2>1. Set(c, s) = [s EXCEPT !.dhcp = @ \cup DhcpOf(c.args[1]),
                              !.fixed = @ \ (DhcpOf(c.args[1]) \ {"ap"})]
    BY <1>2 DEF Set
  <2>2. QED
    BY <1>2, <2>1 DEF Settings
<1>3. CASE c.name \in {"CIPSTA", "CIPAP"}
  BY <1>3 DEF Set, Settings
<1>4. QED
  BY <1>1, <1>2, <1>3

-----------------------------------------------------------------------------
(* The steps that send nothing, and those that send one command of their   *)
(* own.                                                                    *)

(* The commands are commands. *)
LEMMA CmdType ==
  ASSUME NEW name \in Names, NEW args \in Seq(Nat), NEW cur \in BOOLEAN
  PROVE  Cmd(name, args, cur) \in Commands
  BY DEF Cmd, Commands

LEMMA ResetCommandsType ==
  /\ ResetCommands \in Seq(Commands) /\ Len(ResetCommands) = 7
  /\ \A i \in 1 .. 7 : WellFormed(ResetCommands[i])
<1>1. <<>> \in Seq(Nat) /\ <<0>> \in Seq(Nat) /\ <<1>> \in Seq(Nat) /\ <<1, 1>> \in Seq(Nat)
  OBVIOUS
<1>2. \A name \in Names, args \in Seq(Nat) : Cmd(name, args, FALSE) \in Commands
  BY CmdType
<1>3. /\ Cmd("RST", <<>>, FALSE) \in Commands /\ Cmd("ATE0", <<>>, FALSE) \in Commands
      /\ Cmd("CWMODE", <<1>>, FALSE) \in Commands /\ Cmd("CIPMUX", <<1>>, FALSE) \in Commands
      /\ Cmd("CIPDINFO", <<1>>, FALSE) \in Commands
      /\ Cmd("CWAUTOCONN", <<0>>, FALSE) \in Commands
      /\ Cmd("CWDHCP", <<1, 1>>, FALSE) \in Commands
  BY <1>1, <1>2, Zenon DEF Names
<1>4. ResetCommands \in Seq(Commands) /\ Len(ResetCommands) = 7
  <2>1. ASSUME NEW S, NEW a \in S, NEW b \in S, NEW c \in S, NEW d \in S,
               NEW e \in S, NEW f \in S, NEW g \in S
        PROVE  <<a, b, c, d, e, f, g>> \in Seq(S) /\ Len(<<a, b, c, d, e, f, g>>) = 7
    OBVIOUS
  <2>2. QED
    BY <1>3, <2>1, Zenon DEF ResetCommands
<1>5. \A i \in 1 .. 7 : WellFormed(ResetCommands[i])
  BY DEF ResetCommands, WellFormed, Cmd
<1>6. QED
  BY <1>4, <1>5

(* reset sends them one by one. *)
LEMMA ResetRestSteps ==
  ASSUME NEW k \in 1 .. 7
  PROVE  /\ Head(ResetRest(k)) = ResetCommands[k]
         /\ Tail(ResetRest(k)) = ResetRest(k + 1)
         /\ ResetRest(k + 1) # <<>> <=> k < 7
<1>1. ResetCommands \in Seq(Commands) /\ Len(ResetCommands) = 7
  BY ResetCommandsType
<1>2. Head(ResetRest(k)) = ResetCommands[k] /\ Tail(ResetRest(k)) = ResetRest(k + 1)
  BY <1>1, HeadTailOfSubSeq DEF ResetRest
<1>3. Len(ResetRest(k + 1)) = 7 - k
  <2>1. \A i \in 1 .. 7 : ResetCommands[i] \in Commands
    BY <1>1, ElementOfSeq
  <2>2. \A i \in k + 1 .. 7 : i \in 1 .. 7
    OBVIOUS
  <2>3. QED
    BY <1>1, <2>1, <2>2, SubSeqProperties DEF ResetRest
<1>4. k = 7 => ResetRest(k + 1) = <<>>
  BY <1>1, SubSeqEmpty DEF ResetRest
<1>5. QED
  BY <1>2, <1>3, <1>4

-----------------------------------------------------------------------------
(* The inductive invariant: at the start, and step by step.                *)

LEMMA InitInv == Init => IInv
<1> SUFFICES ASSUME Init PROVE IInv
  OBVIOUS
<1>1. flash \in Settings /\ now \in Settings
  <2>1. Interfaces \ {"sta"} \in SUBSET Interfaces /\ Interfaces \cap {"sta"} \in SUBSET Interfaces
    OBVIOUS
  <2>2. Interfaces \ {None} \in SUBSET Interfaces /\ Interfaces \cap {None} \in SUBSET Interfaces
    OBVIOUS
  <2>3. Start(1, "sta", "long") \in Settings
    BY <2>1 DEF Start, Settings, Networks
  <2>4. Start(2, None, None) \in Settings
    BY <2>2 DEF Start, Settings
  <2>5. QED
    BY <2>3, <2>4 DEF Init
<1>2. joined \in Networks \cup {None}
  BY <1>1 DEF Init, Settings
<1>3. busy \in 0 .. MaxBusy
  BY WiFiBounds DEF Init
<1>4. TypeOK
  <2>1. ModuleType
    BY <1>1, <1>2, <1>3, WiFiBounds DEF Init, ModuleType
  <2>2. DriverType
    BY DEF Init, DriverType, Caches, Networks
  <2>3. TodoType
    BY DEF Init, TodoType
  <2>4. HistoryType
    <3>1. clean = TRUE /\ up = None /\ begun = FALSE /\ want = {} /\ kept = FALSE /\ restarts = 0
      BY DEF Init
    <3>2. restarts \in 0 .. MaxRestarts
      BY <3>1, WiFiBounds
    <3>3. QED
      BY <3>1, <3>2 DEF HistoryType
  <2>5. QED
    BY <2>1, <2>2, <2>3, <2>4 DEF TypeOK
<1>5. QED
  BY <1>4 DEF Init, IInv, WithinCall, InterfaceAsked, FormKnown, AddressHolds, NoAutoStart

(* The module restarts by itself: what the driver was doing goes on, with  *)
(* nothing expected of the module any more. *)
LEMMA RestartStep == IInv /\ Restart => IInv'
<1> SUFFICES ASSUME IInv, Restart PROVE IInv'
  OBVIOUS
<1>1. ModuleType /\ DriverType /\ TodoType /\ HistoryType
  BY DEF IInv, TypeOK
<1>2. ModuleType'
  BY <1>1, WiFiBounds DEF Restart, StartUp, ModuleType, Settings
<1>3. TypeOK'
  <2>1. restarts' \in 0 .. MaxRestarts
    BY <1>1, WiFiBounds DEF Restart, HistoryType
  <2>2. DriverType' /\ TodoType'
    BY <1>1 DEF Restart, drvVars, ctlVars, DriverType, TodoType
  <2>3. HistoryType'
    BY <1>1, <2>1 DEF Restart, HistoryType
  <2>4. QED
    BY <1>2, <2>2, <2>3 DEF TypeOK
<1>4. /\ UNCHANGED <<hasCur, flash, drvVars, ctlVars, begun, kept>>
      /\ clean' = FALSE /\ up' = None /\ want' = {}
  BY DEF Restart
<1>5. BeginningAP => BeginningAP'
  BY <1>4 DEF BeginningAP, drvVars, ctlVars
<1>6. Resetting => Resetting'
  BY <1>4 DEF Resetting, ctlVars
<1>7. Configuring => Configuring'
  BY <1>4 DEF Configuring, Taking, drvVars, ctlVars
<1>8. ConfiguringAP => ConfiguringAP'
  BY <1>4 DEF ConfiguringAP, Taking, drvVars, ctlVars
<1>9. WithinCall'
  BY <1>4, <1>5, <1>6, <1>7, <1>8 DEF IInv, WithinCall, drvVars, ctlVars
<1>10. QED
  BY <1>3, <1>4, <1>9 DEF IInv, InterfaceAsked, FormKnown, AddressHolds, NoAutoStart,
                          drvVars, ctlVars

(* The access point goes away. *)
LEMMA LoseNetworkStep == IInv /\ LoseNetwork => IInv'
<1> SUFFICES ASSUME IInv, LoseNetwork PROVE IInv'
  OBVIOUS
<1>1. joined' = None
  BY DEF LoseNetwork
<1>2. UNCHANGED <<hasCur, now, flash, options, busy, lost, drvVars, ctlVars, hist,
                  clean, restarts>>
  BY DEF LoseNetwork
<1>3. TypeOK'
  <2>1. ModuleType'
    BY <1>1, <1>2 DEF IInv, TypeOK, ModuleType
  <2>2. DriverType' /\ TodoType'
    BY <1>2 DEF drvVars, ctlVars, IInv, TypeOK, DriverType, TodoType
  <2>3. HistoryType'
    BY <1>2 DEF hist, IInv, TypeOK, HistoryType
  <2>4. QED
    BY <2>1, <2>2, <2>3 DEF TypeOK
<1>4. WithinCall'
  BY <1>2 DEF drvVars, ctlVars, hist, IInv, WithinCall, BeginningAP, Resetting,
              Configuring, ConfiguringAP, Taking
<1>5. QED
  BY <1>2, <1>3, <1>4 DEF drvVars, ctlVars, hist, IInv, InterfaceAsked, FormKnown,
                          AddressHolds, NoAutoStart

(* The beginning of a call (Begin): the module is as it was, and so is the *)
(* driver but for its place.                                               *)
LEMMA BeginEffect ==
  ASSUME IInv, NEW c, NEW first, Begin(c, first)
  PROVE  /\ pc = "idle" /\ pc' = first /\ call' = c /\ clean' = TRUE
         /\ UNCHANGED <<hasCur, now, flash, joined, options, busy, lost, restarts, sketch, at>>
         /\ ModuleType' /\ DriverType /\ TodoType /\ HistoryType
<1>1. /\ pc = "idle" /\ pc' = first /\ call' = c /\ clean' = TRUE
      /\ UNCHANGED <<hasCur, now, flash, joined, options, busy, lost, restarts, sketch, at>>
  BY DEF Begin, Calling, espVars
<1>2. ModuleType'
  BY <1>1 DEF IInv, TypeOK, ModuleType
<1>3. QED
  BY <1>1, <1>2 DEF IInv, TypeOK

(* The calls that begin by forgetting what was brought up and set: init    *)
(* and reset.                                                              *)
LEMMA InitStep == IInv /\ wifiDriverInit => IInv'
<1> SUFFICES ASSUME IInv, wifiDriverInit PROVE IInv'
  OBVIOUS
<1>1. /\ Begin("init", "AT") /\ tries' = 0 /\ up' = None /\ want' = {} /\ kept' = FALSE
      /\ UNCHANGED <<espMode, curMode, cache, net, todo, begun>>
  BY DEF wifiDriverInit, drvVars
<1>2. /\ pc = "idle" /\ pc' = "AT" /\ call' = "init" /\ clean' = TRUE
      /\ UNCHANGED <<hasCur, now, flash, restarts, sketch, at>>
      /\ ModuleType' /\ DriverType /\ TodoType /\ HistoryType
  BY <1>1, BeginEffect
<1>3. TypeOK'
  <2>1. DriverType'
    BY <1>1, <1>2 DEF DriverType
  <2>2. TodoType'
    BY <1>1, <1>2 DEF TodoType
  <2>3. HistoryType'
    BY <1>1, <1>2 DEF HistoryType
  <2>4. QED
    BY <1>2, <2>1, <2>2, <2>3 DEF TypeOK
<1>4. WithinCall'
  BY <1>1, <1>2 DEF WithinCall, Resetting
<1>5. FormKnown'
  BY <1>1, <1>2 DEF IInv, FormKnown
<1>6. QED
  BY <1>1, <1>3, <1>4, <1>5 DEF IInv, InterfaceAsked, AddressHolds, NoAutoStart

(* The whole of reset's commands is the first of its rests. *)
LEMMA AllOfReset == ResetCommands = ResetRest(1) /\ 1 \in DOMAIN ResetCommands
                    /\ DOMAIN ResetCommands = 1 .. 7
  BY ResetCommandsType, SubSeqFull DEF ResetRest

LEMMA ResetStep == IInv /\ reset => IInv'
<1> SUFFICES ASSUME IInv, reset PROVE IInv'
  OBVIOUS
<1>1. /\ Begin("reset", "todo") /\ todo' = ResetCommands
      /\ up' = None /\ want' = {} /\ kept' = FALSE
      /\ UNCHANGED <<espMode, curMode, cache, net, tries, begun>>
  BY DEF reset, drvVars
<1>2. /\ pc = "idle" /\ pc' = "todo" /\ call' = "reset" /\ clean' = TRUE
      /\ UNCHANGED <<hasCur, now, flash, restarts, sketch, at>>
      /\ ModuleType' /\ DriverType /\ TodoType /\ HistoryType
  BY <1>1, BeginEffect
<1>3. TypeOK'
  <2>1. DriverType'
    BY <1>1, <1>2 DEF DriverType
  <2>2. TodoType'
    BY <1>1, ResetCommandsType, AllOfReset DEF TodoType
  <2>3. HistoryType'
    BY <1>1, <1>2 DEF HistoryType
  <2>4. QED
    BY <1>2, <2>1, <2>2, <2>3 DEF TypeOK
<1>4. WithinCall'
  BY <1>1, <1>2, AllOfReset DEF WithinCall, Resetting
<1>5. FormKnown'
  BY <1>1, <1>2 DEF IInv, FormKnown
<1>6. QED
  BY <1>1, <1>3, <1>4, <1>5 DEF IInv, InterfaceAsked, AddressHolds, NoAutoStart

(* begin and beginAP set espMode and give up the interface they had. *)
LEMMA BeginStep == IInv /\ begin => IInv'
<1> SUFFICES ASSUME IInv, begin PROVE IInv'
  OBVIOUS
<1>1. /\ Begin("begin", "CWJAP_CUR") /\ espMode' = 1 /\ up' = None
      /\ net' \in Networks
      /\ UNCHANGED <<curMode, cache, todo, tries, begun, want, kept>>
  BY DEF begin, Networks
<1>2. /\ pc = "idle" /\ pc' = "CWJAP_CUR" /\ call' = "begin" /\ clean' = TRUE
      /\ UNCHANGED <<hasCur, now, flash, restarts, sketch, at>>
      /\ ModuleType' /\ DriverType /\ TodoType /\ HistoryType
  BY <1>1, BeginEffect
<1>3. TypeOK'
  <2>1. DriverType'
    BY <1>1, <1>2 DEF DriverType
  <2>2. TodoType'
    BY <1>1, <1>2 DEF TodoType
  <2>3. HistoryType'
    BY <1>1, <1>2 DEF HistoryType
  <2>4. QED
    BY <1>2, <2>1, <2>2, <2>3 DEF TypeOK
<1>4. WithinCall' /\ FormKnown'
  BY <1>1, <1>2 DEF IInv, WithinCall, FormKnown
<1>5. QED
  BY <1>1, <1>2, <1>3, <1>4 DEF IInv, InterfaceAsked, AddressHolds, NoAutoStart

LEMMA BeginAPStep == ASSUME IInv, NEW apOnly \in BOOLEAN, beginAP(apOnly) PROVE IInv'
<1>1. /\ Begin("beginAP", "CWMODE_CUR") /\ espMode' = (IF apOnly THEN 2 ELSE 3)
      /\ up' = None /\ want' = (IF apOnly THEN want ELSE want \ {"sta"})
      /\ UNCHANGED <<curMode, cache, net, todo, tries, begun, kept>>
  BY DEF beginAP
<1>2. /\ pc = "idle" /\ pc' = "CWMODE_CUR" /\ call' = "beginAP" /\ clean' = TRUE
      /\ UNCHANGED <<hasCur, now, flash, restarts, sketch, at>>
      /\ ModuleType' /\ DriverType /\ TodoType /\ HistoryType
  BY <1>1, BeginEffect
<1>3. TypeOK'
  <2>1. DriverType'
    BY <1>1, <1>2 DEF DriverType
  <2>2. TodoType'
    BY <1>1, <1>2 DEF TodoType
  <2>3. HistoryType'
    BY <1>1, <1>2 DEF HistoryType
  <2>4. QED
    BY <1>2, <2>1, <2>2, <2>3 DEF TypeOK
<1>4. WithinCall'
  BY <1>1, <1>2 DEF WithinCall, BeginningAP
<1>5. FormKnown'
  BY <1>1, <1>2 DEF IInv, FormKnown
<1>6. AddressHolds' /\ InterfaceAsked' /\ NoAutoStart' /\ (kept' => curMode')
  BY <1>1, <1>2 DEF IInv, InterfaceAsked, AddressHolds, NoAutoStart
<1>7. QED
  BY <1>3, <1>4, <1>5, <1>6 DEF IInv

(* disconnect and ping change nothing the driver remembers. *)
LEMMA PlainBeginStep == IInv /\ (disconnect \/ ping) => IInv'
<1> SUFFICES ASSUME IInv, disconnect \/ ping PROVE IInv'
  OBVIOUS
<1>1. PICK c \in {"disconnect", "ping"}, first \in {"CWQAP", "PING"} :
        /\ Begin(c, first) /\ (c = "disconnect" <=> first = "CWQAP")
        /\ UNCHANGED <<espMode, curMode, cache, net, todo, tries, up, begun, want, kept>>
  BY DEF disconnect, ping, drvVars, hist
<1>2. /\ pc = "idle" /\ pc' = first /\ call' = c /\ clean' = TRUE
      /\ UNCHANGED <<hasCur, now, flash, restarts, sketch, at>>
      /\ ModuleType' /\ DriverType /\ TodoType /\ HistoryType
  BY <1>1, BeginEffect
<1>3. TypeOK'
  <2>1. DriverType'
    BY <1>1, <1>2 DEF DriverType
  <2>2. TodoType'
    BY <1>1, <1>2 DEF TodoType
  <2>3. HistoryType'
    BY <1>1, <1>2 DEF HistoryType
  <2>4. QED
    BY <1>2, <2>1, <2>2, <2>3 DEF TypeOK
<1>4. WithinCall' /\ FormKnown'
  BY <1>1, <1>2 DEF IInv, WithinCall, FormKnown
<1>5. QED
  BY <1>1, <1>2, <1>3, <1>4 DEF IInv, InterfaceAsked, AddressHolds, NoAutoStart

(* config and configAP: their commands, in the form of _curMode. *)
LEMMA ConfigStep == IInv /\ config => IInv'
<1> SUFFICES ASSUME IInv, config PROVE IInv'
  OBVIOUS
<1> DEFINE c1 == Cmd("CWDHCP", <<1, 0>>, curMode)
           c2 == Cmd("CIPSTA", <<>>, curMode)
<1>1. /\ Begin("config", "todo") /\ todo' = <<c1, c2>>
      /\ UNCHANGED <<espMode, curMode, cache, net, tries, up, begun, want, kept>>
  BY DEF config, drvVars, hist
<1>2. /\ pc = "idle" /\ pc' = "todo" /\ call' = "config" /\ clean' = TRUE
      /\ UNCHANGED <<hasCur, now, flash, restarts, sketch, at>>
      /\ ModuleType' /\ DriverType /\ TodoType /\ HistoryType
  BY <1>1, BeginEffect
<1>3. /\ c1 \in Commands /\ c1.name = "CWDHCP" /\ c1.args = <<1, 0>> /\ c1.cur = curMode
      /\ c2 \in Commands /\ c2.name = "CIPSTA" /\ c2.cur = curMode
  <2>1. <<1, 0>> \in Seq(Nat) /\ <<>> \in Seq(Nat) /\ curMode \in BOOLEAN
    BY <1>2 DEF DriverType
  <2>2. "CWDHCP" \in Names /\ "CIPSTA" \in Names
    BY DEF Names
  <2>3. c1 \in Commands /\ c2 \in Commands
    BY <2>1, <2>2, CmdType
  <2>4. QED
    BY <2>3 DEF Cmd
<1> HIDE DEF c1, c2
<1>4. /\ <<c1, c2>> \in Seq(Commands) /\ Len(<<c1, c2>>) = 2 /\ DOMAIN <<c1, c2>> = {1, 2}
      /\ <<c1, c2>>[1] = c1 /\ <<c1, c2>>[2] = c2 /\ <<c1, c2>> # <<>>
  BY <1>3
<1>5. TypeOK'
  <2>1. DriverType'
    BY <1>1, <1>2 DEF DriverType
  <2>2. TodoType'
    <3>1. WellFormed(c1) /\ WellFormed(c2)
      BY <1>3 DEF WellFormed
    <3>2. QED
      BY <1>1, <1>4, <3>1 DEF TodoType
  <2>3. HistoryType'
    BY <1>1, <1>2 DEF HistoryType
  <2>4. QED
    BY <1>2, <2>1, <2>2, <2>3 DEF TypeOK
<1>6. Configuring'
  BY <1>1, <1>2, <1>3, <1>4 DEF Configuring
<1>7. WithinCall' /\ FormKnown'
  BY <1>1, <1>2, <1>6 DEF IInv, WithinCall, FormKnown
<1>8. QED
  BY <1>1, <1>2, <1>5, <1>7 DEF IInv, InterfaceAsked, AddressHolds, NoAutoStart

LEMMA ConfigAPStep == IInv /\ configAP => IInv'
<1> SUFFICES ASSUME IInv, configAP PROVE IInv'
  OBVIOUS
<1> DEFINE c1 == Cmd("CWMODE", <<2>>, curMode)
           c2 == Cmd("CWDHCP", <<2, 0>>, curMode)
           c3 == Cmd("CIPAP", <<>>, curMode)
<1>1. /\ Begin("configAP", "todo") /\ todo' = <<c1, c2, c3>>
      /\ up' = None /\ want' = want \ {"sta"}
      /\ UNCHANGED <<espMode, curMode, cache, net, tries, begun, kept>>
  BY DEF configAP, drvVars
<1>2. /\ pc = "idle" /\ pc' = "todo" /\ call' = "configAP" /\ clean' = TRUE
      /\ UNCHANGED <<hasCur, now, flash, restarts, sketch, at>>
      /\ ModuleType' /\ DriverType /\ TodoType /\ HistoryType
  BY <1>1, BeginEffect
<1>3. /\ c1 \in Commands /\ c1.name = "CWMODE" /\ c1.args = <<2>> /\ c1.cur = curMode
      /\ c2 \in Commands /\ c2.name = "CWDHCP" /\ c2.args = <<2, 0>> /\ c2.cur = curMode
      /\ c3 \in Commands /\ c3.name = "CIPAP" /\ c3.cur = curMode
  <2>1. <<2>> \in Seq(Nat) /\ <<2, 0>> \in Seq(Nat) /\ <<>> \in Seq(Nat) /\ curMode \in BOOLEAN
    BY <1>2 DEF DriverType
  <2>2. "CWMODE" \in Names /\ "CWDHCP" \in Names /\ "CIPAP" \in Names
    BY DEF Names
  <2>3. c1 \in Commands /\ c2 \in Commands /\ c3 \in Commands
    BY <2>1, <2>2, CmdType
  <2>4. QED
    BY <2>3 DEF Cmd
<1> HIDE DEF c1, c2, c3
<1>4. /\ <<c1, c2, c3>> \in Seq(Commands) /\ Len(<<c1, c2, c3>>) = 3
      /\ DOMAIN <<c1, c2, c3>> = {1, 2, 3} /\ <<c1, c2, c3>> # <<>>
      /\ <<c1, c2, c3>>[1] = c1 /\ <<c1, c2, c3>>[2] = c2 /\ <<c1, c2, c3>>[3] = c3
  BY <1>3
<1>5. TypeOK'
  <2>1. DriverType'
    BY <1>1, <1>2 DEF DriverType
  <2>2. TodoType'
    <3>1. WellFormed(c1) /\ WellFormed(c2) /\ WellFormed(c3)
      BY <1>3 DEF WellFormed
    <3>2. QED
      BY <1>1, <1>4, <3>1 DEF TodoType
  <2>3. HistoryType'
    BY <1>1, <1>2 DEF HistoryType
  <2>4. QED
    BY <1>2, <2>1, <2>2, <2>3 DEF TypeOK
<1>6. ConfiguringAP'
  BY <1>1, <1>2, <1>3, <1>4 DEF ConfiguringAP
<1>7. WithinCall' /\ FormKnown'
  BY <1>1, <1>2, <1>6 DEF IInv, WithinCall, FormKnown
<1>8. QED
  BY <1>1, <1>2, <1>5, <1>7 DEF IInv, InterfaceAsked, AddressHolds, NoAutoStart

(* A query (Query): one question, after which nothing of the module's      *)
(* settings or of what is expected of it has changed.                      *)
LEMMA AskEffect ==
  ASSUME ModuleType, NEW truth, NEW answer, Ask(truth, answer)
  PROVE  ModuleType' /\ UNCHANGED <<hasCur, now, flash>>
<1>1. busy' \in 0 .. MaxBusy /\ lost' \in 0 .. MaxLost
  BY WiFiBounds DEF Ask, ModuleType
<1>2. QED
  BY <1>1 DEF Ask, NotDone, ModuleType

LEMMA QuietStep ==
  ASSUME IInv, UNCHANGED <<espMode, curMode, net, todo, tries, hist, restarts>>,
         pc = "idle", clean' = clean,
         ModuleType', UNCHANGED <<hasCur, now, flash>>,
         cache' \in Caches,
         NEW c, NEW value, Return(c, value)
  PROVE  IInv'
<1>1. at' \in Nat /\ pc' = "idle" /\ sketch' = sketch
  BY ReturnType DEF IInv, TypeOK, DriverType
<1>2. TypeOK'
  <2>1. DriverType'
    BY <1>1 DEF IInv, TypeOK, DriverType
  <2>2. TodoType'
    BY <1>1 DEF IInv, TypeOK, TodoType
  <2>3. HistoryType'
    BY DEF hist, IInv, TypeOK, HistoryType
  <2>4. QED
    BY <2>1, <2>2, <2>3 DEF TypeOK
<1>3. QED
  BY <1>1, <1>2 DEF hist, IInv, WithinCall, InterfaceAsked, FormKnown, AddressHolds, NoAutoStart

LEMMA QueriesStep == IInv /\ Queries => IInv'
<1> SUFFICES ASSUME IInv, Queries PROVE IInv'
  OBVIOUS
<1> DEFINE CacheType == cache' \in Caches
<1>1. ModuleType /\ cache \in Caches
  BY DEF IInv, TypeOK, DriverType
<1>2. ASSUME NEW c, NEW question, NEW answer, Query(c, question, answer), CacheType,
             \E value : Return(c, value)
      PROVE  IInv'
  <2>1. /\ UNCHANGED <<espMode, curMode, net, todo, tries, hist, clean, restarts>> /\ pc = "idle"
        /\ Ask(Truth(question), answer)
    BY <1>2 DEF Query, Asking, Calling
  <2>2. ModuleType' /\ UNCHANGED <<hasCur, now, flash>>
    BY <1>1, <2>1, AskEffect
  <2>3. QED
    BY <1>2, <2>1, <2>2, QuietStep
<1>3. CASE getCurrentSSID
  <2>1. PICK answer \in Networks \cup {None} :
          /\ Query("SSID", "SSID", answer)
          /\ cache' = Copy(answer)
          /\ Return("SSID", cache'.ssid)
    BY <1>3 DEF getCurrentSSID
  <2>2. CacheType
    BY <1>1, <2>1 DEF Copy, Caches
  <2>3. QED
    BY <1>2, <2>1, <2>2
<1>4. CASE getCurrentBSSID
  <2>1. PICK answer \in Networks \cup {None} :
          /\ Query("BSSID", "BSSID", answer)
          /\ \E copied \in Copied(answer) : cache' = [cache EXCEPT !.bssid = copied]
          /\ Return("BSSID", cache'.bssid)
    BY <1>4 DEF getCurrentBSSID
  <2>2. CacheType
    BY <1>1, <2>1 DEF Copied, Caches
  <2>3. QED
    BY <1>2, <2>1, <2>2
<1>5. CASE \/ getCurrentRSSI \/ getFwVersion \/ getMacAddress \/ localIP \/ getConnectionStatus
  <2>1. \E c, question, answer : Query(c, question, answer) /\ (\E value : Return(c, value))
                                 /\ cache' = cache
    BY <1>5, Zenon DEF getCurrentRSSI, getFwVersion, getMacAddress, localIP, getConnectionStatus
  <2>2. QED
    BY <1>1, <1>2, <2>1
<1>6. CASE subnetMask \/ gatewayIP
  <2>1. PICK c, answer :
          /\ \/ Query(c, "CIPSTA", answer)
             \/ /\ Asking(c)
                /\ UNCHANGED <<espVars, espMode, curMode, net, todo, tries, hist, clean, restarts>>
          /\ \E value : Return(c, value)
          /\ cache' = cache
    BY <1>6, Zenon DEF subnetMask, gatewayIP
  <2>2. CASE Query(c, "CIPSTA", answer)
    BY <1>1, <1>2, <2>1, <2>2
  <2>3. CASE /\ Asking(c)
             /\ UNCHANGED <<espVars, espMode, curMode, net, todo, tries, hist, clean, restarts>>
    <3>1. pc = "idle"
      BY <2>3 DEF Asking, Calling
    <3>2. ModuleType' /\ UNCHANGED <<hasCur, now, flash>>
      BY <1>1, <2>3 DEF espVars, ModuleType
    <3>3. QED
      BY <1>1, <2>1, <2>3, <3>1, <3>2, QuietStep
  <2>4. QED
    BY <2>1, <2>2, <2>3
<1>7. QED
  BY <1>3, <1>4, <1>5, <1>6 DEF Queries

(* A command of its own, sent and answered (Send). *)
LEMMA OneCommand ==
  ASSUME IInv, NEW name \in Names \ {"RST", "CWMODE", "CWDHCP", "CIPSTA", "CIPAP"},
         NEW args \in Seq(Nat) \cup Seq(Networks), name = "CWJAP" => args[1] \in Networks,
         NEW cur \in BOOLEAN, NEW answer \in Answers,
         Send(Cmd(name, args, cur), answer)
  PROVE  /\ ModuleType' /\ clean' \in BOOLEAN /\ hasCur' = hasCur
         /\ now'.mode = now.mode /\ now'.dhcp = now.dhcp /\ now'.fixed = now.fixed
         /\ cur => flash' = flash
         /\ name # "CWJAP" => /\ flash'.dhcp = flash.dhcp /\ flash'.fixed = flash.fixed
                              /\ flash'.mode = flash.mode /\ (flash'.auto => flash.auto)
         /\ clean' => clean
         /\ answer = "OK" => ~Impossible(Cmd(name, args, cur))
<1> DEFINE c == Cmd(name, args, cur)
<1>1. c \in Commands /\ WellFormed(c) /\ c.name = name /\ c.cur = cur
  BY DEF Cmd, Commands, WellFormed
<1> HIDE DEF c
<1>2. Send(c, answer)
  BY DEF c
<1>3. ModuleType /\ clean \in BOOLEAN
  BY DEF IInv, TypeOK, HistoryType
<1>4. /\ ModuleType' /\ clean' \in BOOLEAN
      /\ now'.mode = now.mode /\ now'.dhcp = now.dhcp /\ now'.fixed = now.fixed
      /\ cur => flash' = flash
      /\ flash'.mode = flash.mode /\ (flash'.auto => flash.auto)
  BY <1>1, <1>2, <1>3, SendKeeps
<1>5. hasCur' = hasCur /\ (clean' => clean) /\ (answer = "OK" => ~Impossible(c))
  BY <1>2, SendEffect
<1>6. flash'.dhcp = flash.dhcp /\ flash'.fixed = flash.fixed
  <2>1. NotDone \/ Execute(c)
    BY <1>2, SendEffect
  <2>2. flash' = flash \/ flash' = Set(c, flash)
    BY <2>1, <1>1, <1>3, ExecuteEffect DEF NotDone
  <2>3. QED
    BY <2>2, <1>1, <1>3, SetEffect DEF ModuleType
<1>7. QED
  BY <1>4, <1>5, <1>6 DEF c

(* init's AT: five at most, and if one is answered reset's commands. *)
LEMMA AttemptStep == IInv /\ attempt => IInv'
<1> SUFFICES ASSUME IInv, attempt PROVE IInv'
  OBVIOUS
<1>1. PICK answer \in Answers :
        /\ Send(Cmd("AT", <<>>, FALSE), answer)
        /\ IF answer = "OK" THEN Goto("todo") /\ todo' = ResetCommands /\ UNCHANGED tries
           ELSE /\ tries' = tries + 1
                /\ IF tries + 1 < 5 THEN Goto("AT") ELSE Return(call, None)
                /\ UNCHANGED todo
  BY DEF attempt
<1>2. pc = "AT" /\ UNCHANGED <<espMode, curMode, cache, net, up, begun, want, kept, call, restarts>>
  BY DEF attempt, drvVars, hist
<1>3. /\ ModuleType' /\ clean' \in BOOLEAN /\ hasCur' = hasCur
      /\ now'.mode = now.mode /\ now'.dhcp = now.dhcp /\ now'.fixed = now.fixed
      /\ flash'.dhcp = flash.dhcp /\ flash'.fixed = flash.fixed
      /\ flash'.mode = flash.mode /\ (flash'.auto => flash.auto)
  <2>1. "AT" \in Names \ {"RST", "CWMODE", "CWDHCP", "CIPSTA", "CIPAP"}
    BY DEF Names
  <2>2. <<>> \in Seq(Nat) \cup Seq(Networks)
    OBVIOUS
  <2>3. QED
    BY <1>1, <2>1, <2>2, OneCommand
<1>4. DriverType /\ TodoType /\ HistoryType /\ Resetting /\ call = "init"
  BY <1>2 DEF IInv, TypeOK, WithinCall
<1>5. /\ sketch' = sketch /\ at' \in Nat
      /\ \/ pc' = "todo" /\ todo' = ResetCommands /\ tries' = tries
         \/ pc' = "AT" /\ todo' = todo /\ tries' = tries + 1 /\ tries + 1 < 5
         \/ pc' = "idle" /\ todo' = todo /\ tries' = tries + 1
  <2>1. at \in Nat
    BY <1>4 DEF DriverType
  <2>2. CASE answer = "OK"
    BY <1>1, <2>1, <2>2 DEF Goto
  <2>3. CASE answer # "OK" /\ tries + 1 < 5
    BY <1>1, <2>1, <2>3 DEF Goto
  <2>4. CASE answer # "OK" /\ ~(tries + 1 < 5)
    BY <1>1, <2>1, <2>4, ReturnType
  <2>5. QED
    BY <2>2, <2>3, <2>4
<1>6. TypeOK'
  <2>1. DriverType'
    BY <1>2, <1>4, <1>5 DEF DriverType
  <2>2. TodoType'
    <3>1. todo' = todo \/ todo' = ResetCommands
      BY <1>5
    <3>2. ResetCommands # <<>> /\ DOMAIN ResetCommands = 1 .. 7
      BY AllOfReset
    <3>3. CASE todo' = ResetCommands
      BY <3>2, <3>3, ResetCommandsType DEF TodoType
    <3>4. CASE todo' = todo
      BY <1>4, <1>5, <3>2, <3>4 DEF TodoType
    <3>5. QED
      BY <3>1, <3>3, <3>4
  <2>3. HistoryType'
    BY <1>2, <1>3, <1>4 DEF HistoryType
  <2>4. QED
    BY <1>3, <2>1, <2>2, <2>3 DEF TypeOK
<1>7. WithinCall'
  BY <1>2, <1>4, <1>5, AllOfReset DEF WithinCall, Resetting
<1>8. QED
  BY <1>2, <1>3, <1>4, <1>5, <1>6, <1>7
     DEF IInv, Resetting, InterfaceAsked, FormKnown, AddressHolds, NoAutoStart

(* The end of init. *)
LEMMA VersionStep == IInv /\ checkVersion => IInv'
<1> SUFFICES ASSUME IInv, checkVersion PROVE IInv'
  OBVIOUS
<1>1. PICK answer \in {"fw", None} :
        /\ Ask("fw", answer)
        /\ clean' = (clean /\ answer # None)
        /\ Return(call, None)
  BY DEF checkVersion
<1>2. /\ pc = "version"
      /\ UNCHANGED <<espMode, curMode, cache, net, todo, tries, up, begun, want, kept, call, restarts>>
  BY DEF checkVersion, drvVars, hist
<1>3. ModuleType' /\ UNCHANGED <<hasCur, now, flash>>
  BY <1>1, AskEffect DEF IInv, TypeOK
<1>4. DriverType /\ TodoType /\ HistoryType
  BY DEF IInv, TypeOK
<1>5. at' \in Nat /\ pc' = "idle" /\ sketch' = sketch
  BY <1>1, <1>4, ReturnType DEF DriverType
<1>6. TypeOK'
  <2>1. DriverType'
    BY <1>2, <1>4, <1>5 DEF DriverType
  <2>2. TodoType'
    BY <1>2, <1>4, <1>5 DEF TodoType
  <2>3. HistoryType'
    BY <1>1, <1>2, <1>4 DEF HistoryType
  <2>4. QED
    BY <1>3, <2>1, <2>2, <2>3 DEF TypeOK
<1>7. WithinCall' /\ FormKnown'
  BY <1>2, <1>3, <1>5 DEF IInv, WithinCall, FormKnown
<1>8. QED
  BY <1>2, <1>3, <1>6, <1>7 DEF IInv, InterfaceAsked, AddressHolds, NoAutoStart

(* disconnect and ping send a command that sets nothing. *)
LEMMA PlainSendStep == IInv /\ (leave \/ pinged) => IInv'
<1> SUFFICES ASSUME IInv, leave \/ pinged PROVE IInv'
  OBVIOUS
<1>1. PICK name \in {"CWQAP", "PING"}, answer \in Answers :
        Send(Cmd(name, <<>>, FALSE), answer) /\ \E value : Return(call, value)
  BY DEF leave, pinged
<1>2. /\ pc \in {"CWQAP", "PING"}
      /\ UNCHANGED <<espMode, curMode, cache, net, todo, tries, up, begun, want, kept, call, restarts>>
  BY DEF leave, pinged, drvVars, hist
<1>3. /\ ModuleType' /\ clean' \in BOOLEAN /\ hasCur' = hasCur
      /\ now'.mode = now.mode /\ now'.dhcp = now.dhcp /\ now'.fixed = now.fixed
      /\ flash'.dhcp = flash.dhcp /\ flash'.fixed = flash.fixed
      /\ flash'.mode = flash.mode /\ (flash'.auto => flash.auto)
  <2>1. /\ {"CWQAP", "PING"} \subseteq Names \ {"RST", "CWMODE", "CWDHCP", "CIPSTA", "CIPAP"}
        /\ name # "CWJAP"
    BY DEF Names
  <2>2. <<>> \in Seq(Nat) \cup Seq(Networks)
    OBVIOUS
  <2>3. QED
    BY <1>1, <2>1, <2>2, OneCommand
<1>4. DriverType /\ TodoType /\ HistoryType
  BY DEF IInv, TypeOK
<1>5. at' \in Nat /\ pc' = "idle" /\ sketch' = sketch
  BY <1>1, <1>4, ReturnType DEF DriverType
<1>6. TypeOK'
  <2>1. DriverType'
    BY <1>2, <1>4, <1>5 DEF DriverType
  <2>2. TodoType'
    BY <1>2, <1>4, <1>5 DEF TodoType
  <2>3. HistoryType'
    BY <1>2, <1>3, <1>4 DEF HistoryType
  <2>4. QED
    BY <1>3, <2>1, <2>2, <2>3 DEF TypeOK
<1>7. WithinCall' /\ FormKnown'
  BY <1>2, <1>3, <1>5 DEF IInv, WithinCall, FormKnown
<1>8. QED
  BY <1>2, <1>3, <1>6, <1>7 DEF IInv, InterfaceAsked, AddressHolds, NoAutoStart

(* begin's two attempts.  kept ends with the _CUR form, so that what the   *)
(* plain form saves is not looked at; an attempt that is answered OK found *)
(* the station on.                                                         *)
LEMMA ConnectStep == IInv /\ wifiConnect => IInv'
<1> SUFFICES ASSUME IInv, wifiConnect PROVE IInv'
  OBVIOUS
<1>1. PICK answer \in Answers :
        /\ Send(Cmd("CWJAP", <<net>>, pc = "CWJAP_CUR"), answer)
        /\ curMode' = (pc = "CWJAP_CUR")
        /\ begun' = (begun \/ pc = "CWJAP" \/ answer = "OK")
        /\ kept' = (kept /\ curMode')
        /\ up' = IF answer = "OK" THEN "sta" ELSE None
        /\ \/ answer = "OK" /\ Return(call, "CONNECTED")
           \/ answer # "OK" /\ pc = "CWJAP_CUR" /\ Goto("CWJAP")
           \/ answer # "OK" /\ pc = "CWJAP" /\ Return(call, "CONNECT_FAILED")
  BY DEF wifiConnect
<1>2. /\ pc \in {"CWJAP_CUR", "CWJAP"}
      /\ UNCHANGED <<espMode, cache, net, todo, tries, want, call, restarts>>
  BY DEF wifiConnect
<1>3. DriverType /\ TodoType /\ HistoryType /\ espMode = 1 /\ call = "begin"
  BY <1>2 DEF IInv, TypeOK, WithinCall
<1>4. /\ ModuleType' /\ clean' \in BOOLEAN /\ hasCur' = hasCur
      /\ now'.mode = now.mode /\ now'.dhcp = now.dhcp /\ now'.fixed = now.fixed
      /\ pc = "CWJAP_CUR" => flash' = flash
      /\ answer = "OK" => ~Impossible(Cmd("CWJAP", <<net>>, pc = "CWJAP_CUR"))
  <2>1. "CWJAP" \in Names \ {"RST", "CWMODE", "CWDHCP", "CIPSTA", "CIPAP"}
    BY DEF Names
  <2>2. (pc = "CWJAP_CUR") \in BOOLEAN
    OBVIOUS
  <2>3. <<net>> \in Seq(Nat) \cup Seq(Networks) /\ <<net>>[1] \in Networks
    BY <1>3 DEF DriverType
  <2>4. QED
    BY <1>1, <2>1, <2>2, <2>3, OneCommand
<1>5. answer = "OK" => "sta" \in On(now.mode) /\ (pc = "CWJAP_CUR" => hasCur)
  BY <1>4 DEF Impossible, Cmd
<1>6. /\ sketch' = sketch /\ at' \in Nat
      /\ \/ pc' = "idle" /\ (answer = "OK" \/ pc = "CWJAP")
         \/ pc' = "CWJAP" /\ pc = "CWJAP_CUR"
  <2>1. CASE answer = "OK"
    BY <1>1, <1>3, <2>1, ReturnType DEF DriverType
  <2>2. CASE answer # "OK" /\ pc = "CWJAP_CUR"
    <3>1. Goto("CWJAP")
      BY <1>1, <2>2
    <3>2. QED
      BY <1>3, <2>2, <3>1 DEF Goto, DriverType
  <2>3. CASE answer # "OK" /\ pc = "CWJAP"
    <3>1. Return(call, "CONNECT_FAILED")
      BY <1>1, <2>3
    <3>2. QED
      BY <1>3, <2>3, <3>1, ReturnType DEF DriverType
  <2>4. QED
    BY <1>2, <2>1, <2>2, <2>3
<1>7. TypeOK'
  <2>1. DriverType'
    BY <1>1, <1>2, <1>3, <1>6 DEF DriverType
  <2>2. TodoType'
    BY <1>2, <1>3, <1>6 DEF TodoType
  <2>3. HistoryType'
    <3>1. begun' \in BOOLEAN /\ kept' \in BOOLEAN
      BY <1>1, Zenon
    <3>2. up' \in Interfaces \cup {None}
      BY <1>1 DEF Interfaces
    <3>3. QED
      BY <1>2, <1>3, <1>4, <3>1, <3>2 DEF HistoryType
  <2>4. QED
    BY <1>4, <2>1, <2>2, <2>3 DEF TypeOK
<1>8. WithinCall'
  BY <1>2, <1>3, <1>6 DEF WithinCall
<1>9. InterfaceAsked'
  BY <1>1, <1>2, <1>3, <1>4, <1>5 DEF InterfaceAsked, None
<1>10. FormKnown'
  BY <1>1, <1>2, <1>4, <1>5, <1>6 DEF FormKnown
<1>11. AddressHolds'
  BY <1>2, <1>4 DEF IInv, AddressHolds
<1>12. (kept' => curMode') /\ NoAutoStart'
  BY <1>1, <1>4 DEF IInv, NoAutoStart
<1>13. QED
  BY <1>7, <1>8, <1>9, <1>10, <1>11, <1>12 DEF IInv

(* beginAP's mode, in both forms. *)
LEMMA SetModeStep == IInv /\ setMode => IInv'
<1> SUFFICES ASSUME IInv, setMode PROVE IInv'
  OBVIOUS
<1> DEFINE c == Cmd("CWMODE", <<espMode>>, pc = "CWMODE_CUR")
<1>1. PICK answer \in Answers :
        /\ Send(c, answer)
        /\ curMode' = (pc = "CWMODE_CUR")
        /\ begun' = (begun \/ pc = "CWMODE" \/ answer = "OK")
        /\ kept' = (kept /\ curMode')
        /\ \/ answer = "OK" /\ Goto("CWSAP")
           \/ answer # "OK" /\ pc = "CWMODE_CUR" /\ Goto("CWMODE")
           \/ answer # "OK" /\ pc = "CWMODE" /\ Return(call, "CONNECT_FAILED")
  BY DEF setMode
<1>2. /\ pc \in {"CWMODE_CUR", "CWMODE"}
      /\ UNCHANGED <<espMode, cache, net, todo, tries, up, want, call, restarts>>
  BY DEF setMode
<1>3. DriverType /\ TodoType /\ HistoryType /\ ModuleType /\ BeginningAP
  BY <1>2 DEF IInv, TypeOK, WithinCall
<1>4. c \in Commands /\ WellFormed(c) /\ c.name = "CWMODE" /\ c.args[1] = espMode
      /\ c.cur = (pc = "CWMODE_CUR")
  <2>1. <<espMode>> \in Seq(Nat) /\ espMode \in 1 .. 3
    BY <1>3 DEF BeginningAP
  <2>2. "CWMODE" \in Names /\ (pc = "CWMODE_CUR") \in BOOLEAN
    BY DEF Names
  <2>3. c \in Commands
    BY <2>1, <2>2, CmdType
  <2>4. QED
    BY <2>1, <2>3 DEF Cmd, WellFormed
<1> HIDE DEF c
<1>5. /\ ModuleType' /\ clean' \in BOOLEAN /\ hasCur' = hasCur
      /\ now'.dhcp = now.dhcp /\ now'.fixed = now.fixed
      /\ pc = "CWMODE_CUR" => flash' = flash
  BY <1>1, <1>3, <1>4, SendKeeps, SendEffect DEF HistoryType
<1>6. answer = "OK" => now'.mode = espMode /\ (pc = "CWMODE_CUR" => hasCur)
  <2>1. answer = "OK" => Execute(c) /\ ~Impossible(c)
    BY <1>1, SendEffect
  <2>2. answer = "OK" => now' = Set(c, now)
    BY <1>3, <1>4, <2>1, ExecuteEffect
  <2>3. Set(c, now).mode = espMode
    BY <1>3, <1>4, SetEffect DEF ModuleType
  <2>4. QED
    BY <1>4, <2>1, <2>2, <2>3 DEF Impossible
<1>7. /\ sketch' = sketch /\ at' \in Nat
      /\ \/ pc' = "CWSAP" /\ answer = "OK"
         \/ pc' = "CWMODE" /\ pc = "CWMODE_CUR"
         \/ pc' = "idle" /\ pc = "CWMODE"
  <2>1. CASE answer = "OK"
    <3>1. Goto("CWSAP")
      BY <1>1, <2>1
    <3>2. QED
      BY <1>3, <2>1, <3>1 DEF Goto, DriverType
  <2>2. CASE answer # "OK" /\ pc = "CWMODE_CUR"
    <3>1. Goto("CWMODE")
      BY <1>1, <2>2
    <3>2. QED
      BY <1>3, <2>2, <3>1 DEF Goto, DriverType
  <2>3. CASE answer # "OK" /\ pc = "CWMODE"
    <3>1. Return(call, "CONNECT_FAILED")
      BY <1>1, <2>3
    <3>2. QED
      BY <1>3, <2>3, <3>1, ReturnType DEF DriverType
  <2>4. QED
    BY <1>2, <2>1, <2>2, <2>3
<1>8. TypeOK'
  <2>1. DriverType'
    BY <1>1, <1>2, <1>3, <1>7 DEF DriverType
  <2>2. TodoType'
    BY <1>2, <1>3, <1>7 DEF TodoType
  <2>3. HistoryType'
    <3>1. begun' \in BOOLEAN /\ kept' \in BOOLEAN
      BY <1>1, Zenon
    <3>2. QED
      BY <1>2, <1>3, <1>5, <3>1 DEF HistoryType
  <2>4. QED
    BY <1>5, <2>1, <2>2, <2>3 DEF TypeOK
<1>9. WithinCall'
  BY <1>2, <1>3, <1>6, <1>7 DEF WithinCall, BeginningAP
<1>10. InterfaceAsked' /\ AddressHolds'
  BY <1>2, <1>3, <1>5 DEF IInv, InterfaceAsked, BeginningAP, AddressHolds
<1>11. FormKnown'
  BY <1>1, <1>2, <1>5, <1>6, <1>7 DEF FormKnown
<1>12. (kept' => curMode') /\ NoAutoStart'
  BY <1>1, <1>5 DEF IInv, NoAutoStart
<1>13. QED
  BY <1>8, <1>9, <1>10, <1>11, <1>12 DEF IInv

(* beginAP's access point. *)
LEMMA StartAPStep == IInv /\ wifiStartAP => IInv'
<1> SUFFICES ASSUME IInv, wifiStartAP PROVE IInv'
  OBVIOUS
<1> DEFINE d == Cmd("CWDHCP", <<IF espMode = 2 THEN 0 ELSE 2, 1>>, curMode)
<1>1. PICK answer \in Answers :
        /\ Send(Cmd("CWSAP", <<>>, curMode), answer)
        /\ IF answer = "OK" THEN Goto("todo") /\ todo' = <<d>>
           ELSE Return(call, "CONNECT_FAILED") /\ UNCHANGED todo
  BY DEF wifiStartAP
<1>2. /\ pc = "CWSAP"
      /\ UNCHANGED <<espMode, curMode, cache, net, tries, up, begun, want, kept, call, restarts>>
  BY DEF wifiStartAP, drvVars, hist
<1>3. DriverType /\ TodoType /\ HistoryType /\ BeginningAP
  BY <1>2 DEF IInv, TypeOK, WithinCall
<1>4. /\ ModuleType' /\ clean' \in BOOLEAN /\ hasCur' = hasCur /\ (clean' => clean)
      /\ now'.mode = now.mode /\ now'.dhcp = now.dhcp /\ now'.fixed = now.fixed
      /\ flash'.dhcp = flash.dhcp /\ flash'.fixed = flash.fixed
      /\ flash'.mode = flash.mode /\ (flash'.auto => flash.auto)
  <2>1. "CWSAP" \in Names \ {"RST", "CWMODE", "CWDHCP", "CIPSTA", "CIPAP"} /\ curMode \in BOOLEAN
    BY <1>3 DEF Names, DriverType
  <2>2. <<>> \in Seq(Nat) \cup Seq(Networks)
    OBVIOUS
  <2>3. QED
    BY <1>1, <2>1, <2>2, OneCommand
<1>5. d \in Commands /\ WellFormed(d)
  <2>1. <<IF espMode = 2 THEN 0 ELSE 2, 1>> \in Seq(Nat) /\ curMode \in BOOLEAN
    BY <1>3 DEF DriverType
  <2>2. "CWDHCP" \in Names
    BY DEF Names
  <2>3. d \in Commands
    BY <2>1, <2>2, CmdType
  <2>4. WellFormed(d)
    BY DEF Cmd, WellFormed
  <2>5. QED
    BY <2>3, <2>4
<1>6. /\ sketch' = sketch /\ at' \in Nat
      /\ \/ pc' = "todo" /\ todo' = <<d>>
         \/ pc' = "idle" /\ todo' = todo
  <2>1. CASE answer = "OK"
    BY <1>1, <1>3, <2>1 DEF Goto, DriverType
  <2>2. CASE answer # "OK"
    BY <1>1, <1>3, <2>2, ReturnType DEF DriverType
  <2>3. QED
    BY <2>1, <2>2
<1>7. WithinCall'
  BY <1>2, <1>3, <1>4, <1>6 DEF WithinCall, BeginningAP
<1>8. TypeOK'
  <2>1. DriverType'
    BY <1>2, <1>3, <1>6 DEF DriverType
  <2>2. TodoType'
    <3> HIDE DEF d
    <3>1. CASE todo' = <<d>>
      BY <1>5, <3>1 DEF TodoType
    <3>2. CASE pc' = "idle" /\ todo' = todo
      BY <1>3, <3>2 DEF TodoType
    <3>3. QED
      BY <1>6, <3>1, <3>2
  <2>3. HistoryType'
    BY <1>2, <1>3, <1>4 DEF HistoryType
  <2>4. QED
    BY <1>4, <2>1, <2>2, <2>3 DEF TypeOK
<1>9. FormKnown'
  BY <1>2, <1>4, <1>6 DEF IInv, FormKnown
<1>10. QED
  BY <1>2, <1>4, <1>7, <1>8, <1>9 DEF IInv, InterfaceAsked, AddressHolds, NoAutoStart

-----------------------------------------------------------------------------
(* The commands of reset, config, configAP and beginAP whose results are   *)
(* ignored (sendNext).                                                     *)

(* What is common to them. *)
LEMMA NextCommand ==
  ASSUME IInv, sendNext
  PROVE  /\ todo # <<>> /\ Head(todo) = todo[1]
         /\ todo[1] \in Commands /\ WellFormed(todo[1])
         /\ \E answer \in Answers : Send(todo[1], answer)
         /\ ModuleType /\ ModuleType' /\ clean' \in BOOLEAN /\ hasCur' = hasCur
         /\ clean' => clean
         /\ pc = "todo" /\ todo' = Tail(todo) /\ TodoType' /\ DriverType'
         /\ UNCHANGED <<espMode, curMode, call, begun, restarts>>
         /\ IF Tail(todo) # <<>> THEN pc' = "todo" /\ UNCHANGED <<up, want, kept>>
            ELSE /\ pc' = IF call = "init" THEN "version" ELSE "idle"
                 /\ up' = IF call = "beginAP" /\ clean' THEN "ap" ELSE up
                 /\ kept' = IF call \in {"init", "reset"} THEN clean' /\ curMode ELSE kept
                 /\ want' = want \cup IF ~ConfigTakes THEN {}
                                      ELSE IF call = "configAP" THEN {"ap"}
                                      ELSE {"sta"} \cap On(now.mode)
<1>1. /\ pc = "todo" /\ todo # <<>> /\ todo' = Tail(todo)
      /\ UNCHANGED <<espMode, curMode, cache, net, tries, call, begun, restarts>>
  BY DEF sendNext, drvVars
<1>2. TodoType /\ DriverType /\ ModuleType /\ clean \in BOOLEAN
  BY DEF IInv, TypeOK, HistoryType
<1>3. Head(todo) = todo[1] /\ todo[1] \in Commands /\ WellFormed(todo[1])
  BY <1>1, <1>2 DEF TodoType
<1>4. PICK answer \in Answers : Send(todo[1], answer)
  BY <1>3 DEF sendNext
<1>5. ModuleType' /\ clean' \in BOOLEAN /\ hasCur' = hasCur /\ (clean' => clean)
  BY <1>2, <1>3, <1>4, SendKeeps, SendEffect
<1>6. IF Tail(todo) # <<>>
        THEN pc' = "todo" /\ sketch' = sketch /\ at' = at /\ UNCHANGED <<up, want, kept>>
        ELSE /\ pc' = (IF call = "init" THEN "version" ELSE "idle")
             /\ sketch' = sketch /\ at' \in Nat
             /\ up' = IF call = "beginAP" /\ clean' THEN "ap" ELSE up
             /\ kept' = IF call \in {"init", "reset"} THEN clean' /\ curMode ELSE kept
             /\ want' = want \cup IF ~ConfigTakes THEN {}
                                  ELSE IF call = "configAP" THEN {"ap"}
                                  ELSE {"sta"} \cap On(now.mode)
  <2>1. CASE Tail(todo) # <<>>
    BY <2>1 DEF sendNext, Goto
  <2>2. CASE Tail(todo) = <<>>
    <3>1. \/ call = "init" /\ Goto("version")
          \/ call # "init" /\ \E value : Return(call, value)
      BY <2>2 DEF sendNext
    <3>2. /\ pc' = (IF call = "init" THEN "version" ELSE "idle")
          /\ sketch' = sketch /\ at' \in Nat
      BY <1>2, <3>1, ReturnType DEF Goto, DriverType
    <3>3. QED
      BY <2>2, <3>2 DEF sendNext
  <2>3. QED
    BY <2>1, <2>2
<1>7. DriverType'
  BY <1>1, <1>2, <1>6 DEF DriverType
<1>8. TodoType'
  <2>1. Tail(todo) \in Seq(Commands) /\ \A i \in DOMAIN Tail(todo) : Tail(todo)[i] = todo[i + 1]
    BY <1>1, <1>2 DEF TodoType
  <2>2. \A i \in DOMAIN Tail(todo) : i + 1 \in DOMAIN todo
    BY <1>1, <1>2 DEF TodoType
  <2>3. pc' = "todo" => Tail(todo) # <<>>
    BY <1>6
  <2>4. QED
    BY <1>1, <1>2, <2>1, <2>2, <2>3 DEF TodoType
<1>9. QED
  BY <1>1, <1>2, <1>3, <1>4, <1>5, <1>6, <1>7, <1>8

(* A command is carried out if it is not impossible, cannot fail and has   *)
(* been answered, or else nothing changes.                                 *)
LEMMA CarriedOut ==
  ASSUME ModuleType, NEW c \in Commands, WellFormed(c), c.name \notin {"RST", "CWJAP", "CWSAP", "PING"},
         NEW answer \in Answers, Send(c, answer)
  PROVE  /\ \/ now' = now /\ flash' = flash
            \/ now' = Set(c, now) /\ flash' = IF c.cur THEN flash ELSE Set(c, flash)
         /\ (clean' /\ ~Impossible(c)) =>
              now' = Set(c, now) /\ flash' = IF c.cur THEN flash ELSE Set(c, flash)
<1>1. NotDone \/ Execute(c)
  BY SendEffect
<1>2. (clean' /\ ~Impossible(c)) => Execute(c)
  BY SendEffect DEF MayFail
<1>3. Execute(c) => now' = Set(c, now) /\ flash' = IF c.cur THEN flash ELSE Set(c, flash)
  BY ExecuteEffect
<1>4. QED
  BY <1>1, <1>2, <1>3 DEF NotDone

(* reset's commands set the module up one after the other; kept records    *)
(* that all were answered.                                                 *)
LEMMA ResettingStep ==
  ASSUME IInv, sendNext, Resetting
  PROVE  /\ WithinCall' /\ (kept' => curMode')
         /\ InterfaceAsked' /\ FormKnown' /\ AddressHolds' /\ NoAutoStart'
<1> DEFINE c == todo[1]
<1>1. /\ todo # <<>> /\ Head(todo) = c /\ c \in Commands /\ WellFormed(c)
      /\ ModuleType /\ hasCur' = hasCur /\ (clean' => clean)
      /\ pc = "todo" /\ todo' = Tail(todo)
      /\ UNCHANGED <<espMode, curMode, call, begun>>
      /\ IF Tail(todo) # <<>> THEN pc' = "todo" /\ UNCHANGED <<up, want, kept>>
         ELSE /\ pc' = IF call = "init" THEN "version" ELSE "idle"
              /\ up' = IF call = "beginAP" /\ clean' THEN "ap" ELSE up
              /\ kept' = IF call \in {"init", "reset"} THEN clean' /\ curMode ELSE kept
              /\ want' = want \cup IF ~ConfigTakes THEN {}
                                   ELSE IF call = "configAP" THEN {"ap"}
                                   ELSE {"sta"} \cap On(now.mode)
  BY NextCommand
<1>2. PICK answer \in Answers : Send(c, answer)
  BY NextCommand
<1>3. call \in {"init", "reset"} /\ up = None /\ want = {} /\ kept = FALSE
  BY DEF Resetting, IInv, TypeOK, HistoryType
<1>4. PICK k \in 1 .. 7 : /\ todo = ResetRest(k)
                          /\ clean /\ k > 3 => flash.mode = 1
                          /\ clean /\ k > 6 => ~flash.auto
  BY <1>1, AllOfReset DEF Resetting
<1>5. c = ResetCommands[k] /\ todo' = ResetRest(k + 1) /\ (Tail(todo) # <<>> <=> k < 7)
  BY <1>1, <1>4, ResetRestSteps
<1>6. c.cur = FALSE /\ c.name \in {"RST", "ATE0", "CWMODE", "CIPMUX", "CIPDINFO", "CWAUTOCONN", "CWDHCP"}
      /\ (k = 3 => c.name = "CWMODE" /\ c.args[1] = 1)
      /\ (k > 3 => c.name # "CWMODE")
      /\ (k = 6 => c.name = "CWAUTOCONN")
      /\ (k = 7 => c.name = "CWDHCP" /\ c.args[1] = 1 /\ c.args[2] = 1)
  BY <1>5 DEF ResetCommands, Cmd
<1> HIDE DEF c
<1>7. clean' => flash' = Set(c, flash)
  <2>1. ~Impossible(c) /\ ~MayFail(c)
    BY <1>6 DEF Impossible, MayFail
  <2>2. clean' => Execute(c)
    BY <1>2, <2>1, SendEffect
  <2>3. QED
    BY <1>6, <2>2 DEF Execute
<1>8. /\ up' = None /\ want' = {}
      /\ k < 7 => kept' = FALSE
      /\ kept' => clean' /\ curMode
  BY <1>1, <1>3, <1>5 DEF ConfigTakes
<1>9. /\ clean' /\ k >= 3 => flash'.mode = 1
      /\ clean' /\ k >= 6 => ~flash'.auto
  <2>1. /\ Set(c, flash).mode = IF c.name = "CWMODE" THEN c.args[1] ELSE flash.mode
        /\ Set(c, flash).auto = (flash.auto /\ c.name # "CWAUTOCONN")
    BY <1>1, SetEffect DEF ModuleType
  <2>2. clean' /\ k = 3 => flash'.mode = 1
    BY <1>6, <1>7, <2>1
  <2>3. clean' /\ k > 3 => flash'.mode = 1
    BY <1>1, <1>4, <1>6, <1>7, <2>1
  <2>4. clean' /\ k = 6 => ~flash'.auto
    BY <1>6, <1>7, <2>1
  <2>5. clean' /\ k > 6 => ~flash'.auto
    BY <1>1, <1>4, <1>7, <2>1
  <2>6. QED
    BY <2>2, <2>3, <2>4, <2>5
<1>10. k = 7 /\ clean' => "sta" \in flash'.dhcp /\ "sta" \notin flash'.fixed
  BY <1>1, <1>6, <1>7, AddressEffect DEF ModuleType, DhcpOf
<1>11. WithinCall'
  <2>1. CASE k < 7
    <3>1. Resetting'
      BY <1>1, <1>3, <1>5, <1>8, <1>9, <2>1, AllOfReset DEF Resetting
    <3>2. QED
      BY <1>1, <1>5, <2>1, <3>1 DEF WithinCall
  <2>2. CASE k = 7
    BY <1>1, <1>5, <2>2 DEF WithinCall
  <2>3. QED
    BY <2>1, <2>2
<1>12. FormKnown'
  BY <1>1 DEF IInv, FormKnown
<1>13. QED
  BY <1>1, <1>8, <1>9, <1>10, <1>11, <1>12 DEF InterfaceAsked, AddressHolds, NoAutoStart

(* config turns the station's DHCP off and then sets its address, in a     *)
(* form the module knows if it has one.                                    *)
LEMMA ConfiguringStep ==
  ASSUME IInv, sendNext, Configuring
  PROVE  /\ WithinCall' /\ (kept' => curMode')
         /\ InterfaceAsked' /\ FormKnown' /\ AddressHolds' /\ NoAutoStart'
<1> DEFINE c == todo[1]
<1>1. /\ todo # <<>> /\ Head(todo) = c /\ c \in Commands /\ WellFormed(c)
      /\ ModuleType /\ hasCur' = hasCur /\ (clean' => clean) /\ clean' \in BOOLEAN
      /\ pc = "todo" /\ todo' = Tail(todo) /\ TodoType
      /\ UNCHANGED <<espMode, curMode, call, begun>>
      /\ IF Tail(todo) # <<>> THEN pc' = "todo" /\ UNCHANGED <<up, want, kept>>
         ELSE /\ pc' = IF call = "init" THEN "version" ELSE "idle"
              /\ up' = IF call = "beginAP" /\ clean' THEN "ap" ELSE up
              /\ kept' = IF call \in {"init", "reset"} THEN clean' /\ curMode ELSE kept
              /\ want' = want \cup IF ~ConfigTakes THEN {}
                                   ELSE IF call = "configAP" THEN {"ap"}
                                   ELSE {"sta"} \cap On(now.mode)
  BY NextCommand DEF IInv, TypeOK
<1>2. PICK answer \in Answers : Send(c, answer)
  BY NextCommand
<1>3. call = "config" /\ c.cur = curMode
  BY <1>1 DEF Configuring, TodoType
<1>4. kept => curMode /\ flash' = flash
  BY <1>1, <1>2, <1>3, SendKeeps DEF IInv, TypeOK, HistoryType
<1>5. Taking' => clean' /\ Taking /\ (c.cur => hasCur)
  BY <1>1, <1>3 DEF Taking, IInv, FormKnown
<1>6. up' = up /\ kept' = kept
  BY <1>1, <1>3
<1>7. now'.mode = now.mode
  BY <1>1, <1>2, SendKeeps DEF Configuring, IInv, TypeOK, HistoryType
<1>8. CASE Len(todo) = 2
  <2>1. /\ c.name = "CWDHCP" /\ c.args = <<1, 0>> /\ todo[2].name = "CIPSTA" /\ todo[2].cur = curMode
    BY <1>1, <1>8 DEF Configuring, TodoType
  <2>2. Len(todo') = 1 /\ todo'[1] = todo[2] /\ DOMAIN todo' = {1} /\ todo' # <<>>
    <3>0. todo \in Seq(Commands) /\ todo' = Tail(todo) /\ todo # <<>>
      BY <1>1 DEF TodoType
    <3>1. todo' \in Seq(Commands) /\ Len(todo') = 1
      BY <3>0, <1>8, HeadTailProperties
    <3>2. todo'[1] = todo[2]
      <4>1. \A i \in 1 .. Len(todo) - 1 : Tail(todo)[i] = todo[i + 1]
        BY <3>0, HeadTailProperties
      <4>2. 1 \in 1 .. Len(todo) - 1 /\ 1 + 1 = 2
        BY <1>8
      <4>3. QED
        BY <3>0, <4>1, <4>2
    <3>3. QED
      BY <3>1, <3>2
  <2>3. pc' = "todo" /\ want' = want
    BY <1>1, <2>2
  <2>4. /\ Set(c, now).fixed = now.fixed /\ Set(c, now).dhcp = now.dhcp \ {"sta"}
    BY <1>1, <2>1, AddressEffect DEF ModuleType, DhcpOf
  <2>5. /\ now' = now \/ now' = Set(c, now)
        /\ (clean' /\ ~Impossible(c)) => now' = Set(c, now)
    BY <1>1, <1>2, <2>1, CarriedOut
  <2>6. Taking' => "sta" \notin now'.dhcp
    BY <1>5, <2>1, <2>4, <2>5 DEF Impossible
  <2>7. Configuring'
    BY <1>1, <1>3, <2>1, <2>2, <2>6 DEF Configuring
  <2>8. AddressHolds'
    BY <2>3, <2>4, <2>5 DEF IInv, AddressHolds
  <2>9. WithinCall'
    BY <2>3, <2>7 DEF WithinCall
  <2>10. QED
    BY <1>1, <1>4, <1>6, <1>7, <2>3, <2>8, <2>9 DEF IInv, InterfaceAsked, FormKnown, NoAutoStart
<1>9. CASE Len(todo) = 1
  <2>1. c.name = "CIPSTA" /\ (Taking => "sta" \notin now.dhcp)
    BY <1>1, <1>9 DEF Configuring
  <2>2. Tail(todo) = <<>>
    BY <1>1, <1>9 DEF TodoType
  <2>3. Set(c, now).fixed = now.fixed \cup {"sta"} /\ Set(c, now).dhcp = now.dhcp
    BY <1>1, <2>1, AddressEffect, SetEffect DEF ModuleType
  <2>4. /\ now' = now \/ now' = Set(c, now)
        /\ (clean' /\ ~Impossible(c)) => now' = Set(c, now)
    BY <1>1, <1>2, <2>1, CarriedOut
  <2>5. want' \subseteq want \cup {"sta"}
    BY <1>1, <1>3, <2>2
  <2>6. "sta" \in want' => "sta" \in want \/ (Taking' /\ "sta" \in On(now.mode))
    BY <1>1, <1>3, <2>2 DEF ConfigTakes, Taking
  <2>7. Taking' /\ "sta" \in On(now.mode) => "sta" \in now'.fixed /\ "sta" \notin now'.dhcp
    BY <1>5, <2>1, <2>3, <2>4 DEF Impossible
  <2>8. AddressHolds'
    BY <2>3, <2>4, <2>5, <2>6, <2>7 DEF IInv, AddressHolds
  <2>9. WithinCall'
    BY <1>1, <2>2 DEF WithinCall
  <2>10. QED
    BY <1>1, <1>4, <1>6, <1>7, <2>2, <2>8, <2>9 DEF IInv, InterfaceAsked, FormKnown, NoAutoStart
<1>10. QED
  BY <1>8, <1>9 DEF Configuring

(* configAP sets the mode, turns both DHCPs off and sets the address of    *)
(* the access point.                                                       *)
LEMMA ConfiguringAPStep ==
  ASSUME IInv, sendNext, ConfiguringAP
  PROVE  /\ WithinCall' /\ (kept' => curMode')
         /\ InterfaceAsked' /\ FormKnown' /\ AddressHolds' /\ NoAutoStart'
<1> DEFINE c == todo[1]
<1>1. /\ todo # <<>> /\ Head(todo) = c /\ c \in Commands /\ WellFormed(c)
      /\ ModuleType /\ hasCur' = hasCur /\ (clean' => clean) /\ clean' \in BOOLEAN
      /\ pc = "todo" /\ todo' = Tail(todo) /\ TodoType
      /\ UNCHANGED <<espMode, curMode, call, begun>>
      /\ IF Tail(todo) # <<>> THEN pc' = "todo" /\ UNCHANGED <<up, want, kept>>
         ELSE /\ pc' = IF call = "init" THEN "version" ELSE "idle"
              /\ up' = IF call = "beginAP" /\ clean' THEN "ap" ELSE up
              /\ kept' = IF call \in {"init", "reset"} THEN clean' /\ curMode ELSE kept
              /\ want' = want \cup IF ~ConfigTakes THEN {}
                                   ELSE IF call = "configAP" THEN {"ap"}
                                   ELSE {"sta"} \cap On(now.mode)
  BY NextCommand DEF IInv, TypeOK
<1>2. PICK answer \in Answers : Send(c, answer)
  BY NextCommand
<1>3. call = "configAP" /\ up = None /\ "sta" \notin want /\ c.cur = curMode
  BY <1>1 DEF ConfiguringAP, TodoType
<1>4. kept => curMode /\ flash' = flash
  BY <1>1, <1>2, <1>3, SendKeeps DEF IInv, TypeOK, HistoryType
<1>5. Taking' => clean' /\ Taking /\ (c.cur => hasCur)
  BY <1>1, <1>3 DEF Taking, IInv, FormKnown
<1>6. up' = None /\ kept' = kept
  BY <1>1, <1>3
<1>7. InterfaceAsked' /\ FormKnown' /\ (kept' => curMode') /\ NoAutoStart'
  BY <1>1, <1>4, <1>6 DEF IInv, InterfaceAsked, FormKnown, NoAutoStart
<1>8. CASE Len(todo) = 3
  <2>1. /\ c.name = "CWMODE" /\ c.args = <<2>>
        /\ todo[2].name = "CWDHCP" /\ todo[2].args = <<2, 0>> /\ todo[2].cur = curMode
        /\ todo[3].name = "CIPAP" /\ todo[3].cur = curMode
    BY <1>1, <1>8 DEF ConfiguringAP, TodoType
  <2>2. Len(todo') = 2 /\ todo'[1] = todo[2] /\ todo'[2] = todo[3] /\ DOMAIN todo' = {1, 2}
        /\ todo' # <<>>
    <3>1. todo' \in Seq(Commands) /\ Len(todo') = 2 /\ todo' # <<>>
      <4>1. todo \in Seq(Commands) /\ todo # <<>> /\ todo' = Tail(todo)
        BY <1>1 DEF TodoType
      <4>2. todo' \in Seq(Commands) /\ Len(todo') = 2
        BY <1>8, <4>1, HeadTailProperties
      <4>3. QED
        BY <4>2
    <3>2. \A i \in 1 .. 2 : todo'[i] = todo[i + 1]
      BY <1>1, <1>8, <3>1, HeadTailProperties DEF TodoType
    <3>3. todo'[1] = todo[2] /\ todo'[2] = todo[3]
      BY <3>2
    <3>4. DOMAIN todo' = {1, 2}
      <4>1. DOMAIN todo' = 1 .. 2
        BY <3>1
      <4>2. QED
        BY <4>1
    <3>5. QED
      BY <3>1, <3>3, <3>4
  <2>3. pc' = "todo" /\ want' = want
    BY <1>1, <2>2
  <2>4. /\ Set(c, now).mode = 2 /\ Set(c, now).fixed = now.fixed /\ Set(c, now).dhcp = now.dhcp
    BY <1>1, <2>1, SetEffect DEF ModuleType
  <2>5. /\ now' = now \/ now' = Set(c, now)
        /\ (clean' /\ ~Impossible(c)) => now' = Set(c, now)
    BY <1>1, <1>2, <2>1, CarriedOut
  <2>6. Taking' => now'.mode = 2
    BY <1>5, <2>1, <2>4, <2>5 DEF Impossible
  <2>7. ConfiguringAP'
    BY <1>1, <1>3, <1>6, <2>1, <2>2, <2>3, <2>6 DEF ConfiguringAP
  <2>8. AddressHolds'
    BY <2>3, <2>4, <2>5 DEF IInv, AddressHolds
  <2>9. QED
    BY <1>7, <2>3, <2>7, <2>8 DEF WithinCall
<1>9. CASE Len(todo) = 2
  <2>1. /\ c.name = "CWDHCP" /\ c.args = <<2, 0>> /\ (Taking => now.mode = 2)
        /\ todo[2].name = "CIPAP" /\ todo[2].cur = curMode
    BY <1>1, <1>9 DEF ConfiguringAP, TodoType
  <2>2. Len(todo') = 1 /\ todo'[1] = todo[2] /\ DOMAIN todo' = {1} /\ todo' # <<>>
    <3>0. todo \in Seq(Commands) /\ todo' = Tail(todo) /\ todo # <<>>
      BY <1>1 DEF TodoType
    <3>1. todo' \in Seq(Commands) /\ Len(todo') = 1
      BY <3>0, <1>9, HeadTailProperties
    <3>2. todo'[1] = todo[2]
      <4>1. \A i \in 1 .. Len(todo) - 1 : Tail(todo)[i] = todo[i + 1]
        BY <3>0, HeadTailProperties
      <4>2. 1 \in 1 .. Len(todo) - 1 /\ 1 + 1 = 2
        BY <1>9
      <4>3. QED
        BY <3>0, <4>1, <4>2
    <3>3. QED
      BY <3>1, <3>2
  <2>3. pc' = "todo" /\ want' = want
    BY <1>1, <2>2
  <2>4. /\ Set(c, now).fixed = now.fixed /\ Set(c, now).dhcp \subseteq now.dhcp
        /\ Set(c, now).mode = now.mode
    BY <1>1, <2>1, SetEffect, AddressEffect DEF ModuleType
  <2>5. now' = now \/ now' = Set(c, now)
    BY <1>1, <1>2, <2>1, CarriedOut
  <2>6. Taking' => now'.mode = 2
    BY <1>5, <2>1, <2>4, <2>5
  <2>7. ConfiguringAP'
    BY <1>1, <1>3, <1>6, <2>1, <2>2, <2>3, <2>6 DEF ConfiguringAP
  <2>8. AddressHolds'
    BY <2>3, <2>4, <2>5 DEF IInv, AddressHolds
  <2>9. QED
    BY <1>7, <2>3, <2>7, <2>8 DEF WithinCall
<1>10. CASE Len(todo) = 1
  <2>1. c.name = "CIPAP" /\ (Taking => now.mode = 2)
    BY <1>1, <1>10 DEF ConfiguringAP
  <2>2. Tail(todo) = <<>>
    BY <1>1, <1>10 DEF TodoType
  <2>3. Set(c, now).fixed = now.fixed \cup {"ap"} /\ Set(c, now).dhcp = now.dhcp
    BY <1>1, <2>1, AddressEffect, SetEffect DEF ModuleType
  <2>4. /\ now' = now \/ now' = Set(c, now)
        /\ (clean' /\ ~Impossible(c)) => now' = Set(c, now)
    BY <1>1, <1>2, <2>1, CarriedOut
  <2>5. want' = want \/ (want' = want \cup {"ap"} /\ Taking')
    BY <1>1, <1>3, <2>2 DEF ConfigTakes, Taking
  <2>6. Taking' => "ap" \in now'.fixed
    <3>1. Taking' => ~Impossible(c)
      BY <1>5, <2>1 DEF Impossible, On, Interfaces
    <3>2. QED
      BY <1>5, <2>3, <2>4, <3>1
  <2>7. AddressHolds'
    BY <1>3, <2>3, <2>4, <2>5, <2>6 DEF IInv, AddressHolds
  <2>8. QED
    BY <1>1, <1>7, <2>2, <2>7 DEF WithinCall
<1>11. QED
  BY <1>8, <1>9, <1>10 DEF ConfiguringAP

(* beginAP's last command gives a station that is wanted, too, an address  *)
(* from the network; the access point is up if all were answered.          *)
LEMMA BeginningAPStep ==
  ASSUME IInv, sendNext, BeginningAP,
         todo = <<Cmd("CWDHCP", <<IF espMode = 2 THEN 0 ELSE 2, 1>>, curMode)>>
  PROVE  /\ WithinCall' /\ (kept' => curMode')
         /\ InterfaceAsked' /\ FormKnown' /\ AddressHolds' /\ NoAutoStart'
<1> DEFINE c == todo[1]
<1>1. /\ c \in Commands /\ WellFormed(c) /\ ModuleType /\ ModuleType'
      /\ hasCur' = hasCur /\ (clean' => clean)
      /\ pc = "todo" /\ UNCHANGED <<espMode, curMode, call, begun>>
  BY NextCommand
<1>2. PICK answer \in Answers : Send(c, answer)
  BY NextCommand
<1>3. /\ call = "beginAP" /\ up = None /\ espMode \in {2, 3}
      /\ espMode = 3 => "sta" \notin want
      /\ clean => now.mode = espMode
  BY <1>1 DEF BeginningAP
<1>4. /\ c.name = "CWDHCP" /\ c.args[1] = (IF espMode = 2 THEN 0 ELSE 2) /\ c.args[2] = 1
      /\ c.cur = curMode /\ Tail(todo) = <<>>
  BY DEF Cmd
<1>5. /\ pc' = "idle" /\ kept' = kept /\ want' = want
      /\ up' = IF clean' THEN "ap" ELSE None
  BY <1>1, <1>3, <1>4, NextCommand DEF ConfigTakes
<1> HIDE DEF c
<1>6. now'.mode = now.mode /\ (kept => curMode /\ flash' = flash)
  BY <1>1, <1>2, <1>4, SendKeeps DEF IInv, TypeOK, HistoryType
<1>7. now' = now \/ now' = Set(c, now)
  BY <1>1, <1>2, <1>4, CarriedOut
<1>8. AddressHolds'
  <2>1. CASE espMode = 2
    <3>1. /\ Set(c, now).fixed = now.fixed \ (DhcpOf(c.args[1]) \ {"ap"})
          /\ Set(c, now).dhcp = now.dhcp \cup DhcpOf(c.args[1])
      BY <1>1, <1>4, AddressEffect DEF ModuleType
    <3>2. DhcpOf(c.args[1]) = {"ap"}
      BY <1>4, <2>1 DEF DhcpOf
    <3>3. \A x \in now.fixed : x \in Set(c, now).fixed
      BY <3>1, <3>2
    <3>4. "sta" \in Set(c, now).dhcp => "sta" \in now.dhcp
      BY <3>1, <3>2
    <3>5. QED
      BY <1>5, <1>7, <3>3, <3>4 DEF IInv, AddressHolds
  <2>2. CASE espMode = 3
    <3>1. Set(c, now).fixed = now.fixed \ (DhcpOf(c.args[1]) \ {"ap"})
      BY <1>1, <1>4, AddressEffect DEF ModuleType
    <3>2. DhcpOf(c.args[1]) = Interfaces
      BY <1>4, <2>2 DEF DhcpOf
    <3>3. Set(c, now).fixed = now.fixed \ {"sta"}
      BY <3>1, <3>2 DEF Interfaces
    <3>4. "sta" \notin want
      BY <1>3, <2>2
    <3>5. QED
      BY <1>5, <1>7, <3>3, <3>4 DEF IInv, AddressHolds
  <2>3. QED
    BY <1>3, <2>1, <2>2
<1>9. InterfaceAsked'
  <2>1. clean' => "ap" \in On(now'.mode)
    BY <1>1, <1>3, <1>6 DEF On, Interfaces
  <2>2. QED
    BY <1>1, <1>3, <1>5, <2>1 DEF InterfaceAsked, None
<1>10. FormKnown' /\ WithinCall'
  BY <1>1, <1>5 DEF IInv, FormKnown, WithinCall
<1>11. QED
  BY <1>1, <1>5, <1>6, <1>8, <1>9, <1>10 DEF IInv, NoAutoStart

LEMMA SendNextStep == IInv /\ sendNext => IInv'
<1> SUFFICES ASSUME IInv, sendNext PROVE IInv'
  OBVIOUS
<1>1. /\ pc = "todo" /\ ModuleType' /\ DriverType' /\ TodoType' /\ clean' \in BOOLEAN
      /\ UNCHANGED <<curMode, begun, restarts>>
  BY NextCommand
<1>2. /\ up' \in {up, "ap"} /\ want' \subseteq Interfaces /\ kept' \in BOOLEAN
  <2>1. HistoryType /\ curMode \in BOOLEAN
    BY DEF IInv, TypeOK, DriverType
  <2>2. CASE Tail(todo) # <<>>
    BY <2>1, <2>2, NextCommand DEF HistoryType
  <2>3. CASE Tail(todo) = <<>>
    <3>1. up' \in {up, "ap"}
      BY <2>3, NextCommand
    <3>2. kept' \in BOOLEAN
      BY <1>1, <2>1, <2>3, NextCommand DEF HistoryType
    <3>3. want' \subseteq want \cup Interfaces
      BY <2>3, NextCommand DEF Interfaces
    <3>4. QED
      BY <2>1, <3>1, <3>2, <3>3 DEF HistoryType
  <2>4. QED
    BY <2>2, <2>3
<1>3. TypeOK'
  <2>1. HistoryType'
    BY <1>1, <1>2 DEF IInv, TypeOK, HistoryType, Interfaces
  <2>2. QED
    BY <1>1, <2>1 DEF TypeOK
<1>4. \/ Resetting \/ Configuring \/ ConfiguringAP
      \/ /\ BeginningAP
         /\ todo = <<Cmd("CWDHCP", <<IF espMode = 2 THEN 0 ELSE 2, 1>>, curMode)>>
  BY <1>1 DEF IInv, WithinCall
<1>5. /\ WithinCall' /\ (kept' => curMode')
      /\ InterfaceAsked' /\ FormKnown' /\ AddressHolds' /\ NoAutoStart'
  BY <1>4, ResettingStep, ConfiguringStep, ConfiguringAPStep, BeginningAPStep
<1>6. QED
  BY <1>3, <1>5 DEF IInv

-----------------------------------------------------------------------------
(* The theorems.                                                           *)

LEMMA StepInv == IInv /\ [Next]_vars => IInv'
<1> SUFFICES ASSUME IInv, [Next]_vars PROVE IInv'
  OBVIOUS
<1>1. ASSUME Driver PROVE IInv'
  <2>1. CASE wifiDriverInit \/ attempt \/ checkVersion \/ reset \/ sendNext
    BY <2>1, InitStep, AttemptStep, VersionStep, ResetStep, SendNextStep
  <2>2. CASE begin \/ wifiConnect \/ disconnect \/ leave
    BY <2>2, BeginStep, ConnectStep, PlainBeginStep, PlainSendStep
  <2>3. CASE (\E apOnly \in BOOLEAN : beginAP(apOnly)) \/ setMode \/ wifiStartAP
    BY <2>3, BeginAPStep, SetModeStep, StartAPStep
  <2>4. CASE config \/ configAP \/ ping \/ pinged \/ Queries
    BY <2>4, ConfigStep, ConfigAPStep, PlainBeginStep, PlainSendStep, QueriesStep
  <2>5. QED
    BY <1>1, <2>1, <2>2, <2>3, <2>4 DEF Driver
<1>2. CASE Restart \/ LoseNetwork
  BY <1>2, RestartStep, LoseNetworkStep
<1>3. CASE UNCHANGED vars
  <2>1. /\ UNCHANGED <<hasCur, now, flash, joined, options, busy, lost>>
        /\ UNCHANGED <<espMode, curMode, cache, net, pc, todo, tries, sketch, at, call, ret>>
        /\ UNCHANGED <<up, begun, want, kept, clean, restarts>>
    BY <1>3 DEF vars, espVars, drvVars, ctlVars, hist
  <2>2. TypeOK'
    BY <2>1 DEF IInv, TypeOK, ModuleType, DriverType, TodoType, HistoryType
  <2>3. WithinCall'
    BY <2>1 DEF IInv, WithinCall, BeginningAP, Resetting, Configuring, ConfiguringAP, Taking
  <2>4. QED
    BY <2>1, <2>2, <2>3 DEF IInv, InterfaceAsked, FormKnown, AddressHolds, NoAutoStart
<1>4. QED
  BY <1>1, <1>2, <1>3 DEF Next

(* The inductive invariant holds for every number of lost answers, of      *)
(* restarts and of calls, and however long the module starts up: the       *)
(* driver's place in a call tells what the module has carried out of it.   *)
THEOREM Invariance == Spec => []IInv
<1>1. QED
  BY InitInv, StepInv, PTL DEF Spec

(* localIP asks for the interface that begin or beginAP brought up, which  *)
(* is on.                                                                  *)
THEOREM AsksTheRightInterface == Spec => []InterfaceAsked
<1>1. IInv => InterfaceAsked
  BY DEF IInv
<1>2. QED
  BY <1>1, Invariance, PTL

(* config and configAP use a form of their commands the firmware has, once *)
(* begin or beginAP has tried both.                                        *)
THEOREM UsesAKnownForm == Spec => []FormKnown
<1>1. IInv => FormKnown
  BY DEF IInv
<1>2. QED
  BY <1>1, Invariance, PTL

(* An address that was set holds, and its interface's DHCP stays off, till *)
(* a reset, a restart or a beginAP that wants a station.                   *)
THEOREM AddressStays == Spec => []AddressHolds
<1>1. IInv => AddressHolds
  BY DEF IInv
<1>2. QED
  BY <1>1, Invariance, PTL

(* What the flash says stays as reset has left it as long as no _CUR       *)
(* command has failed.                                                     *)
THEOREM FlashStays == Spec => []NoAutoStart
<1>1. IInv => NoAutoStart
  BY DEF IInv
<1>2. QED
  BY <1>1, Invariance, PTL


-----------------------------------------------------------------------------
(* What a query returns.                                                   *)

Asked == {"SSID", "BSSID", "RSSI", "firmwareVersion", "macAddress", "localIP", "status"}

(* No call but a query, and no restart, ends as one: inside a call of      *)
(* commands `call` is that call. *)
LEMMA OtherCalls ==
  ASSUME IInv, Next, ~Queries, at' # at
  PROVE  call' \notin Asked
<1>1. CASE Restart \/ LoseNetwork
  BY <1>1 DEF Restart, LoseNetwork, ctlVars
<1>2. CASE wifiDriverInit \/ reset \/ begin \/ disconnect \/ config \/ configAP \/ ping
           \/ \E apOnly \in BOOLEAN : beginAP(apOnly)
  <2>1. at' = at
    BY <1>2 DEF wifiDriverInit, reset, begin, disconnect, config, configAP, ping, beginAP, Begin
  <2>2. QED
    BY <2>1
<1>3. CASE attempt
  <2>1. pc = "AT" /\ call' = call
    BY <1>3 DEF attempt
  <2>2. QED
    BY <2>1 DEF IInv, WithinCall, Resetting, Asked
<1>4. CASE sendNext
  <2>1. pc = "todo" /\ call' = call
    BY <1>4 DEF sendNext
  <2>2. Resetting \/ Configuring \/ ConfiguringAP \/ BeginningAP
    BY <2>1 DEF IInv, WithinCall
  <2>3. QED
    BY <2>1, <2>2 DEF Resetting, Configuring, ConfiguringAP, BeginningAP, Asked
<1>5. CASE checkVersion \/ wifiConnect \/ leave \/ pinged
  <2>1. pc \in {"version", "CWJAP_CUR", "CWJAP", "CWQAP", "PING"} /\ call' = call
    BY <1>5 DEF checkVersion, wifiConnect, leave, pinged
  <2>2. QED
    BY <2>1 DEF IInv, WithinCall, Asked
<1>6. CASE setMode \/ wifiStartAP
  <2>1. pc \in {"CWMODE_CUR", "CWMODE", "CWSAP"} /\ call' = call
    BY <1>6 DEF setMode, wifiStartAP
  <2>2. QED
    BY <2>1 DEF IInv, WithinCall, BeginningAP, Asked
<1>7. QED
  BY <1>1, <1>2, <1>3, <1>4, <1>5, <1>6 DEF Next, Driver

(* The answer to a question is the truth or none, and it is none only if   *)
(* the module was starting or the answer was lost (Ask).                   *)
LEMMA AskAnswer ==
  ASSUME ModuleType, NEW truth, NEW answer, Ask(truth, answer)
  PROVE  /\ answer \in {truth, None}
         /\ (answer = None /\ truth # None) => (busy > 0 \/ lost' # lost)
  BY WiFiBounds DEF Ask, ModuleType

(* Each query returns what was copied of the answer. *)
LEMMA QueryAnswers ==
  ASSUME IInv, Queries
  PROVE  Current
<1>0. ModuleType
  BY DEF IInv, TypeOK
<1>1. CASE getCurrentSSID
  <2>1. PICK answer : /\ Ask(Truth("SSID"), answer) /\ call' = "SSID"
                      /\ cache' = Copy(answer) /\ ret' = cache'.ssid
    BY <1>1 DEF getCurrentSSID, Query, Return
  <2>2. cache'.ssid = IF answer = "short" /\ cache.tail THEN Mixed ELSE answer
    BY <2>1 DEF IInv, TypeOK, DriverType, Caches, Copy
  <2>3. answer \in {Truth("SSID"), None}
    BY <1>0, <2>1, AskAnswer
  <2>4. QED
    BY <2>1, <2>2, <2>3 DEF Current, None
<1>2. CASE getCurrentBSSID
  <2>0. PICK answer : /\ Ask(Truth("BSSID"), answer) /\ call' = "BSSID" /\ ret' = cache'.bssid
                      /\ \E copied \in Copied(answer) : cache' = [cache EXCEPT !.bssid = copied]
    BY <1>2 DEF getCurrentBSSID, Query, Return
  <2>1. PICK copied \in Copied(answer) : cache' = [cache EXCEPT !.bssid = copied]
    BY <2>0
  <2>2. cache'.bssid = copied
    BY <2>1 DEF IInv, TypeOK, DriverType, Caches
  <2>3. ret' \in Copied(Truth("BSSID")) \cup {None}
    BY <1>0, <2>0, <2>1, <2>2, AskAnswer DEF Copied
  <2>4. QED
    BY <2>0, <2>3 DEF Current
<1>3. CASE getCurrentRSSI \/ getMacAddress
  <2>1. PICK c \in {"RSSI", "macAddress"} : \E answer :
          Ask(Truth(c), answer) /\ call' = c /\ ret' \in Copied(answer)
    BY <1>3 DEF getCurrentRSSI, getMacAddress, Query, Return
  <2>2. ret' \in Copied(Truth(c)) \cup {None}
    BY <1>0, <2>1, AskAnswer DEF Copied
  <2>3. QED
    BY <2>1, <2>2 DEF Current
<1>4. CASE getFwVersion
  <2>1. PICK answer : /\ Ask(Truth("firmwareVersion"), answer) /\ call' = "firmwareVersion"
                      /\ ret' = answer
    BY <1>4 DEF getFwVersion, Query, Return
  <2>2. QED
    BY <1>0, <2>1, AskAnswer DEF Current
<1>5. CASE localIP
  <2>1. PICK question \in {"STAIP", "CIPAP"} : \E answer :
          Ask(Truth(question), answer) /\ call' = "localIP" /\ ret' = answer
    BY <1>5 DEF localIP, Query, Return
  <2>2. QED
    BY <1>0, <2>1, AskAnswer DEF Current
<1>6. CASE getConnectionStatus
  <2>0. PICK answer : /\ Ask(Truth("status"), answer) /\ call' = "status"
                      /\ \E copied \in Copied(answer) :
                           ret' = CASE copied = None    -> "NO_SHIELD"
                                    [] copied = Garbled -> "IDLE_STATUS"
                                    [] OTHER            -> copied
    BY <1>6 DEF getConnectionStatus, Query, Return
  <2>1. PICK copied \in Copied(answer) : ret' = CASE copied = None    -> "NO_SHIELD"
                                                   [] copied = Garbled -> "IDLE_STATUS"
                                                   [] OTHER            -> copied
    BY <2>0
  <2>2. Truth("status") \in {"CONNECTED", "DISCONNECTED"}
    BY DEF Truth
  <2>3. /\ answer \in {Truth("status"), None}
        /\ answer = None => (busy > 0 \/ lost' # lost)
    BY <1>0, <2>0, <2>2, AskAnswer DEF None
  <2>4. CASE answer = None
    BY <2>0, <2>1, <2>3, <2>4 DEF Current, Copied, None
  <2>5. CASE answer # None
    <3>1. copied \in {answer, Garbled} /\ copied # None
      BY <2>1, <2>5 DEF Copied, Garbled, None
    <3>2. ret' \in {Truth("status"), "IDLE_STATUS"}
      BY <2>1, <2>3, <2>5, <3>1
    <3>3. QED
      BY <2>0, <2>2, <2>3, <2>5, <3>2 DEF Current
  <2>6. QED
    BY <2>4, <2>5
<1>7. CASE subnetMask \/ gatewayIP
  <2>1. call' \in {"subnetMask", "gatewayIP"}
    BY <1>7 DEF subnetMask, gatewayIP, Query
  <2>2. QED
    BY <2>1 DEF Current
<1>8. QED
  BY <1>1, <1>2, <1>3, <1>4, <1>5, <1>6, <1>7 DEF Queries

(* A query of the driver returns what the module would say at that moment, *)
(* or nothing; of what an earlier query left in a variable it returns no   *)
(* more than the end of a longer network's name behind the present one's   *)
(* (getCurrentSSID and the others).                                        *)
THEOREM NothingIsStale == Spec => AnswersAreCurrent
<1>1. IInv /\ [Next]_vars => [at' # at => Current]_vars
  <2> SUFFICES ASSUME IInv, Next, at' # at PROVE Current
    BY DEF vars, ctlVars
  <2>1. CASE Queries
    BY <2>1, QueryAnswers
  <2>2. CASE ~Queries
    BY <2>2, OtherCalls DEF Current, Asked
  <2>3. QED
    BY <2>1, <2>2
<1>2. QED
  BY <1>1, Invariance, PTL DEF Spec, AnswersAreCurrent

-----------------------------------------------------------------------------
(* The setups of the examples.                                             *)

(* Where the calls are in an example that set something up. *)
LEMMA ExampleCalls ==
  ASSUME sketch \in Examples
  PROVE  /\ BeginsAt \in 3 .. 5 /\ (sketch = "ConnectWPA" => BeginsAt = 3)
         /\ Len(Calls(sketch)) \in Nat /\ Len(Calls(sketch)) >= BeginsAt
         /\ DOMAIN Calls(sketch) = 1 .. Len(Calls(sketch))
         /\ \A i \in 1 .. Len(Calls(sketch)) :
              /\ Calls(sketch)[i] = "init" <=> i = 1
              /\ Calls(sketch)[i] \in {"begin", "beginAP"} <=> i = BeginsAt
              /\ Calls(sketch)[i] = "beginAP" => sketch = "WebServerAP"
              /\ Calls(sketch)[i] \in {"reset", "disconnect"} => i < BeginsAt
              /\ Calls(sketch)[i] \notin {"config", "configAP", "ping"}
<1>1. CASE sketch = "WebServer"
  BY <1>1 DEF Calls, BeginsAt, WebServer
<1>2. CASE sketch = "WebServerLed"
  BY <1>2 DEF Calls, BeginsAt, WebServerLed
<1>3. CASE sketch = "WebServerAP"
  BY <1>3 DEF Calls, BeginsAt, WebServerAP
<1>4. CASE sketch = "WebClient"
  BY <1>4 DEF Calls, BeginsAt, WebClient
<1>5. CASE sketch = "UdpNTPClient"
  BY <1>5 DEF Calls, BeginsAt, UdpNTPClient
<1>6. CASE sketch = "ConnectWPA"
  BY <1>6 DEF Calls, BeginsAt, ConnectWPA
<1>7. QED
  BY <1>1, <1>2, <1>3, <1>4, <1>5, <1>6 DEF Examples

(* Where an example goes after a call: on, to its end, back to the start of*)
(* ConnectWPA's loop, or to the same begin if that has failed (After).     *)
LEMMA ExampleReturns ==
  ASSUME sketch \in Examples, at \in Nat, NEW c, NEW value, Return(c, value)
  PROVE  /\ pc' = "idle" /\ sketch' = sketch
         /\ \/ at' = 0
            \/ at' = at /\ c = "begin" /\ value = "CONNECT_FAILED"
            \/ at' = 4 /\ sketch = "ConnectWPA" /\ at = 8
            \/ at' = at + 1 /\ ~(c = "begin" /\ value = "CONNECT_FAILED")
<1>1. Len(ConnectWPA) = 8
  BY DEF ConnectWPA
<1>2. QED
  BY <1>1 DEF Return, After, stopped, Examples

(* An undisturbed example was so before, and what it sends is answered.    *)
LEMMA StillUndisturbed ==
  ASSUME IInv, Next, Undisturbed', ~wifiDriverInit
  PROVE  Undisturbed /\ sketch' = sketch
<1>0. /\ lost \in Nat /\ restarts \in Nat /\ tries \in Nat
  BY WiFiBounds DEF IInv, TypeOK, ModuleType, HistoryType, DriverType
<1>1. CASE Restart \/ LoseNetwork
  <2>1. CASE Restart
    BY <1>0, <2>1 DEF Restart, ctlVars, Undisturbed
  <2>2. CASE LoseNetwork
    BY <2>2 DEF LoseNetwork, ctlVars, Undisturbed
  <2>3. QED
    BY <1>1, <2>1, <2>2
<1>2. CASE reset \/ begin \/ disconnect \/ config \/ configAP \/ ping
           \/ \E apOnly \in BOOLEAN : beginAP(apOnly)
  <2>1. /\ UNCHANGED <<espVars, restarts, sketch>> /\ tries' = tries
    BY <1>2 DEF reset, begin, disconnect, config, configAP, ping, beginAP, Begin
  <2>2. QED
    BY <2>1 DEF Undisturbed, espVars
<1>3. CASE attempt \/ sendNext \/ wifiConnect \/ leave \/ setMode \/ wifiStartAP \/ pinged
  <2>1. \E c, answer : Send(c, answer)
    <3>1. CASE attempt
      BY <3>1 DEF attempt
    <3>2. CASE sendNext
      BY <3>2 DEF sendNext
    <3>3. CASE wifiConnect
      BY <3>3 DEF wifiConnect
    <3>4. CASE leave \/ pinged
      BY <3>4 DEF leave, pinged
    <3>5. CASE setMode \/ wifiStartAP
      BY <3>5 DEF setMode, wifiStartAP
    <3>6. QED
      BY <1>3, <3>1, <3>2, <3>3, <3>4, <3>5
  <2>2. lost' = lost \/ lost' = lost + 1
    BY <2>1 DEF Send
  <2>3. restarts' = restarts
    BY <1>3 DEF attempt, sendNext, wifiConnect, leave, setMode, wifiStartAP, pinged
  <2>4. tries' = tries \/ tries' = tries + 1
    BY <1>3 DEF attempt, sendNext, wifiConnect, leave, setMode, wifiStartAP, pinged
  <2>5. sketch' = sketch
    BY <1>3 DEF attempt, sendNext, wifiConnect, leave, setMode, wifiStartAP, pinged, Goto, Return
  <2>6. QED
    BY <1>0, <2>2, <2>3, <2>4, <2>5 DEF Undisturbed
<1>4. CASE checkVersion \/ Queries
  <2>1. (\E truth, answer : Ask(truth, answer)) \/ UNCHANGED espVars
    BY <1>4 DEF checkVersion, Queries, Query, getCurrentSSID, getCurrentBSSID, getCurrentRSSI,
                getFwVersion, getMacAddress, localIP, getConnectionStatus, subnetMask, gatewayIP
  <2>2. lost' = lost \/ lost' = lost + 1
    BY <2>1 DEF Ask, espVars
  <2>3. UNCHANGED <<restarts, tries, sketch>>
    BY <1>4 DEF checkVersion, Queries, Query, getCurrentSSID, getCurrentBSSID, getCurrentRSSI,
                getFwVersion, getMacAddress, localIP, getConnectionStatus, subnetMask, gatewayIP,
                Return
  <2>4. QED
    BY <1>0, <2>2, <2>3 DEF Undisturbed
<1>5. QED
  BY <1>1, <1>2, <1>3, <1>4 DEF Next, Driver

LEMMA SendAnswered ==
  ASSUME ModuleType, busy = 0, lost = 0, lost' = 0, NEW c, NEW answer, Send(c, answer)
  PROVE  /\ busy' = 0
         /\ c.name # "RST" => options \subseteq options'
         /\ (c.name # "RST" /\ ~Impossible(c) /\ ~MayFail(c)) => {c.name} \cap {"CIPMUX", "CIPDINFO"} \subseteq options'
<1>1. busy' = 0 /\ answer # "timeout"
  BY DEF Send
<1>2. \/ answer = "OK" /\ Execute(c)
      \/ answer = "ERROR" /\ (Impossible(c) \/ MayFail(c)) /\ NotDone
  BY DEF Send
<1>3. QED
  BY <1>1, <1>2 DEF Execute, NotDone

(* What Course says inside a call and between two. *)
LEMMA InsideCall ==
  ASSUME IInv, Course, Undisturbed, pc # "idle"
  PROVE  /\ at \in 1 .. Len(Calls(sketch)) /\ call = Calls(sketch)[at] /\ at \in Nat
         /\ call # "init" => at > 1 /\ busy = 0
         /\ call \notin {"init", "reset"} => options = {"CIPMUX", "CIPDINFO"}
         /\ call \in {"begin", "beginAP"} <=> at = BeginsAt
<1>1. sketch \in Examples
  BY DEF Undisturbed
<1>2. at \in 1 .. Len(Calls(sketch)) /\ call = Calls(sketch)[at]
  BY <1>1, ExampleCalls DEF Course
<1>3. at \in Nat
  BY DEF IInv, TypeOK, DriverType
<1>4. call # "init" => at > 1
  BY <1>1, <1>2, <1>3, ExampleCalls
<1>5. QED
  BY <1>1, <1>2, <1>3, <1>4, ExampleCalls DEF Course, SettingUp

(* The beginning of a call. *)
LEMMA CourseBegin ==
  ASSUME IInv, Course, Undisturbed, NEW c, NEW first, Begin(c, first),
         first \in {"todo", "CWJAP_CUR", "CWQAP", "CWMODE_CUR", "PING"},
         c \in {"reset", "begin", "disconnect", "config", "configAP", "ping", "beginAP"},
         c = "reset" => first = "todo" /\ todo' = ResetCommands,
         c \notin {"reset", "config", "configAP"} => first # "todo"
  PROVE  Course'
<1>1. /\ pc = "idle" /\ pc' = first /\ call' = c
      /\ UNCHANGED <<options, busy, sketch, at>>
  BY BeginEffect
<1>2. sketch \in Examples /\ sketch # "any"
  BY DEF Undisturbed, Examples
<1>3. at \in DOMAIN Calls(sketch) /\ Calls(sketch)[at] = c
  BY <1>2 DEF Begin, Calling
<1>4. at \in 1 .. Len(Calls(sketch)) /\ at > 1 /\ at \in Nat
  BY <1>2, <1>3, ExampleCalls
<1>5. busy = 0 /\ options = {"CIPMUX", "CIPDINFO"}
  BY <1>1, <1>4 DEF Course, SettingUp
<1>6. c \notin {"config", "configAP", "ping"} /\ ~(at > BeginsAt)
  BY <1>2, <1>3, <1>4, ExampleCalls
<1>7. SettingUp' => /\ c = "reset" /\ todo' = ResetRest(1) /\ 1 \in DOMAIN ResetCommands
  BY <1>1, <1>6, AllOfReset DEF SettingUp
<1>8. SettingUp' => \E k \in DOMAIN ResetCommands :
                      /\ todo' = ResetRest(k)
                      /\ k > 4 => "CIPMUX" \in options'
                      /\ k > 5 => "CIPDINFO" \in options'
  BY <1>7
<1>9. BeginsAt' = BeginsAt /\ Calls(sketch)' = Calls(sketch)
  BY <1>1 DEF BeginsAt, Calls
<1>10. QED
  BY <1>1, <1>2, <1>3, <1>4, <1>5, <1>6, <1>8, <1>9 DEF Course

(* A command of a call, init and reset excepted: on to the next command,   *)
(* or back to the sketch. *)
LEMMA CourseCommand ==
  ASSUME IInv, Course, Undisturbed, Undisturbed', pc \notin {"idle", "AT"},
         call \notin {"init", "reset"}, call' = call, sketch' = sketch,
         NEW c, NEW answer, Send(c, answer), c.name # "RST",
         call \notin {"begin", "beginAP"} => up' = up,
         \/ pc' # "idle" /\ at' = at
         \/ \E value : /\ Return(call, value)
                       /\ (call = "begin" /\ value # "CONNECT_FAILED") => up' = "sta"
  PROVE  Course'
<1>0. sketch \in Examples /\ lost = 0 /\ lost' = 0 /\ ModuleType
  BY DEF Undisturbed, IInv, TypeOK
<1>1. /\ at \in 1 .. Len(Calls(sketch)) /\ call = Calls(sketch)[at] /\ at \in Nat
      /\ at > 1 /\ busy = 0 /\ options = {"CIPMUX", "CIPDINFO"}
      /\ call \in {"begin", "beginAP"} <=> at = BeginsAt
  BY InsideCall
<1>2. busy' = 0 /\ options' = {"CIPMUX", "CIPDINFO"}
  <2>1. busy' = 0 /\ options \subseteq options'
    BY <1>0, <1>1, SendAnswered
  <2>2. options' \subseteq {"CIPMUX", "CIPDINFO"}
    BY <1>1, <2>1 DEF Send, Execute, NotDone, StartUp
  <2>3. QED
    BY <1>1, <2>1, <2>2
<1>3. BeginsAt' = BeginsAt /\ Calls(sketch)' = Calls(sketch)
  BY DEF BeginsAt, Calls
<1>4. ~SettingUp'
  BY DEF SettingUp
<1>5. at \in DOMAIN Calls(sketch) /\ BeginsAt \in 3 .. 5
  BY <1>0, <1>1, ExampleCalls
<1>6. CASE pc' # "idle" /\ at' = at
  <2>1. at > BeginsAt /\ sketch # "WebServerAP" => up' = "sta"
    BY <1>1, <1>5 DEF Course
  <2>2. QED
    BY <1>1, <1>2, <1>3, <1>4, <1>5, <1>6, <2>1 DEF Course
<1>7. CASE \E value : /\ Return(call, value)
                      /\ (call = "begin" /\ value # "CONNECT_FAILED") => up' = "sta"
  <2>1. PICK value : /\ Return(call, value)
                     /\ (call = "begin" /\ value # "CONNECT_FAILED") => up' = "sta"
    BY <1>7
  <2>2. /\ pc' = "idle"
        /\ \/ at' = 0
           \/ at' = at /\ call = "begin" /\ value = "CONNECT_FAILED"
           \/ at' = 4 /\ sketch = "ConnectWPA" /\ at = 8
           \/ at' = at + 1 /\ ~(call = "begin" /\ value = "CONNECT_FAILED")
    BY <1>0, <1>1, <2>1, ExampleReturns
  <2>3. ASSUME at' > BeginsAt, sketch # "WebServerAP" PROVE up' = "sta"
    <3>1. CASE at > BeginsAt
      BY <1>1, <1>5, <3>1, <2>3 DEF Course
    <3>2. CASE ~(at > BeginsAt)
      <4>1. at = BeginsAt /\ at' = at + 1 /\ ~(call = "begin" /\ value = "CONNECT_FAILED")
        BY <1>1, <1>5, <2>2, <2>3, <3>2
      <4>2. call = "begin"
        BY <1>0, <1>1, <2>3, <4>1, ExampleCalls
      <4>3. QED
        BY <2>1, <4>1, <4>2
    <3>3. QED
      BY <3>1, <3>2
  <2>4. QED
    BY <1>2, <1>3, <1>4, <2>2, <2>3 DEF Course
<1>8. QED
  BY <1>6, <1>7

(* wifiConnect, disconnect and beginAP. *)
LEMMA CourseCommands ==
  ASSUME IInv, Course, Undisturbed, Undisturbed', sketch' = sketch,
         wifiConnect \/ leave \/ pinged \/ setMode \/ wifiStartAP
  PROVE  Course'
<1>1. CASE wifiConnect
  <2>1. PICK answer : Send(Cmd("CWJAP", <<net>>, pc = "CWJAP_CUR"), answer)
                      /\ up' = (IF answer = "OK" THEN "sta" ELSE None)
                      /\ \/ answer = "OK" /\ Return(call, "CONNECTED")
                         \/ answer # "OK" /\ pc = "CWJAP_CUR" /\ Goto("CWJAP")
                         \/ answer # "OK" /\ pc = "CWJAP" /\ Return(call, "CONNECT_FAILED")
    BY <1>1 DEF wifiConnect
  <2>2. pc \in {"CWJAP_CUR", "CWJAP"} /\ call = "begin" /\ call' = call
    BY <1>1 DEF wifiConnect, IInv, WithinCall
  <2>3. \/ pc' # "idle" /\ at' = at
        \/ \E value : /\ Return(call, value)
                      /\ (call = "begin" /\ value # "CONNECT_FAILED") => up' = "sta"
    <3>1. CASE Goto("CWJAP")
      BY <3>1 DEF Goto
    <3>2. CASE answer = "OK" /\ Return(call, "CONNECTED")
      BY <2>1, <3>2
    <3>3. CASE Return(call, "CONNECT_FAILED")
      BY <3>3
    <3>4. QED
      BY <2>1, <3>1, <3>2, <3>3
  <2>4. Cmd("CWJAP", <<net>>, pc = "CWJAP_CUR").name # "RST"
    BY DEF Cmd
  <2>5. QED
    BY <2>1, <2>2, <2>3, <2>4, CourseCommand
<1>2. CASE leave \/ pinged
  <2>1. PICK c \in {Cmd("CWQAP", <<>>, FALSE), Cmd("PING", <<>>, FALSE)} : \E answer : Send(c, answer)
    BY <1>2 DEF leave, pinged
  <2>2. c.name # "RST"
    BY <2>1 DEF Cmd
  <2>3. pc \in {"CWQAP", "PING"} /\ call' = call /\ up' = up /\ \E value : Return(call, value)
    <3>1. CASE leave
      BY <3>1 DEF leave, hist, IInv, WithinCall
    <3>2. CASE pinged
      BY <3>2 DEF pinged, hist
    <3>3. QED
      BY <1>2, <3>1, <3>2
  <2>4. call \in {"disconnect", "ping"}
    BY <2>3 DEF IInv, WithinCall
  <2>5. \E value : /\ Return(call, value)
                   /\ (call = "begin" /\ value # "CONNECT_FAILED") => up' = "sta"
    BY <2>3, <2>4
  <2>6. QED
    BY <2>1, <2>2, <2>3, <2>4, <2>5, CourseCommand
<1>3. CASE setMode \/ wifiStartAP
  <2>1. \E answer : \/ Send(Cmd("CWMODE", <<espMode>>, pc = "CWMODE_CUR"), answer)
                    \/ Send(Cmd("CWSAP", <<>>, curMode), answer)
    BY <1>3 DEF setMode, wifiStartAP
  <2>2. PICK c : c.name # "RST" /\ \E answer : Send(c, answer)
    BY <2>1 DEF Cmd
  <2>3. /\ pc \in {"CWMODE_CUR", "CWMODE", "CWSAP"} /\ call' = call
        /\ (pc' # "idle" /\ at' = at) \/ \E value : Return(call, value)
    <3>1. CASE setMode
      BY <3>1 DEF setMode, Goto
    <3>2. CASE wifiStartAP
      BY <3>2 DEF wifiStartAP, Goto
    <3>3. QED
      BY <1>3, <3>1, <3>2
  <2>4. call = "beginAP"
    BY <2>3 DEF IInv, WithinCall, BeginningAP
  <2>5. QED
    BY <2>2, <2>3, <2>4, CourseCommand
<1>4. QED
  BY <1>1, <1>2, <1>3

(* The attempts of init, and its question at the end. *)
LEMMA CourseInit ==
  ASSUME IInv, Course, Undisturbed, Undisturbed', sketch' = sketch, attempt \/ checkVersion
  PROVE  Course'
<1>0. /\ sketch \in Examples /\ lost = 0 /\ lost' = 0 /\ ModuleType /\ tries \in Nat
      /\ BeginsAt' = BeginsAt /\ Calls(sketch)' = Calls(sketch) /\ BeginsAt \in 3 .. 5
  BY ExampleCalls DEF Undisturbed, IInv, TypeOK, DriverType, BeginsAt, Calls
<1>1. pc \in {"AT", "version"} /\ call = "init" /\ call' = call
  BY DEF attempt, checkVersion, IInv, WithinCall
<1>2. at = 1 /\ 1 \in DOMAIN Calls(sketch) /\ Calls(sketch)[1] = "init"
  BY <1>0, <1>1, InsideCall, ExampleCalls
<1>3. CASE attempt
  <2>1. PICK answer \in Answers :
          /\ Send(Cmd("AT", <<>>, FALSE), answer)
          /\ IF answer = "OK" THEN Goto("todo") /\ todo' = ResetCommands /\ UNCHANGED tries
             ELSE /\ tries' = tries + 1
                  /\ IF tries + 1 < 5 THEN Goto("AT") ELSE Return(call, None)
    BY <1>3 DEF attempt
  <2>2. CASE answer = "OK"
    <3>1. busy' = 0 /\ pc' = "todo" /\ at' = at /\ todo' = ResetRest(1) /\ 1 \in DOMAIN ResetCommands
      BY <2>1, <2>2, AllOfReset DEF Send, Goto
    <3>2. QED
      BY <1>0, <1>1, <1>2, <3>1 DEF Course, SettingUp
  <2>3. CASE answer # "OK"
    <3>1. tries' = tries + 1 /\ tries' < 5
      BY <2>1, <2>3 DEF Undisturbed
    <3>2. pc' = "AT" /\ at' = at
      BY <2>1, <2>3, <3>1 DEF Goto
    <3>3. QED
      BY <1>0, <1>1, <1>2, <3>2 DEF Course, SettingUp
  <2>4. QED
    BY <2>2, <2>3
<1>4. CASE checkVersion
  <2>1. /\ pc = "version" /\ Return(call, None) /\ \E answer : Ask("fw", answer)
    BY <1>4 DEF checkVersion
  <2>2. busy = 0 /\ options = {"CIPMUX", "CIPDINFO"}
    BY <2>1 DEF Course, SettingUp
  <2>3. busy' = 0 /\ options' = options
    BY <2>1, <2>2 DEF Ask, NotDone
  <2>4. pc' = "idle" /\ at' \in {0, 2}
    BY <1>0, <1>1, <1>2, <2>1, ExampleReturns
  <2>5. QED
    BY <1>0, <2>2, <2>3, <2>4 DEF Course, SettingUp
<1>5. QED
  BY <1>3, <1>4

(* The commands whose results are ignored: those of init and reset set the *)
(* options one after the other.                                            *)
LEMMA CourseNext ==
  ASSUME IInv, Course, Undisturbed, Undisturbed', sketch' = sketch, sendNext
  PROVE  Course'
<1>0. /\ sketch \in Examples /\ lost = 0 /\ lost' = 0 /\ ModuleType
      /\ BeginsAt' = BeginsAt /\ Calls(sketch)' = Calls(sketch) /\ BeginsAt \in 3 .. 5
  BY ExampleCalls DEF Undisturbed, IInv, TypeOK, BeginsAt, Calls
<1>1. /\ todo # <<>> /\ Head(todo) = todo[1] /\ pc = "todo" /\ todo' = Tail(todo)
      /\ call' = call /\ ModuleType'
      /\ (Tail(todo) # <<>> => pc' = "todo" /\ up' = up)
      /\ (Tail(todo) = <<>> => pc' = (IF call = "init" THEN "version" ELSE "idle"))
      /\ (call # "beginAP" => up' = up)
  BY NextCommand
<1>2. PICK answer \in Answers : Send(todo[1], answer)
  BY NextCommand
<1>3. \/ pc' # "idle" /\ at' = at
      \/ pc' = "idle" /\ call # "init" /\ \E value : Return(call, value) /\ value \in {"CONNECTED", None}
  <2>1. CASE Tail(todo) # <<>>
    BY <2>1 DEF sendNext, Goto
  <2>2. CASE Tail(todo) = <<>>
    <3>1. \/ call = "init" /\ Goto("version")
          \/ call = "beginAP" /\ Return(call, "CONNECTED")
          \/ call \notin {"init", "beginAP"} /\ Return(call, None)
      BY <2>2 DEF sendNext
    <3>2. QED
      BY <3>1 DEF Goto, Return
  <2>3. QED
    BY <2>1, <2>2
<1>4. /\ at \in 1 .. Len(Calls(sketch)) /\ call = Calls(sketch)[at] /\ at \in Nat
      /\ busy = 0
      /\ call \in {"begin", "beginAP"} <=> at = BeginsAt
  BY <1>1, InsideCall DEF Course
<1>5. CASE call \in {"init", "reset"}
  <2>1. PICK k \in DOMAIN ResetCommands :
          /\ todo = ResetRest(k)
          /\ k > 4 => "CIPMUX" \in options
          /\ k > 5 => "CIPDINFO" \in options
    BY <1>1, <1>5 DEF Course, SettingUp
  <2>2. /\ k \in 1 .. 7 /\ DOMAIN ResetCommands = 1 .. 7
        /\ todo[1] = ResetCommands[k] /\ Tail(todo) = ResetRest(k + 1)
        /\ Tail(todo) # <<>> <=> k < 7
    BY <1>1, <2>1, AllOfReset, ResetRestSteps
  <2>3. /\ k > 1 => todo[1].name # "RST"
        /\ k = 4 => todo[1].name = "CIPMUX" /\ ~Impossible(todo[1]) /\ ~MayFail(todo[1])
        /\ k = 5 => todo[1].name = "CIPDINFO" /\ ~Impossible(todo[1]) /\ ~MayFail(todo[1])
    BY <2>2 DEF ResetCommands, Cmd, Impossible, MayFail
  <2>4. /\ busy' = 0
        /\ k > 1 => options \subseteq options'
        /\ k = 4 => "CIPMUX" \in options'
        /\ k = 5 => "CIPDINFO" \in options'
    <3>1. busy' = 0 /\ (todo[1].name # "RST" => options \subseteq options')
      BY <1>0, <1>2, <1>4, SendAnswered
    <3>2. k \in {4, 5} => {todo[1].name} \cap {"CIPMUX", "CIPDINFO"} \subseteq options'
      BY <1>0, <1>2, <1>4, <2>3, SendAnswered
    <3>3. QED
      BY <2>3, <3>1, <3>2
  <2>5. (k > 3 => "CIPMUX" \in options') /\ (k > 4 => "CIPDINFO" \in options')
    BY <2>1, <2>2, <2>4
  <2>6. at < BeginsAt
    BY <1>0, <1>4, <1>5, ExampleCalls
  <2>7. CASE k < 7
    <3>1. SettingUp' /\ pc' = "todo" /\ at' = at /\ k + 1 \in DOMAIN ResetCommands
          /\ todo' = ResetRest(k + 1)
      BY <1>1, <1>3, <1>5, <2>2, <2>7 DEF SettingUp
    <3>2. (k + 1 > 4 => "CIPMUX" \in options') /\ (k + 1 > 5 => "CIPDINFO" \in options')
      BY <2>2, <2>5
    <3>3. at \in DOMAIN Calls(sketch)
      BY <1>0, <1>4, ExampleCalls
    <3>4. QED
      BY <1>0, <1>1, <1>4, <2>4, <2>6, <3>1, <3>2, <3>3 DEF Course
  <2>8. CASE k = 7
    <3>1. options' = {"CIPMUX", "CIPDINFO"}
      <4>1. "CIPMUX" \in options' /\ "CIPDINFO" \in options'
        BY <2>5, <2>8
      <4>2. options' \subseteq {"CIPMUX", "CIPDINFO"}
        BY <1>1 DEF ModuleType
      <4>3. QED
        BY <4>1, <4>2
    <3>2. /\ pc' = (IF call = "init" THEN "version" ELSE "idle") /\ ~SettingUp'
          /\ at' = at \/ at' = 0 \/ at' = at + 1
      <4>1. Tail(todo) = <<>>
        BY <2>2, <2>8
      <4>2. CASE call = "init"
        BY <1>1, <1>3, <4>1, <4>2 DEF SettingUp
      <4>3. CASE call = "reset"
        <5>1. \E value : Return(call, value)
          BY <1>1, <1>3, <4>1, <4>3
        <5>2. at' \in {0, at + 1} \/ (at' = 4 /\ at = 8)
          BY <1>0, <1>4, <4>3, <5>1, ExampleReturns
        <5>3. QED
          BY <1>0, <1>1, <2>6, <4>1, <4>3, <5>2 DEF SettingUp
      <4>4. QED
        BY <1>5, <4>2, <4>3
    <3>3. ~(at' > BeginsAt)
      BY <1>0, <1>4, <2>6, <3>2
    <3>4. at \in DOMAIN Calls(sketch) /\ (call = "init" => at' = at)
      BY <1>0, <1>1, <1>3, <1>4, <2>2, <2>8, ExampleCalls
    <3>5. QED
      BY <1>0, <1>1, <1>4, <2>4, <3>1, <3>2, <3>3, <3>4 DEF Course
  <2>9. QED
    BY <2>2, <2>7, <2>8
<1>6. CASE call \notin {"init", "reset"}
  <2>1. todo[1].name # "RST"
    BY <1>1, <1>6 DEF IInv, WithinCall, Resetting, Configuring, ConfiguringAP, Cmd
  <2>2. call # "begin"
    BY <1>1 DEF IInv, WithinCall, Resetting, Configuring, ConfiguringAP, BeginningAP
  <2>3. \/ pc' # "idle" /\ at' = at
        \/ \E value : /\ Return(call, value)
                      /\ (call = "begin" /\ value # "CONNECT_FAILED") => up' = "sta"
    BY <1>3, <2>2
  <2>4. QED
    BY <1>1, <1>2, <1>6, <2>1, <2>3, CourseCommand
<1>7. QED
  BY <1>5, <1>6

(* The queries. *)
LEMMA CourseQuery ==
  ASSUME IInv, Course, Undisturbed, Undisturbed', sketch' = sketch, Queries
  PROVE  Course'
<1>0. /\ sketch \in Examples /\ sketch # "any" /\ at \in Nat
      /\ BeginsAt' = BeginsAt /\ Calls(sketch)' = Calls(sketch) /\ BeginsAt \in 3 .. 5
  BY ExampleCalls DEF Undisturbed, Examples, IInv, TypeOK, DriverType, BeginsAt, Calls
<1>1. PICK c \in Asked \cup {"subnetMask", "gatewayIP"} :
        /\ Asking(c) /\ \E value : Return(c, value)
        /\ (\E truth, answer : Ask(truth, answer)) \/ UNCHANGED espVars
        /\ up' = up
  <2>1. CASE getCurrentSSID \/ getCurrentBSSID \/ getCurrentRSSI
    BY <2>1 DEF Query, getCurrentSSID, getCurrentBSSID, getCurrentRSSI, hist, Asked
  <2>2. CASE getFwVersion \/ getMacAddress \/ localIP \/ getConnectionStatus
    BY <2>2 DEF Query, getFwVersion, getMacAddress, localIP, getConnectionStatus, hist, Asked
  <2>3. CASE subnetMask
    BY <2>3 DEF Query, subnetMask, hist, Asked
  <2>4. CASE gatewayIP
    BY <2>4 DEF Query, gatewayIP, hist, Asked
  <2>5. QED
    BY <2>1, <2>2, <2>3, <2>4 DEF Queries
<1>2. pc = "idle" /\ at \in 1 .. Len(Calls(sketch)) /\ Calls(sketch)[at] = c
  BY <1>0, <1>1, ExampleCalls DEF Asking, Calling
<1>3. at > 1 /\ at # BeginsAt
  BY <1>0, <1>1, <1>2, ExampleCalls DEF Asked
<1>4. busy = 0 /\ options = {"CIPMUX", "CIPDINFO"}
  BY <1>2, <1>3 DEF Course, SettingUp
<1>5. busy' = 0 /\ options' = options
  BY <1>1, <1>4 DEF Ask, NotDone, espVars
<1>6. pc' = "idle" /\ (at' \in {0, at + 1} \/ (at' = 4 /\ at = 8))
  BY <1>0, <1>1, ExampleReturns DEF Asked
<1>7. at' > BeginsAt /\ sketch # "WebServerAP" => up' = "sta"
  BY <1>0, <1>1, <1>3, <1>6 DEF Course
<1>8. QED
  BY <1>0, <1>4, <1>5, <1>6, <1>7 DEF Course, SettingUp

LEMMA CourseStep ==
  ASSUME IInv, Course, [Next]_vars
  PROVE  Course'
<1> SUFFICES ASSUME Undisturbed' PROVE Course'
  BY DEF Course
<1>1. CASE UNCHANGED vars
  BY <1>1 DEF vars, espVars, ctlVars, hist, Course, Undisturbed, SettingUp, BeginsAt, Calls
<1>2. CASE wifiDriverInit
  <2>1. Begin("init", "AT")
    BY <1>2 DEF wifiDriverInit
  <2>2. pc' = "AT" /\ call' = "init" /\ UNCHANGED <<sketch, at>> /\ Calling("init")
    BY <2>1, BeginEffect DEF Begin
  <2>3. sketch \in Examples /\ sketch # "any"
    BY <2>2 DEF Undisturbed, Examples
  <2>4. at \in DOMAIN Calls(sketch) /\ Calls(sketch)[at] = "init" /\ at = 1
    BY <2>2, <2>3, ExampleCalls DEF Calling
  <2>5. BeginsAt' = BeginsAt /\ Calls(sketch)' = Calls(sketch) /\ BeginsAt \in 3 .. 5
    BY <2>2, <2>3, ExampleCalls DEF BeginsAt, Calls
  <2>6. QED
    BY <2>2, <2>4, <2>5 DEF Course, SettingUp
<1>3. CASE Next /\ ~wifiDriverInit
  <2>1. Undisturbed /\ sketch' = sketch
    BY <1>3, StillUndisturbed
  <2>2. CASE Restart
    <3>1. restarts \in Nat /\ restarts' = restarts + 1
      BY <2>2, WiFiBounds DEF Restart, IInv, TypeOK, HistoryType
    <3>2. QED
      BY <3>1 DEF Undisturbed
  <2>3. CASE LoseNetwork
    BY <2>1, <2>3 DEF LoseNetwork, ctlVars, hist, Course, SettingUp, BeginsAt, Calls
  <2>4. CASE reset \/ begin \/ disconnect \/ config \/ configAP \/ ping
             \/ \E apOnly \in BOOLEAN : beginAP(apOnly)
    <3>1. \/ Begin("reset", "todo") /\ todo' = ResetCommands
          \/ Begin("begin", "CWJAP_CUR") \/ Begin("disconnect", "CWQAP")
          \/ Begin("config", "todo") \/ Begin("configAP", "todo")
          \/ Begin("ping", "PING") \/ Begin("beginAP", "CWMODE_CUR")
      BY <2>4 DEF reset, begin, disconnect, config, configAP, ping, beginAP
    <3>2. QED
      BY <2>1, <3>1, CourseBegin
  <2>5. QED
    BY <1>3, <2>1, <2>2, <2>3, <2>4, CourseCommands, CourseInit, CourseNext, CourseQuery
       DEF Next, Driver
<1>4. QED
  BY <1>1, <1>2, <1>3

(* The inductive invariant along the calls of an example. *)
THEOREM Courses == Spec => []OnCourse
<1>1. Init => Course
  <2> SUFFICES ASSUME Init PROVE Course
    OBVIOUS
  <2>1. at = 1 /\ pc = "idle"
    BY DEF Init
  <2>2. BeginsAt \in {3, 5}
    BY DEF BeginsAt
  <2>3. QED
    BY <2>1, <2>2 DEF Course, SettingUp
<1>2. QED
  BY <1>1, Invariance, CourseStep, PTL DEF Spec, OnCourse

(* When the setup of an example is over the module is set up as the rest of*)
(* the sketch needs it, on whatever module and network, if it answered one *)
(* of init's ATs, then everything, and did not restart (init, reset and    *)
(* begin). *)
THEOREM ExamplesAreReady == Spec => []ReadyToServe
<1>1. OnCourse => ReadyToServe
  <2> SUFFICES ASSUME OnCourse, SetUp, lost = 0, restarts = 0, tries < 5
               PROVE  options = {"CIPMUX", "CIPDINFO"} /\ (sketch # "WebServerAP" => up = "sta")
    BY DEF ReadyToServe
  <2>1. Undisturbed /\ sketch \in Examples /\ IInv /\ Course /\ at \in Nat
    BY DEF SetUp, Undisturbed, OnCourse, IInv, TypeOK, DriverType
  <2>2. at > BeginsAt /\ BeginsAt \in 3 .. 5
    BY <2>1, ExampleCalls DEF SetUp
  <2>3. ~SettingUp
    <3> SUFFICES ASSUME SettingUp PROVE FALSE
      OBVIOUS
    <3>1. pc # "idle" /\ call \in {"init", "reset"}
      BY DEF SettingUp
    <3>2. at \in 1 .. Len(Calls(sketch)) /\ call = Calls(sketch)[at]
      BY <2>1, <3>1, InsideCall
    <3>3. QED
      BY <2>1, <2>2, <3>1, <3>2, ExampleCalls
  <2>4. QED
    BY <2>1, <2>2, <2>3 DEF Course
<1>2. QED
  BY <1>1, Courses, PTL
=============================================================================
