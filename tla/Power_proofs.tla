----------------------------- MODULE Power_proofs -----------------------------
(***************************************************************************)
(* Proofs about MCPower, the table and standby together, for any modules,  *)
(* any size of the table, any pins and any tables for standby.             *)
(***************************************************************************)
EXTENDS MCPower, Pwrmgr_proofs

-----------------------------------------------------------------------------
(* Standby.                                                                *)

LEMMA ZeroIsEntry == Zero \in Entry
BY StandbyAssumption DEF Zero, Entry, POL_FALLING, POL_RISING

(* At most three entries are armed, and the last that names a pin exists.  *)
LEMMA LastExists ==
  ASSUME NEW places \in SUBSET (0 .. 2), places # {}
  PROVE  LastOf(places) \in places /\ \A j \in places : j <= LastOf(places)
<1>1. \E i \in places : \A j \in places : j <= i
  <2>1. CASE 2 \in places
    BY <2>1
  <2>2. CASE 2 \notin places /\ 1 \in places
    BY <2>2
  <2>3. CASE 2 \notin places /\ 1 \notin places
    <3>1. \A j \in places : j = 0
      <4>1. \A j \in places : j \in 0 .. 2
        OBVIOUS
      <4> QED
        BY <2>3, <4>1
    <3>2. PICK i \in places : TRUE
      OBVIOUS
    <3>3. \A j \in places : j <= i
      BY <3>1, <3>2
    <3> QED
      BY <3>2, <3>3
  <2> QED
    BY <2>1, <2>2, <2>3
<1> QED
  BY <1>1 DEF LastOf

LEMMA ArmedBy ==
  ASSUME NEW used, NEW n \in 0 .. 3, NEW p \in Pins
  PROVE  \/ Armed(used, n)[p] = armed[p] /\ \A i \in 0 .. n - 1 : used[i].pin # p
         \/ \E i \in 0 .. n - 1 : used[i].pin = p /\ Armed(used, n)[p] = used[i].type
<1>1. Naming(used, n, p) \in SUBSET (0 .. 2)
  BY DEF Naming
<1>2. CASE Naming(used, n, p) = {}
  BY <1>2 DEF Armed, Naming
<1>3. CASE Naming(used, n, p) # {}
  <2>1. LastOf(Naming(used, n, p)) \in Naming(used, n, p)
    BY <1>1, <1>3, LastExists
  <2>2. Armed(used, n)[p] = used[LastOf(Naming(used, n, p))].type
    BY <1>3 DEF Armed
  <2> QED
    BY <2>1, <2>2 DEF Naming
<1> QED
  BY <1>2, <1>3

(* hal_pwrmgr_enter_standby keeps the types of what it writes.             *)
LEMMA EnterTypes ==
  ASSUME StandbyTypeOK, NEW used, NEW n \in Nat, Enter(used, n),
         \A i \in 0 .. n - 1 : i <= 2 => used[i] \in Entry
  PROVE  /\ pwroff' \in [Places -> Entry] /\ number' \in 0 .. 255
         /\ armed' \in [Pins -> {POL_FALLING, POL_RISING, Off}]
         /\ state' = "standby" /\ cnt' = 0
<1> DEFINE last == IF n > WAKEUP_PIN_MAX THEN WAKEUP_PIN_MAX ELSE n
<1>1. /\ last \in 0 .. 3 /\ last <= n
      /\ pwroff' = Copied(used, last) /\ armed' = Armed(used, last)
      /\ number' = (number + last) % 256 /\ state' = "standby" /\ cnt' = 0
  BY DEF Enter, WAKEUP_PIN_MAX
<1> HIDE DEF last
<1>2. \A i \in 0 .. last - 1 : used[i] \in Entry
  BY <1>1
<1>3. pwroff' \in [Places -> Entry]
  BY <1>1, <1>2 DEF Copied, Places, StandbyTypeOK, WAKEUP_PIN_MAX
<1>4. armed' \in [Pins -> {POL_FALLING, POL_RISING, Off}]
  <2>1. ASSUME NEW p \in Pins PROVE Armed(used, last)[p] \in {POL_FALLING, POL_RISING, Off}
    <3>1. armed[p] \in {POL_FALLING, POL_RISING, Off}
      BY DEF StandbyTypeOK
    <3>2. ASSUME NEW i \in 0 .. last - 1
          PROVE  used[i].type \in {POL_FALLING, POL_RISING, Off}
      BY <1>2 DEF Entry
    <3> QED
      BY <1>1, <3>1, <3>2, ArmedBy
  <2> QED
    BY <1>1, <2>1 DEF Armed
<1>5. number' \in 0 .. 255
  BY <1>1 DEF StandbyTypeOK
<1> QED
  BY <1>1, <1>3, <1>4, <1>5

LEMMA StandbyTypes ==
  ASSUME StandbyTypeOK, [StandbyNext]_svars
  PROVE  StandbyTypeOK'
<1>1. CASE EnterStandby
  <2>1. PICK c \in Configs :
          cfg' = c /\ Enter([i \in 0 .. Len(c) - 1 |-> c[i + 1]], Len(c))
    BY <1>1 DEF EnterStandby
  <2>2. c \in Seq(Entry) /\ Len(c) \in Nat
    BY StandbyAssumption
  <2> DEFINE used == [i \in 0 .. Len(c) - 1 |-> c[i + 1]]
  <2>3. \A i \in 0 .. Len(c) - 1 : i <= 2 => used[i] \in Entry
    BY <2>2
  <2>4. Enter(used, Len(c))
    BY <2>1
  <2> HIDE DEF used
  <2>5. /\ pwroff' \in [Places -> Entry] /\ number' \in 0 .. 255
        /\ armed' \in [Pins -> {POL_FALLING, POL_RISING, Off}]
        /\ state' = "standby" /\ cnt' = 0
    BY <2>2, <2>3, <2>4, EnterTypes
  <2> QED
    BY <1>1, <2>1, <2>5, StandbyAssumption DEF EnterStandby, StandbyTypeOK
<1>2. CASE NotFound \/ Released
  <2>1. Enter(pwroff, number) /\ UNCHANGED <<level, cfg, found>>
    BY <1>2 DEF NotFound, Released, Return
  <2>2. \A i \in 0 .. number - 1 : i <= 2 => pwroff[i] \in Entry
    BY DEF StandbyTypeOK, Places, WAKEUP_PIN_MAX
  <2>3. number \in Nat
    BY DEF StandbyTypeOK
  <2>4. /\ pwroff' \in [Places -> Entry] /\ number' \in 0 .. 255
        /\ armed' \in [Pins -> {POL_FALLING, POL_RISING, Off}]
        /\ state' = "standby" /\ cnt' = 0
    BY <2>1, <2>2, <2>3, EnterTypes
  <2> QED
    BY <2>1, <2>4, StandbyAssumption DEF StandbyTypeOK
<1>3. ASSUME NEW i \in 0 .. WAKEUP_PIN_MAX, Search(i) PROVE StandbyTypeOK'
  <2>1. PICK e \in At(i) : found' = e
    BY <1>3 DEF Search
  <2>2. e \in Entry
    BY DEF At, StandbyTypeOK
  <2> QED
    BY <1>3, <2>1, <2>2, StandbyAssumption DEF Search, StandbyTypeOK
<1>4. CASE Sample
  BY <1>4, StandbyAssumption DEF Sample, StandbyTypeOK, Entry
<1>5. CASE Boot
  BY <1>5, ZeroIsEntry, StandbyAssumption DEF Boot, StandbyTypeOK, Zeroed, Disarmed, Off
<1>6. CASE Turn
  BY <1>6 DEF Turn, StandbyTypeOK
<1>7. CASE WakeUp
  BY <1>7 DEF WakeUp, StandbyTypeOK
<1>8. CASE UNCHANGED svars
  BY <1>8 DEF svars, StandbyTypeOK
<1> QED
  BY <1>1, <1>2, <1>3, <1>4, <1>5, <1>6, <1>7, <1>8 DEF StandbyNext


(* A table for standby is well named when no two of its entries disagree   *)
(* about a pin.                                                            *)
WellNamed ==
  \A c \in Configs : \A i, j \in 1 .. Len(c) : c[i].pin = c[j].pin => c[i].type = c[j].type

(* Standby finds the table as the application filled it, and it is empty   *)
(* after every boot.                                                       *)
TableKept ==
  IF state = "running"
  THEN pwroff = Zeroed
  ELSE /\ cfg \in Configs
       /\ \A i \in Places : pwroff[i] = IF i < Len(cfg) THEN cfg[i + 1] ELSE Zero
       /\ \A i \in 1 .. Len(cfg) : Waiting(i) \/ Overruled(i)

LEMMA EnterTable ==
  ASSUME StandbyTypeOK, TableKept, WellNamed, EnterStandby
  PROVE  TableKept'
<1>1. PICK c \in Configs :
        cfg' = c /\ Enter([i \in 0 .. Len(c) - 1 |-> c[i + 1]], Len(c))
  BY DEF EnterStandby
<1>2. c \in Seq(Entry) /\ Len(c) \in 1 .. 3
  BY StandbyAssumption DEF WAKEUP_PIN_MAX
<1>3. pwroff = Zeroed
  BY DEF EnterStandby, TableKept
<1> DEFINE used == [i \in 0 .. Len(c) - 1 |-> c[i + 1]]
<1>4. pwroff' = Copied(used, Len(c)) /\ armed' = Armed(used, Len(c)) /\ state' = "standby"
  BY <1>1, <1>2 DEF Enter, WAKEUP_PIN_MAX
<1>5. \A i \in Places : pwroff'[i] = IF i < Len(c) THEN c[i + 1] ELSE Zero
  BY <1>2, <1>3, <1>4 DEF Copied, Places, Zeroed, WAKEUP_PIN_MAX
<1>6. ASSUME NEW i \in 1 .. Len(c) PROVE armed'[c[i].pin] = c[i].type
  <2>1. c[i] \in Entry /\ i - 1 \in 0 .. Len(c) - 1 /\ used[i - 1] = c[i]
    BY <1>2
  <2>2. PICK j \in 0 .. Len(c) - 1 :
          used[j].pin = c[i].pin /\ armed'[c[i].pin] = used[j].type
    <3>1. c[i].pin \in Pins /\ Len(c) \in 0 .. 3
      BY <1>2, <2>1 DEF Entry
    <3> HIDE DEF used
    <3>2. ~ \A j \in 0 .. Len(c) - 1 : used[j].pin # c[i].pin
      BY <2>1
    <3> QED
      BY <1>4, <3>1, <3>2, ArmedBy
  <2>3. j + 1 \in 1 .. Len(c) /\ used[j] = c[j + 1]
    BY <1>2
  <2> HIDE DEF used
  <2> QED
    BY <2>2, <2>3 DEF WellNamed
<1>7. \A i \in 1 .. Len(c) : Waiting(i)' \/ Overruled(i)'
  BY <1>1, <1>6 DEF Waiting
<1> QED
  BY <1>1, <1>4, <1>5, <1>7 DEF TableKept

(* A return to standby copies the table to itself and arms it again.       *)
LEMMA ReturnTable ==
  ASSUME StandbyTypeOK, TableKept, WellNamed, state # "running", Return
  PROVE  TableKept'
<1> DEFINE last == IF number > WAKEUP_PIN_MAX THEN WAKEUP_PIN_MAX ELSE number
<1>1. /\ last \in 0 .. 3 /\ UNCHANGED cfg
      /\ pwroff' = Copied(pwroff, last) /\ armed' = Armed(pwroff, last) /\ state' = "standby"
  BY DEF Return, Enter, WAKEUP_PIN_MAX, StandbyTypeOK
<1> HIDE DEF last
<1>2. /\ cfg \in Configs /\ cfg \in Seq(Entry) /\ Len(cfg) \in 1 .. 3
      /\ \A i \in Places : pwroff[i] = IF i < Len(cfg) THEN cfg[i + 1] ELSE Zero
      /\ \A i \in 1 .. Len(cfg) : Waiting(i) \/ Overruled(i)
  BY StandbyAssumption DEF TableKept, WAKEUP_PIN_MAX
<1>3. pwroff' = pwroff
  BY <1>1 DEF Copied, StandbyTypeOK
<1>4. ASSUME NEW i \in 1 .. Len(cfg) PROVE Waiting(i)' \/ Overruled(i)'
  <2>1. cfg[i].pin \in Pins
    <3>1. cfg[i] \in Entry
      BY <1>2
    <3> QED
      BY <3>1 DEF Entry
  <2>2. CASE armed'[cfg[i].pin] = armed[cfg[i].pin]
    <3>1. Waiting(i) \/ Overruled(i)
      BY <1>2
    <3>2. CASE Waiting(i)
      BY <1>1, <2>2, <3>2 DEF Waiting
    <3>3. CASE Overruled(i)
      BY <1>1, <2>2, <3>3 DEF Overruled
    <3> QED
      BY <3>1, <3>2, <3>3
  <2>3. ASSUME NEW j \in 0 .. last - 1,
               pwroff[j].pin = cfg[i].pin, armed'[cfg[i].pin] = pwroff[j].type
        PROVE  Waiting(i)' \/ Overruled(i)'
    <3>1. j \in Places
      BY <1>1 DEF Places, WAKEUP_PIN_MAX
    <3>2. CASE j < Len(cfg)
      <4>1. pwroff[j] = cfg[j + 1] /\ j + 1 \in 1 .. Len(cfg)
        BY <1>1, <1>2, <3>1, <3>2
      <4>2. armed'[cfg[i].pin] = cfg[i].type
        BY <1>2, <2>3, <4>1 DEF WellNamed
      <4> QED
        BY <1>1, <4>2 DEF Waiting
    <3>3. CASE ~ (j < Len(cfg))
      <4>1. pwroff[j] = Zero
        BY <1>2, <3>1, <3>3
      <4>2. cfg[i].pin = P0 /\ armed'[cfg[i].pin] = POL_FALLING
        BY <2>3, <4>1 DEF Zero
      <4>3. Len(cfg) < WAKEUP_PIN_MAX
        BY <1>1, <1>2, <3>3 DEF WAKEUP_PIN_MAX
      <4> QED
        BY <1>1, <4>2, <4>3 DEF Overruled
    <3> QED
      BY <3>2, <3>3
  <2>4. \/ armed'[cfg[i].pin] = armed[cfg[i].pin]
        \/ \E j \in 0 .. last - 1 :
             pwroff[j].pin = cfg[i].pin /\ armed'[cfg[i].pin] = pwroff[j].type
    BY <1>1, <2>1, ArmedBy
  <2> QED
    BY <2>2, <2>3, <2>4
<1> QED
  BY <1>1, <1>2, <1>3, <1>4 DEF TableKept

LEMMA TableStep ==
  ASSUME StandbyTypeOK, TableKept, WellNamed, [StandbyNext]_svars
  PROVE  TableKept'
<1>1. CASE EnterStandby
  BY <1>1, EnterTable
<1>2. CASE NotFound \/ Released
  BY <1>2, ReturnTable DEF NotFound, Released
<1>3. CASE Boot
  BY <1>3 DEF Boot, TableKept
<1>4. CASE WakeUp \/ Sample \/ \E i \in 0 .. WAKEUP_PIN_MAX : Search(i)
  <2>1. /\ UNCHANGED <<cfg, pwroff, armed>>
        /\ state # "running" /\ state' # "running"
    BY <1>4 DEF WakeUp, Sample, Search
  <2> QED
    BY <2>1 DEF TableKept, Waiting, Overruled
<1>5. CASE Turn \/ UNCHANGED svars
  BY <1>5 DEF Turn, svars, TableKept, Waiting, Overruled
<1> QED
  BY <1>1, <1>2, <1>3, <1>4, <1>5 DEF StandbyNext


-----------------------------------------------------------------------------
(* The two together.                                                       *)

PowerVars == <<vars, svars>>

(* What the table, the locks and the gate are in, running or not.          *)
PowerInv == IInv /\ RoomInv /\ StandbyTypeOK /\ (NoSleep => held = {})

(* A step of the whole is one of each part, or the boot's fresh table.     *)
LEMMA Parts ==
  ASSUME [PowerNext]_PowerVars
  PROVE  ([Next]_vars \/ Init') /\ [StandbyNext]_svars
BY DEF PowerNext, PowerVars, Running, InStandby, Leave, Next, Init, NoCall, StandbyNext

LEMMA FreshTable == Init' => IInv' /\ RoomInv'
<1>1. Init => IInv /\ RoomInv
  BY InitInvariant, InitRoom
<1> QED
  BY <1>1, PTL

LEMMA InitStandby == StandbyInit => StandbyTypeOK /\ TableKept
BY ZeroIsEntry, StandbyAssumption
   DEF StandbyInit, StandbyTypeOK, TableKept, Zeroed, Disarmed, Off, Places

LEMMA PowerInvariance == PowerSpec => []PowerInv
<1>1. PowerInit => PowerInv
  BY InitInvariant, InitRoom, InitStandby DEF PowerInit, PowerInv, Init
<1>2. PowerInv /\ [PowerNext]_PowerVars => PowerInv'
  <2> SUFFICES ASSUME PowerInv, [PowerNext]_PowerVars PROVE PowerInv'
    OBVIOUS
  <2>1. StandbyTypeOK'
    BY Parts, StandbyTypes DEF PowerInv
  <2>2. CASE [Next]_vars
    <3>1. IInv'
      BY <2>2, NextInvariant DEF PowerInv
    <3>2. RoomInv'
      BY <2>2, RoomStep DEF PowerInv
    <3>3. NoSleep => held' = {}
      BY <2>2 DEF PowerInv, Next, Lock, Unlock, Register, Unregister, ClearLock, Name, Close, vars
    <3> QED
      BY <2>1, <3>1, <3>2, <3>3 DEF PowerInv
  <2>3. CASE Init'
    BY <2>1, <2>3, FreshTable DEF PowerInv, Init
  <2> QED
    BY <2>2, <2>3, Parts
<1> QED
  BY <1>1, <1>2, PTL DEF PowerSpec, PowerVars

(* Every variable of the table and of standby keeps its type.              *)
THEOREM PowerTypeCorrect == PowerSpec => []PowerTypeOK
<1>1. PowerInv => PowerTypeOK
  BY DEF PowerInv, IInv, PowerTypeOK
<1> QED
  BY <1>1, PowerInvariance, PTL

(* The table's properties survive standby and the boots that end it.       *)
THEOREM PowerTable == PowerSpec => [](GateRespectsLocks /\ HeldIsLocked /\ Compact /\ NoDuplicates)
<1>1. PowerInv => GateRespectsLocks /\ HeldIsLocked /\ Compact /\ NoDuplicates
  BY DEF PowerInv, IInv, RoomInv, GateInv, HeldInv, GateRespectsLocks, HeldIsLocked, IsLocked, Found
<1> QED
  BY <1>1, PowerInvariance, PTL

(* And the unlock of the last lock opens the gate.                         *)
THEOREM PowerLastUnlock == PowerSpec => LastUnlockOpens
<1>1. ASSUME PowerInv, [PowerNext]_PowerVars,
             mCtx[Max - 1] = Free, held # {}, held' = {}, UNCHANGED call
      PROVE  sleep'
  <2>1. CASE [Next]_vars
    BY <1>1, <2>1, LastUnlock DEF PowerInv
  <2>2. CASE Init'
    <3>1. ~ NoSleep
      BY <1>1 DEF PowerInv
    <3> QED
      BY <2>2, <3>1, Zenon DEF Init
  <2> QED
    BY <1>1, <2>1, <2>2, Parts
<1>2. PowerInv /\ [PowerNext]_PowerVars =>
        [mCtx[Max - 1] = Free /\ held # {} /\ held' = {} /\ UNCHANGED call => sleep']_vars
  BY <1>1
<1> QED
  BY <1>2, PowerInvariance, PTL DEF PowerSpec, PowerVars, LastUnlockOpens

(* However often the chip returns to standby, and though each return       *)
(* counts the table's entries again (pwrmgr.c:505): where no two entries   *)
(* disagree about a pin, every pin named is in the table and armed for its *)
(* level, P0 of a short table for that level or for its fall.              *)
THEOREM PinsStayReady == ASSUME WellNamed PROVE PowerSpec => []PinsReady
<1>1. PowerInit => TableKept
  BY InitStandby DEF PowerInit
<1>2. PowerInv /\ TableKept /\ [PowerNext]_PowerVars => TableKept'
  BY Parts, TableStep DEF PowerInv
<1>3. PowerInv /\ TableKept => PinsReady
  <2> SUFFICES ASSUME PowerInv, TableKept, state = "standby", NEW i \in 1 .. Len(cfg)
               PROVE  InTable(i) /\ (Waiting(i) \/ Overruled(i))
    BY DEF PinsReady
  <2>1. cfg \in Configs /\ Len(cfg) \in 1 .. 3
    BY StandbyAssumption DEF TableKept, WAKEUP_PIN_MAX
  <2>2. i - 1 \in Places /\ i - 1 < Len(cfg) /\ (i - 1) + 1 = i
    <3>1. PICK n \in 1 .. 3 : n = Len(cfg)
      BY <2>1
    <3>2. n \in Int /\ n <= 3
      BY <3>1
    <3>3. i \in 1 .. n
      BY <3>1
    <3>4. i \in Int /\ 1 <= i /\ i <= n
      BY <3>2, <3>3
    <3> QED
      BY <3>1, <3>2, <3>4 DEF Places, WAKEUP_PIN_MAX
  <2>3. pwroff[i - 1] = cfg[(i - 1) + 1]
    BY <2>2 DEF TableKept
  <2>4. Waiting(i) \/ Overruled(i)
    <3>1. \A j \in 1 .. Len(cfg) : Waiting(j) \/ Overruled(j)
      BY DEF TableKept
    <3> QED
      BY <3>1
  <2>5. pwroff[i - 1] = cfg[i]
    BY <2>2, <2>3
  <2> QED
    BY <2>4, <2>5 DEF InTable
<1> QED
  BY <1>1, <1>2, <1>3, PowerInvariance, PTL DEF PowerSpec, PowerVars
=============================================================================
