------------------------------ MODULE Standby ------------------------------
(***************************************************************************)
(* Standby in components/pwrmgr.c: the application names the pins that may *)
(* end it; the chip wakes when one of them changes, looks for a pin at its *)
(* level, and boots when that pin stays there for its time.  Otherwise it  *)
(* goes back to standby, with the table it finds in retained RAM.          *)
(*                                                                         *)
(* Times are in samples of 32 ms: on stands for on_time >> 5.              *)
(***************************************************************************)
EXTENDS Integers, Sequences

CONSTANTS
  Pins,       \* the pins of the instance; one of them is P0
  P0,         \* the pin a zeroed entry names
  MaxOn,      \* the longest time of an instance's pin
  Configs     \* the tables the application may call hal_pwrmgr_enter_standby with

POL_FALLING == 0
POL_RISING == 1
WAKEUP_PIN_MAX == 3

Entry == [pin : Pins, type : {POL_FALLING, POL_RISING}, on : 0 .. MaxOn]

ASSUME StandbyAssumption ==
  /\ P0 \in Pins
  /\ MaxOn \in Nat
  /\ \A cfg \in Configs : cfg \in Seq(Entry) /\ Len(cfg) \in 1 .. WAKEUP_PIN_MAX

VARIABLES
  level,      \* the level of each pin
  state,      \* where the chip is
  cfg,        \* what the application asked for
  pwroff,     \* s_pwroff_cfg
  number,     \* pwroff_register_number
  armed,      \* per pin, the level that wakes the chip, or Off
  found,      \* the entry pin_n stands at, once one was found
  cnt         \* the samples it was at its level

svars == <<level, state, cfg, pwroff, number, armed, found, cnt>>

Off == 2
Zero == [pin |-> P0, type |-> POL_FALLING, on |-> 0]
Places == 0 .. WAKEUP_PIN_MAX - 1

StandbyTypeOK ==
  /\ level \in [Pins -> 0 .. 1]
  /\ state \in {"running", "standby", "woken", "sampling"}
  /\ cfg \in Configs \cup {<<>>}
  /\ pwroff \in [Places -> Entry]
  /\ number \in 0 .. 255
  /\ armed \in [Pins -> {POL_FALLING, POL_RISING, Off}]
  /\ found \in Entry
  /\ cnt \in 0 .. MaxOn

Zeroed == [i \in Places |-> Zero]
Disarmed == [p \in Pins |-> Off]

StandbyInit ==
  /\ level \in [Pins -> 0 .. 1]
  /\ state = "running" /\ cfg = <<>>
  /\ pwroff = Zeroed /\ number = 0
  /\ armed = Disarmed
  /\ found = Zero /\ cnt = 0

-----------------------------------------------------------------------------
(* Each entry arms its pin in turn: the last one that names a pin counts.  *)
Naming(used, n, p) == {i \in 0 .. n - 1 : used[i].pin = p}
LastOf(places) == CHOOSE i \in places : \A j \in places : j <= i

Armed(used, n) ==
  [p \in Pins |-> IF Naming(used, n, p) = {} THEN armed[p]
                  ELSE used[LastOf(Naming(used, n, p))].type]

Copied(used, n) == [i \in Places |-> IF i < n THEN used[i] ELSE pwroff[i]]

(* Slip: the bound is the last index.                                      *)
EnterShort(entries, n) ==
  LET last == IF n > WAKEUP_PIN_MAX - 1 THEN WAKEUP_PIN_MAX - 1 ELSE n
  IN  /\ pwroff' = Copied(entries, last)
      /\ armed' = Armed(entries, last)
      /\ number' = (number + last) % 256
      /\ state' = "standby"
      /\ cnt' = 0

(* hal_pwrmgr_enter_standby: at most three entries are armed and copied,   *)
(* in place when they come from the table itself; each one is counted.     *)
(* The pins are inputs, so gpio_wakeup_set does not return early.          *)
Enter(entries, n) ==
  LET last == IF n > WAKEUP_PIN_MAX THEN WAKEUP_PIN_MAX ELSE n
  IN  /\ pwroff' = Copied(entries, last)
      /\ armed' = Armed(entries, last)
      /\ number' = (number + last) % 256
      /\ state' = "standby"
      /\ cnt' = 0

EnterStandby ==
  /\ state = "running"
  /\ \E c \in Configs : cfg' = c /\ Enter([i \in 0 .. Len(c) - 1 |-> c[i + 1]], Len(c))
  /\ UNCHANGED <<level, found>>

(* The ROM runs WAKEUP_PROCESS when an armed pin has its level.            *)
WakeUp ==
  /\ state = "standby"
  /\ \E p \in Pins : armed[p] = level[p]
  /\ state' = "woken"
  /\ UNCHANGED <<level, cfg, pwroff, number, armed, found, cnt>>

(* Entry i of the table.  Behind its end, where one index stands for all,  *)
(* there is whatever the linker put there.                                 *)
At(i) == IF i \in Places THEN {pwroff[i]} ELSE Entry

Match(e) == level[e.pin] = e.type

(* wakeupProcess_standby: the first entry whose pin has its level.  None   *)
(* of those in the table before it has; entries behind the table may.      *)
Search(i) ==
  /\ state = "woken" /\ i < number
  /\ \A j \in Places : j < i => ~Match(pwroff[j])
  /\ \E e \in At(i) : Match(e) /\ found' = e
  /\ state' = "sampling"
  /\ cnt' = 0
  /\ UNCHANGED <<level, cfg, pwroff, number, armed>>

Return ==
  /\ Enter(pwroff, number)
  /\ UNCHANGED <<level, cfg, found>>

NotFound ==
  /\ state = "woken"
  /\ \A j \in Places : j < number => ~Match(pwroff[j])
  /\ Return

(* One turn of the loop: the pin still has its level, for the first cnt    *)
(* samples of the time it must have it.                                    *)
Sample ==
  /\ state = "sampling" /\ Match(found)
  /\ cnt < found.on
  /\ cnt' = cnt + 1
  /\ UNCHANGED <<level, state, cfg, pwroff, number, armed, found>>

Released ==
  /\ state = "sampling" /\ ~Match(found)
  /\ Return

(* The last turn: cnt > on_time >> 5.  The reset reloads the variables.    *)
Boot ==
  /\ state = "sampling" /\ Match(found)
  /\ cnt = found.on
  /\ state' = "running" /\ cfg' = <<>>
  /\ pwroff' = Zeroed /\ number' = 0
  /\ armed' = Disarmed
  /\ found' = Zero /\ cnt' = 0
  /\ UNCHANGED level

(* A pin changes.                                                          *)
Turn ==
  /\ \E p \in Pins : level' = [level EXCEPT ![p] = 1 - @]
  /\ UNCHANGED <<state, cfg, pwroff, number, armed, found, cnt>>

StandbyNext ==
  \/ EnterStandby \/ WakeUp \/ NotFound \/ Sample \/ Released \/ Boot \/ Turn
  \/ \E i \in 0 .. WAKEUP_PIN_MAX : Search(i)

StandbySpec == StandbyInit /\ [][StandbyNext]_svars

-----------------------------------------------------------------------------
(* Entry i of what the application asked for, as it stands in the table    *)
(* and as its pin is armed.                                                *)
InTable(i) == pwroff[i - 1] = cfg[i]
Waiting(i) == armed[cfg[i].pin] = cfg[i].type

(* Where the application named fewer pins than the table holds, a return   *)
(* to standby that counts past them arms P0 for its fall, from an entry    *)
(* nobody asked for.                                                       *)
Overruled(i) ==
  cfg[i].pin = P0 /\ Len(cfg) < WAKEUP_PIN_MAX /\ armed[P0] = POL_FALLING

(* Whatever wakes the chip and however often it goes back, every pin the   *)
(* application named is in the table and wakes the chip (pwrmgr.c:494),    *)
(* all at the level it named but P0, which a short table may have waiting  *)
(* for its fall instead of its rise.                                       *)
PinsReady ==
  state = "standby" =>
    \A i \in 1 .. Len(cfg) : InTable(i) /\ (Waiting(i) \/ Overruled(i))

(* The pins that wake the chip "FROM STANDBY MODE" (include/pwrmgr.h:22)   *)
(* are those of the application's table, each at the level named for it:   *)
(* the entries searched fit the table, and the pins wait for their levels. *)
(* They do neither: a return to standby counts the entries again, so that  *)
(* the second one searches behind the table and arms P0 for its fall.      *)
TableAsNamed ==
  state = "standby" =>
    /\ number <= WAKEUP_PIN_MAX
    /\ \A i \in 1 .. Len(cfg) : Waiting(i)
=============================================================================
