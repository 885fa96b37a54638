------------------------------ MODULE MCPower ------------------------------
(***************************************************************************)
(* The power manager as a whole: the table and the gate while the program  *)
(* runs, and standby, which ends in a boot that finds the table empty.     *)
(***************************************************************************)
EXTENDS Pwrmgr, MCStandby

PowerInit == Init /\ StandbyInit

Running == state = "running" /\ UNCHANGED svars
InStandby == UNCHANGED vars

(* hal_pwrmgr_enter_standby is called by the main program, so no call is   *)
(* under way.  What the table was is lost in the boot that ends standby,   *)
(* and nothing reads it before.                                            *)
Leave ==
  /\ EnterStandby
  /\ call = NoCall
  /\ mCtx' = [i \in Slots |-> Free] /\ sleep' = ~NoSleep /\ held' = {}
  /\ UNCHANGED call

PowerNext ==
  \/ \E m \in Module :
       \/ Lock(m) /\ Running
       \/ Unlock(m) /\ Running
       \/ Register(m) /\ Running
       \/ Unregister(m) /\ Running
  \/ ClearLock /\ Running
  \/ Name /\ Running
  \/ Close /\ Running
  \/ Leave
  \/ WakeUp /\ InStandby
  \/ NotFound /\ InStandby
  \/ Sample /\ InStandby
  \/ Released /\ InStandby
  \/ Boot /\ InStandby
  \/ Turn /\ state # "running" /\ InStandby
  \/ \E i \in 0 .. WAKEUP_PIN_MAX : Search(i) /\ InStandby

PowerSpec == PowerInit /\ [][PowerNext]_<<vars, svars>>

(* Every variable of the table and of standby keeps its type.              *)
PowerTypeOK == TypeOK /\ StandbyTypeOK
=============================================================================
