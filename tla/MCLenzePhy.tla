----------------------------- MODULE MCLenzePhy -----------------------------
(***************************************************************************)
(* Model-checking instances of LenzePhy.  A tick stands for 3.3 ms, a      *)
(* third of rxOnlyTO, so the 5 ms the interrupt handler takes is rounded   *)
(* down to one tick and a channel hears at least as many packets as it     *)
(* could on the chip.                                                      *)
(***************************************************************************)
EXTENDS LenzePhy

(* How many times in a row each periodic event has met a running cycle: an *)
(* observer of LenzePhy that changes nothing of it.                        *)
VARIABLE deferrals

mcvars == <<vars, deferrals>>

MCInit == Init /\ deferrals = [e \in Periodic |-> 0]

Begun(e) == StartCycle(e) /\ deferrals' = [deferrals EXCEPT ![e] = 0]
Deferred(e) == DeferCycle(e) /\ deferrals' = [deferrals EXCEPT ![e] = @ + 1]
Other == UNCHANGED deferrals

(* Next, action by action, with its observer.                              *)
MCNext ==
  \/ TakeEvents /\ Other
  \/ \E e \in Periodic : Begun(e) \/ Deferred(e)
  \/ RxDataProcess /\ Other
  \/ ProcessTxDone /\ Other
  \/ ProcessRxDone /\ Other
  \/ RfStop /\ Other
  \/ RfProgram /\ Other
  \/ RfGo /\ Other
  \/ RfExit /\ Other
  \/ HandlerReturn /\ Other
  \/ IsrEnter /\ Other
  \/ IsrIgnore /\ Other
  \/ IsrBlink /\ Other
  \/ IsrPost /\ Other
  \/ HwPacket /\ Other
  \/ HwDone /\ Other
  \/ Tick /\ Other
  \/ \E e \in Periodic : Expire(e) /\ Other

MCSpec == MCInit /\ [][MCNext]_mcvars /\ Fairness

-----------------------------------------------------------------------------
(* The plan of the intervals.                                              *)

Partner(e) == IF e = "PERIODIC_TX" THEN "PERIODIC_RX" ELSE "PERIODIC_TX"

(* Ticks of a whole cycle: a transmission takes none, its report one; on   *)
(* each channel the dwell time may almost be over when the last reception  *)
(* begins, which lasts a whole receive timeout and its report.             *)
Cycle(e) == IF e = "PERIODIC_TX" THEN 3 ELSE 6 * RxOnlyTO

(* The number of retries a deferred event can need.                        *)
Limit(e) == IF e = "PERIODIC_TX" THEN 4 ELSE 1

(* A retry outlasts an advertising cycle, four of them a scan cycle, and   *)
(* an interval a cycle and a retry.                                        *)
ASSUME Paced ==
  /\ \A e \in Periodic : Cycle(Partner(e)) < Limit(e) * Retry
  /\ TxIntv > Cycle("PERIODIC_TX") + Retry
  /\ RxIntv > Cycle("PERIODIC_RX") + Retry

(* Advertising is late by at most four retries of 20 ms and scanning by    *)
(* one: the retry delay, the intervals and the length of a cycle fit.      *)
DeferralsBounded ==
  deferrals["PERIODIC_TX"] <= 4 /\ deferrals["PERIODIC_RX"] <= 1
=============================================================================
