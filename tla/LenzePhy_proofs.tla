--------------------------- MODULE LenzePhy_proofs ---------------------------
(***************************************************************************)
(* Proofs about LenzePhy for every value of its intervals and delays: who  *)
(* has the running cycle, what goes on air and, at the end, how long a     *)
(* periodic event can be put off.                                          *)
(***************************************************************************)
EXTENDS MCLenzePhy, TLAPS

-----------------------------------------------------------------------------
(* The inductive invariant.                                                *)

(* Where the main loop is determines what it holds.                        *)
MainInv ==
  /\ pc = "idle" => evs = {}
  /\ cur = "none" <=> pc \in {"idle", "dispatch"}
  /\ cur # "none" => cur \in evs \cap (Periodic \cup DoneEvents)
  /\ crit <=> pc \in {"rf_go", "rf_exit"}

(* Only a mode-done interrupt can be raised once an operation is in        *)
(* flight, and the handler works on the status it has read.                *)
IsrInv ==
  /\ crit => isr = "off"
  /\ radio.armed => "MD" \notin radio.irq
  /\ InFlight => radio.mask = {"MD"}
  /\ isr = "ignore" => radio.mask # {"MD"}
  /\ isr \in {"blink", "post"} => "MD" \in radio.irq
  /\ pc = "rf_exit" => InFlight

(* The mode the radio is in, or is about to be put in, is the one the      *)
(* status stands for.                                                      *)
ModeOf == IF status = "TX_ONLY" THEN "STX" ELSE "SRX"

ModeInv ==
  /\ pc \in {"rf_stop", "rf_prog", "rf_go"} => RfMode = ModeOf
  /\ pc = "rf_go" => radio.mode = ModeOf
  /\ InFlight => radio.mode = ModeOf

(* An unread packet and the RX_DONE of its operation travel together, so   *)
(* the packet is read before RX_DONE can start another operation.          *)
RxInv ==
  rxBuf => /\ pc \in {"idle", "dispatch", "return"}
           /\ \/ {"RX_DATA_PROCESS", "RX_DONE"} \subseteq events
              \/ pc = "dispatch" /\ {"RX_DATA_PROCESS", "RX_DONE"} \subseteq evs

(* Who has the running cycle.                                              *)
OwnerInv == OneOwner /\ ReportMatchesStatus /\ WaitingIsTruthful

IInv ==
  /\ TypeOK
  /\ MainInv /\ IsrInv /\ ModeInv
  /\ OwnerInv /\ RxInv

-----------------------------------------------------------------------------
(* Type correctness.                                                       *)

LEMMA InitType == Init => TypeOK
<1> SUFFICES ASSUME Init PROVE TypeOK
  OBVIOUS
<1>1. radio \in Radio
  BY ConstantsAssumption DEF Init, Radio, Channels, IrqBits
<1>2. timers \in [Periodic -> Nat \cup {NoTimer}]
  BY ConstantsAssumption DEF Init
<1>3. dwell \in 0 .. RxOnlyTO
  BY ConstantsAssumption DEF Init
<1>4. status \in Statuses /\ rfChn \in Channels /\ wtSeed \in Channels
  BY DEF Init, Statuses, Channels
<1>5. /\ llWaitingIrq \in BOOLEAN /\ rxBuf \in BOOLEAN /\ crit \in BOOLEAN
      /\ events \subseteq Events /\ evs \subseteq Events /\ irqStatus \subseteq IrqBits
      /\ pc = "idle" /\ cur = "none" /\ isr = "off"
  BY DEF Init
<1> QED
  BY <1>1, <1>2, <1>3, <1>4, <1>5 DEF TypeOK

(* A tick keeps the timers, the dwell time and the receive timeout typed.  *)
LEMMA ElapseType ==
  ASSUME TypeOK, Elapse
  PROVE  /\ timers' \in [Periodic -> Nat \cup {NoTimer}]
         /\ dwell' \in 0 .. RxOnlyTO
         /\ radio' \in Radio
<1>1. timers' \in [Periodic -> Nat \cup {NoTimer}]
  BY DEF TypeOK, Elapse, NoTimer
<1>2. dwell' \in 0 .. RxOnlyTO
  BY ConstantsAssumption DEF TypeOK, Elapse
<1>3. radio' \in Radio
  BY ConstantsAssumption DEF TypeOK, Elapse, Radio
<1> QED
  BY <1>1, <1>2, <1>3

LEMMA MainType == TypeOK /\ Main => TypeOK'
<1> SUFFICES ASSUME TypeOK, Main PROVE TypeOK'
  OBVIOUS
<1> USE DEF TypeOK, app, intr, At
<1>1. CASE TakeEvents
  BY <1>1 DEF TakeEvents
<1>2. ASSUME NEW e \in Periodic, StartCycle(e) PROVE TypeOK'
  BY <1>2, ConstantsAssumption
     DEF StartCycle, CallRf, Statuses, Channels, Events
<1>3. ASSUME NEW e \in Periodic, DeferCycle(e) PROVE TypeOK'
  BY <1>3, ConstantsAssumption DEF DeferCycle, Return
<1>4. CASE RxDataProcess
  BY <1>4 DEF RxDataProcess, Return
<1>5. CASE ProcessTxDone
  BY <1>5 DEF ProcessTxDone, Hop, EndCycle, CallRf, Return, Statuses, Channels,
              Events, DoneEvents
<1>6. CASE ProcessRxDone
  BY <1>6, ConstantsAssumption
     DEF ProcessRxDone, Hop, EndCycle, CallRf, Return, Statuses, Channels,
         Events, DoneEvents
<1>7. CASE RfStop
  <2>1. radio' \in Radio
    BY <1>7, ConstantsAssumption DEF RfStop, Radio
  <2> QED
    BY <1>7, <2>1 DEF RfStop
<1>8. CASE RfProgram
  <2>1. RfMode \in {"STX", "SRX"} /\ RxOnlyTO \in 0 .. RxOnlyTO /\ 0 \in 0 .. RxOnlyTO
    BY ConstantsAssumption DEF RfMode
  <2>2. radio' \in Radio
    BY <1>8, <2>1 DEF RfProgram, Radio
  <2> QED
    BY <1>8, <2>2 DEF RfProgram
<1>9. CASE RfGo
  <2>1. radio' \in Radio
    BY <1>9 DEF RfGo, Radio, IrqBits
  <2> QED
    BY <1>9, <2>1 DEF RfGo
<1>10. CASE RfExit
  BY <1>10 DEF RfExit
<1>11. CASE HandlerReturn
  <2>1. timers' \in [Periodic -> Nat \cup {NoTimer}]
    BY <1>11, ConstantsAssumption DEF HandlerReturn
  <2> QED
    BY <1>11, <2>1 DEF HandlerReturn, Return
<1> QED
  BY <1>1, <1>2, <1>3, <1>4, <1>5, <1>6, <1>7, <1>8, <1>9, <1>10, <1>11 DEF Main

LEMMA OtherType ==
  ASSUME TypeOK, Isr \/ HwPacket \/ HwDone \/ Tick \/ \E e \in Periodic : Expire(e)
  PROVE  TypeOK'
<1> USE DEF TypeOK, app, main, intr
<1>1. CASE IsrEnter
  BY <1>1 DEF IsrEnter, Radio
<1>2. CASE IsrIgnore
  <2>1. radio' \in Radio
    BY <1>2 DEF IsrIgnore, Radio
  <2> QED
    BY <1>2, <2>1 DEF IsrIgnore
<1>3. CASE IsrBlink
  BY <1>3, ElapseType DEF IsrBlink
<1>4. CASE IsrPost
  <2>1. radio' \in Radio
    BY <1>4 DEF IsrPost, Radio
  <2>2. events' \subseteq Events
    BY <1>4 DEF IsrPost, Report, Events, DoneEvents
  <2> QED
    BY <1>4, <2>1, <2>2 DEF IsrPost
<1>5. CASE HwPacket
  <2>1. radio' \in Radio
    BY <1>5 DEF HwPacket, Radio, IrqBits
  <2> QED
    BY <1>5, <2>1 DEF HwPacket
<1>6. CASE HwDone
  <2>1. PICK more \in SUBSET IrqBits :
          radio' = [radio EXCEPT !.armed = FALSE, !.irq = @ \cup {"MD"} \cup more]
    BY <1>6 DEF HwDone, IrqBits
  <2>2. radio' \in Radio
    BY <2>1 DEF Radio, IrqBits
  <2> QED
    BY <1>6, <2>2 DEF HwDone
<1>7. CASE Tick
  BY <1>7, ElapseType DEF Tick
<1>8. ASSUME NEW e \in Periodic, Expire(e) PROVE TypeOK'
  BY <1>8 DEF Expire, Events
<1> QED
  BY <1>1, <1>2, <1>3, <1>4, <1>5, <1>6, <1>7, <1>8 DEF Isr

LEMMA StutterType == TypeOK /\ UNCHANGED vars => TypeOK'
  BY DEF TypeOK, vars

LEMMA TypeStep == TypeOK /\ [Next]_vars => TypeOK'
  BY MainType, OtherType, StutterType DEF Next

(* The events word, the timers, the program counters and the radio         *)
(* registers of Lenze_phy.c stay within their types for all intervals.     *)
THEOREM TypeCorrect == Spec => []TypeOK
  BY InitType, TypeStep, PTL DEF Spec

-----------------------------------------------------------------------------
(* The inductive invariant is preserved by every step.                     *)

(* Only the main loop moves its own program counter.                       *)
LEMMA MainStep == IInv /\ TypeOK' /\ [Next]_vars => MainInv'
<1> SUFFICES ASSUME IInv, TypeOK', [Next]_vars PROVE MainInv'
  OBVIOUS
<1> USE DEF IInv, TypeOK, main, At
<1>1. CASE TakeEvents
  BY <1>1 DEF TakeEvents, MainInv
<1>2. ASSUME NEW e \in Periodic, StartCycle(e) PROVE MainInv'
  BY <1>2 DEF StartCycle, Dispatched, CallRf, MainInv, Periodic
<1>3. ASSUME NEW e \in Periodic, DeferCycle(e) PROVE MainInv'
  BY <1>3 DEF DeferCycle, Dispatched, Return, MainInv
<1>4. CASE RxDataProcess
  BY <1>4 DEF RxDataProcess, Dispatched, Return, MainInv
<1>5. CASE ProcessTxDone
  BY <1>5 DEF ProcessTxDone, Hop, EndCycle, CallRf, Dispatched, Return, MainInv, DoneEvents
<1>6. CASE ProcessRxDone
  BY <1>6 DEF ProcessRxDone, Hop, EndCycle, CallRf, Dispatched, Return, MainInv, DoneEvents
<1>7. CASE RfStop
  BY <1>7 DEF RfStop, MainInv
<1>8. CASE RfProgram
  BY <1>8 DEF RfProgram, MainInv
<1>9. CASE RfGo
  BY <1>9 DEF RfGo, MainInv
<1>10. CASE RfExit
  BY <1>10 DEF RfExit, MainInv
<1>11. CASE HandlerReturn
  BY <1>11 DEF HandlerReturn, Return, MainInv
<1>12. CASE UNCHANGED main
  BY <1>12 DEF MainInv
<1> QED
  BY <1>1, <1>2, <1>3, <1>4, <1>5, <1>6, <1>7, <1>8, <1>9, <1>10, <1>11, <1>12
     DEF Next, Main, Isr, vars, IsrEnter, IsrIgnore, IsrBlink, IsrPost, HwPacket, HwDone,
         Tick, Expire

(* The interrupt handler runs only outside the critical section in which   *)
(* an operation is triggered.                                              *)
LEMMA IsrStep == IInv /\ TypeOK' /\ [Next]_vars => IsrInv'
<1> SUFFICES ASSUME IInv, TypeOK', [Next]_vars PROVE IsrInv'
  OBVIOUS
<1> USE DEF IInv, TypeOK, main, intr, At
<1>1. ASSUME NEW e \in Periodic, StartCycle(e) PROVE IsrInv'
  BY <1>1 DEF StartCycle, CallRf, IsrInv, InFlight
<1>2. ASSUME NEW e \in Periodic, DeferCycle(e) PROVE IsrInv'
  BY <1>2 DEF DeferCycle, Return, IsrInv, InFlight
<1>3. CASE RxDataProcess
  BY <1>3 DEF RxDataProcess, Return, IsrInv, InFlight
<1>4. CASE ProcessTxDone
  BY <1>4 DEF ProcessTxDone, Hop, EndCycle, CallRf, Return, IsrInv, InFlight
<1>5. CASE ProcessRxDone
  BY <1>5 DEF ProcessRxDone, Hop, EndCycle, CallRf, Return, IsrInv, InFlight
<1>6. CASE RfStop
  BY <1>6 DEF RfStop, IsrInv, InFlight
<1>7. CASE RfProgram
  BY <1>7 DEF RfProgram, IsrInv, InFlight
<1>8. CASE RfGo
  BY <1>8 DEF RfGo, IsrInv, InFlight
<1>9. CASE RfExit
  BY <1>9 DEF RfExit, IsrInv
<1>10. CASE HandlerReturn
  BY <1>10 DEF HandlerReturn, Return, IsrInv, InFlight
<1>11. CASE IsrEnter
  BY <1>11 DEF IsrEnter, IsrInv, InFlight
<1>12. CASE IsrIgnore
  BY <1>12 DEF IsrIgnore, IsrInv, InFlight
<1>13. CASE IsrBlink
  BY <1>13 DEF IsrBlink, Elapse, IsrInv, InFlight
<1>14. CASE IsrPost
  BY <1>14 DEF IsrPost, MainInv, IsrInv, InFlight
<1>15. CASE HwPacket
  BY <1>15 DEF HwPacket, IsrInv, InFlight
<1>16. CASE HwDone
  BY <1>16 DEF HwDone, IsrInv, InFlight
<1>17. CASE Tick
  BY <1>17 DEF Tick, Elapse, IsrInv, InFlight
<1>18. CASE UNCHANGED <<radio, isr, crit>> /\ (pc' = "rf_exit" => pc = "rf_exit")
  BY <1>18 DEF IsrInv, InFlight
<1> QED
  BY <1>1, <1>2, <1>3, <1>4, <1>5, <1>6, <1>7, <1>8, <1>9, <1>10, <1>11, <1>12, <1>13,
     <1>14, <1>15, <1>16, <1>17, <1>18
     DEF Next, Main, Isr, vars, TakeEvents, Expire

(* The radio is programmed in the mode of the cycle that is running.       *)
LEMMA ModeStep == IInv /\ TypeOK' /\ [Next]_vars => ModeInv'
<1> SUFFICES ASSUME IInv, TypeOK', [Next]_vars PROVE ModeInv'
  OBVIOUS
<1> USE DEF IInv, TypeOK, app, main, intr, At
<1>1. CASE TakeEvents
  BY <1>1 DEF TakeEvents, ModeInv, ModeOf, InFlight
<1>2. ASSUME NEW e \in Periodic, StartCycle(e) PROVE ModeInv'
  BY <1>2 DEF StartCycle, CallRf, OwnerInv, OneOwner, Periodic, ModeInv, ModeOf, RfMode,
              InFlight
<1>3. ASSUME NEW e \in Periodic, DeferCycle(e) PROVE ModeInv'
  BY <1>3 DEF DeferCycle, Return, ModeInv, ModeOf, InFlight
<1>4. CASE RxDataProcess
  BY <1>4 DEF RxDataProcess, Return, ModeInv, ModeOf, InFlight
<1>5. CASE ProcessTxDone
  BY <1>5 DEF ProcessTxDone, Hop, EndCycle, CallRf, Dispatched, Return, OwnerInv, OneOwner,
              ReportMatchesStatus, Reporting, Pending, DoneEvents, MainInv, ModeInv, ModeOf,
              RfMode, InFlight
<1>6. CASE ProcessRxDone
  BY <1>6 DEF ProcessRxDone, Hop, EndCycle, CallRf, Dispatched, Return, OwnerInv,
              ReportMatchesStatus, Pending, MainInv, ModeInv, ModeOf, RfMode, InFlight
<1>7. CASE RfStop
  BY <1>7 DEF RfStop, ModeInv, ModeOf, RfMode, InFlight
<1>8. CASE RfProgram
  BY <1>8 DEF RfProgram, ModeInv, ModeOf, RfMode
<1>9. CASE RfGo
  BY <1>9 DEF RfGo, ModeInv, ModeOf
<1>10. CASE RfExit
  BY <1>10 DEF RfExit, ModeInv, ModeOf, InFlight
<1>11. CASE HandlerReturn
  BY <1>11 DEF HandlerReturn, Return, ModeInv, ModeOf, InFlight
<1>12. CASE IsrIgnore
  BY <1>12 DEF IsrIgnore, ModeInv, ModeOf, RfMode, InFlight
<1>13. CASE IsrPost
  BY <1>13 DEF IsrPost, ModeInv, ModeOf, RfMode, InFlight
<1>14. CASE IsrBlink
  BY <1>14 DEF IsrBlink, Elapse, ModeInv, ModeOf, RfMode, InFlight
<1>15. CASE HwPacket
  BY <1>15 DEF HwPacket, ModeInv, ModeOf, RfMode, InFlight
<1>16. CASE HwDone
  BY <1>16 DEF HwDone, ModeInv, ModeOf, RfMode, InFlight
<1>17. CASE Tick
  BY <1>17 DEF Tick, Elapse, ModeInv, ModeOf, InFlight
<1>18. CASE UNCHANGED <<status, pc, cur, radio>>
  BY <1>18 DEF ModeInv, ModeOf, RfMode, InFlight
<1> QED
  BY <1>1, <1>2, <1>3, <1>4, <1>5, <1>6, <1>7, <1>8, <1>9, <1>10, <1>11, <1>12, <1>13,
     <1>14, <1>15, <1>16, <1>17, <1>18
     DEF Next, Main, Isr, vars, IsrEnter, Expire

(* A cycle is handed from the main loop to the radio, from the radio to    *)
(* the events word, and from there to the main loop.                       *)
LEMMA OwnerStep == IInv /\ TypeOK' /\ [Next]_vars => OwnerInv'
<1> SUFFICES ASSUME IInv, TypeOK', [Next]_vars PROVE OwnerInv'
  OBVIOUS
<1> USE DEF IInv, TypeOK, app, main, intr, At
<1>1. CASE TakeEvents
  BY <1>1 DEF TakeEvents, MainInv, OwnerInv, OneOwner, ReportMatchesStatus,
              WaitingIsTruthful, Starting, InFlight, Reporting, Pending, DoneEvents
<1>2. ASSUME NEW e \in Periodic, StartCycle(e) PROVE OwnerInv'
  BY <1>2 DEF StartCycle, Dispatched, CallRf, MainInv, OwnerInv, OneOwner,
              ReportMatchesStatus, WaitingIsTruthful, Starting, InFlight, Reporting,
              Pending, DoneEvents
<1>3. ASSUME NEW e \in Periodic, DeferCycle(e) PROVE OwnerInv'
  BY <1>3 DEF DeferCycle, Dispatched, Return, MainInv, Periodic, OwnerInv, OneOwner,
              ReportMatchesStatus, WaitingIsTruthful, Starting, InFlight, Reporting,
              Pending, DoneEvents
<1>4. CASE RxDataProcess
  BY <1>4 DEF RxDataProcess, Dispatched, Return, MainInv, OwnerInv, OneOwner,
              ReportMatchesStatus, WaitingIsTruthful, Starting, InFlight, Reporting,
              Pending, DoneEvents
<1>5. CASE ProcessTxDone
  BY <1>5 DEF ProcessTxDone, Hop, EndCycle, CallRf, Dispatched, Return, MainInv, OwnerInv,
              OneOwner, ReportMatchesStatus, WaitingIsTruthful, Starting, InFlight,
              Reporting, Pending, DoneEvents
<1>6. CASE ProcessRxDone
  BY <1>6 DEF ProcessRxDone, Hop, EndCycle, CallRf, Dispatched, Return, MainInv, OwnerInv,
              OneOwner, ReportMatchesStatus, WaitingIsTruthful, Starting, InFlight,
              Reporting, Pending, DoneEvents
<1>7. CASE RfStop
  BY <1>7 DEF RfStop, OwnerInv, OneOwner, ReportMatchesStatus, WaitingIsTruthful, Starting,
              InFlight, Reporting, Pending
<1>8. CASE RfProgram
  BY <1>8 DEF RfProgram, OwnerInv, OneOwner, ReportMatchesStatus, WaitingIsTruthful,
              Starting, InFlight, Reporting, Pending
<1>9. CASE RfGo
  BY <1>9 DEF RfGo, OwnerInv, OneOwner, ReportMatchesStatus, WaitingIsTruthful, Starting,
              InFlight, Reporting, Pending
<1>10. CASE RfExit
  BY <1>10 DEF RfExit, IsrInv, OwnerInv, OneOwner, ReportMatchesStatus, WaitingIsTruthful,
               Starting, InFlight, Reporting, Pending
<1>11. CASE HandlerReturn
  BY <1>11 DEF HandlerReturn, Return, OwnerInv, OneOwner, ReportMatchesStatus,
               WaitingIsTruthful, Starting, InFlight, Reporting, Pending
<1>12. CASE IsrEnter
  BY <1>12 DEF IsrEnter, OwnerInv, OneOwner, ReportMatchesStatus, WaitingIsTruthful,
               Starting, InFlight, Reporting, Pending
<1>13. CASE IsrIgnore
  BY <1>13 DEF IsrIgnore, IsrInv, OwnerInv, OneOwner, ReportMatchesStatus,
               WaitingIsTruthful, Starting, InFlight, Reporting, Pending
<1>14. CASE IsrBlink
  BY <1>14 DEF IsrBlink, Elapse, OwnerInv, OneOwner, ReportMatchesStatus, WaitingIsTruthful,
               Starting, InFlight, Reporting, Pending
<1>15. CASE IsrPost
  <2>1. /\ ~Starting /\ ~Reporting /\ status # "IDLE"
        /\ ~radio.armed /\ pc # "rf_exit" /\ radio.mode = ModeOf
    BY <1>15 DEF IsrPost, OwnerInv, OneOwner, InFlight, IsrInv, MainInv, ModeInv
  <2>2. /\ "TX_DONE" \in Report <=> status = "TX_ONLY"
        /\ "RX_DONE" \in Report <=> status = "RX_ONLY"
    BY <2>1 DEF Report, TxReport, RxReport, ModeOf
  <2>3. ~Starting' /\ ~InFlight' /\ ~llWaitingIrq' /\ Pending' = Pending \cup Report
    BY <1>15, <2>1 DEF IsrPost, Starting, InFlight, Pending
  <2>4. UNCHANGED <<status, pc, evs, cur>> /\ events' = events \cup Report
    BY <1>15 DEF IsrPost
  <2>5. OneOwner'
    BY <2>1, <2>2, <2>3, <2>4 DEF OneOwner, Reporting, DoneEvents, Statuses
  <2>6. ReportMatchesStatus'
    BY <2>1, <2>2, <2>3, <2>4 DEF ReportMatchesStatus, Reporting, Pending, DoneEvents
  <2> QED
    BY <2>3, <2>5, <2>6 DEF OwnerInv, WaitingIsTruthful
<1>16. CASE HwPacket
  BY <1>16 DEF HwPacket, OwnerInv, OneOwner, ReportMatchesStatus, WaitingIsTruthful,
               Starting, InFlight, Reporting, Pending
<1>17. CASE HwDone
  BY <1>17 DEF HwDone, OwnerInv, OneOwner, ReportMatchesStatus, WaitingIsTruthful, Starting,
               InFlight, Reporting, Pending
<1>18. CASE Tick
  BY <1>18 DEF Tick, Elapse, OwnerInv, OneOwner, ReportMatchesStatus, WaitingIsTruthful,
               Starting, InFlight, Reporting, Pending
<1>19. ASSUME NEW e \in Periodic, Expire(e) PROVE OwnerInv'
  BY <1>19 DEF Expire, Periodic, OwnerInv, OneOwner, ReportMatchesStatus, WaitingIsTruthful,
               Starting, InFlight, Reporting, Pending, DoneEvents
<1>20. CASE UNCHANGED vars
  BY <1>20 DEF vars, OwnerInv, OneOwner, ReportMatchesStatus, WaitingIsTruthful, Starting,
               InFlight, Reporting, Pending
<1> QED
  BY <1>1, <1>2, <1>3, <1>4, <1>5, <1>6, <1>7, <1>8, <1>9, <1>10, <1>11, <1>12, <1>13,
     <1>14, <1>15, <1>16, <1>17, <1>18, <1>19, <1>20
     DEF Next, Main, Isr, vars

(* A packet is read before the RX_DONE it came with.                       *)
LEMMA RxStep == IInv /\ TypeOK' /\ [Next]_vars => RxInv'
<1> SUFFICES ASSUME IInv, TypeOK', [Next]_vars PROVE RxInv'
  OBVIOUS
<1> USE DEF IInv, TypeOK, main, At
<1>1. CASE TakeEvents
  BY <1>1 DEF TakeEvents, RxInv
<1>2. ASSUME NEW e \in Periodic, StartCycle(e) PROVE RxInv'
  BY <1>2 DEF StartCycle, OwnerInv, ReportMatchesStatus, Pending, MainInv, RxInv
<1>3. ASSUME NEW e \in Periodic, DeferCycle(e) PROVE RxInv'
  BY <1>3 DEF DeferCycle, Return, Periodic, RxInv
<1>4. CASE RxDataProcess
  BY <1>4 DEF RxDataProcess, RxInv
<1>5. CASE ProcessTxDone
  BY <1>5 DEF ProcessTxDone, Dispatched, OwnerInv, ReportMatchesStatus, Pending, MainInv,
              RxInv
<1>6. CASE ProcessRxDone
  BY <1>6 DEF ProcessRxDone, Dispatched, OwnerInv, ReportMatchesStatus, DoneEvents, MainInv,
              Before, RxInv
<1>7. CASE RfStop
  BY <1>7 DEF RfStop, RxInv
<1>8. CASE RfProgram
  BY <1>8 DEF RfProgram, RxInv
<1>9. CASE RfGo
  BY <1>9 DEF RfGo, RxInv
<1>10. CASE RfExit
  BY <1>10 DEF RfExit, RxInv
<1>11. CASE HandlerReturn
  BY <1>11 DEF HandlerReturn, Return, RxInv
<1>12. CASE IsrPost
  BY <1>12 DEF IsrPost, Report, OwnerInv, OneOwner, Starting, MainInv, IsrInv, InFlight,
               RxInv
<1>13. ASSUME NEW e \in Periodic, Expire(e) PROVE RxInv'
  BY <1>13 DEF Expire, RxInv
<1>14. CASE UNCHANGED <<rxBuf, pc, events, evs>>
  BY <1>14 DEF RxInv
<1> QED
  BY <1>1, <1>2, <1>3, <1>4, <1>5, <1>6, <1>7, <1>8, <1>9, <1>10, <1>11, <1>12, <1>13, <1>14
     DEF Next, Main, Isr, vars, IsrEnter, IsrIgnore, IsrBlink, HwPacket, HwDone, Tick

LEMMA InitInv == Init => IInv
<1> SUFFICES ASSUME Init PROVE IInv
  OBVIOUS
<1>1. PICK irq \in {{}, {"RTO"}} : radio.irq = irq /\ radio.armed = FALSE
  BY DEF Init
<1> QED
  BY <1>1, InitType DEF Init, IInv, MainInv, IsrInv, ModeInv, OwnerInv, RxInv, OneOwner, 
     ReportMatchesStatus, WaitingIsTruthful, Starting, InFlight, Reporting, Pending

LEMMA Invariance == Spec => []IInv
<1>1. IInv /\ [Next]_vars => IInv'
  BY TypeStep, MainStep, IsrStep, ModeStep, OwnerStep, RxStep DEF IInv
<1> QED
  BY InitInv, <1>1, PTL DEF Spec

-----------------------------------------------------------------------------
(* What follows.                                                           *)

(* A cycle is in exactly one of the main loop, the radio and the events    *)
(* word while s_phy.Status is not IDLE, and in none while it is: the state *)
(* machine of Lenze_phy.c neither gets stuck nor advances twice.           *)
THEOREM SingleOwner == Spec => []OneOwner
<1>1. IInv => OneOwner
  BY DEF IInv, OwnerInv
<1> QED
  BY Invariance, <1>1, PTL

(* A completion is reported to the cycle it belongs to.                    *)
THEOREM ReportsMatch == Spec => []ReportMatchesStatus
<1>1. IInv => ReportMatchesStatus
  BY DEF IInv, OwnerInv
<1> QED
  BY Invariance, <1>1, PTL

(* llWaitingIrq tells the truth outside the critical section of a trigger. *)
THEOREM WaitingTruthful == Spec => []WaitingIsTruthful
<1>1. IInv => WaitingIsTruthful
  BY DEF IInv, OwnerInv
<1> QED
  BY Invariance, <1>1, PTL

(* phy_hw_stop has nothing to stop.                                        *)
THEOREM StopIdle == Spec => []StopFindsRadioIdle
<1>1. IInv => StopFindsRadioIdle
  <2> SUFFICES ASSUME IInv, Starting PROVE ~llWaitingIrq /\ ~radio.armed
    BY DEF StopFindsRadioIdle, Starting
  <2>1. ~InFlight
    BY DEF IInv, OwnerInv, OneOwner
  <2>2. pc # "rf_exit"
    BY DEF Starting
  <2> QED
    BY <2>1, <2>2 DEF IInv, OwnerInv, WaitingIsTruthful, InFlight
<1> QED
  BY Invariance, <1>1, PTL

(* phyBufRx is never written over before it has been read.                 *)
THEOREM RxNotOverrun == Spec => []NoRxOverrun
<1>1. IInv => NoRxOverrun
  <2> SUFFICES ASSUME IInv, isr = "post" PROVE ~rxBuf
    BY DEF NoRxOverrun
  <2>1. ~Reporting
    BY DEF IInv, OwnerInv, OneOwner, IsrInv, InFlight
  <2>2. rxBuf => Reporting
    BY DEF IInv, RxInv, MainInv, Reporting, Pending, DoneEvents
  <2> QED
    BY <2>1, <2>2
<1> QED
  BY Invariance, <1>1, PTL

-----------------------------------------------------------------------------
(* The periodic events.                                                    *)

(* A timer that is restarted runs.                                         *)
LEMMA DelaysPositive ==
  /\ {TxIntv, RxIntv, Retry, TxFirst, RxFirst} \subseteq Nat \ {0}
  /\ NoTimer \notin Nat
  BY ConstantsAssumption DEF NoTimer

(* The handler that is starting an operation for a periodic event still    *)
(* has that event in its argument, so HandlerReturn restarts a timer that  *)
(* is not running.                                                         *)
LEMMA PeriodicStep == IInv /\ PeriodicAlive /\ [Next]_vars => PeriodicAlive'
<1> SUFFICES ASSUME IInv, PeriodicAlive, [Next]_vars PROVE PeriodicAlive'
  OBVIOUS
<1> USE DelaysPositive DEF IInv, TypeOK, PeriodicAlive
<1>1. CASE TakeEvents
  BY <1>1 DEF TakeEvents, At, MainInv
<1>2. ASSUME NEW e \in Periodic, StartCycle(e) PROVE PeriodicAlive'
  BY <1>2 DEF StartCycle, CallRf
<1>3. ASSUME NEW e \in Periodic, DeferCycle(e) PROVE PeriodicAlive'
  BY <1>3 DEF DeferCycle, Return, Dispatched
<1>4. CASE RxDataProcess
  BY <1>4 DEF RxDataProcess, Return, Periodic
<1>5. CASE ProcessTxDone
  BY <1>5 DEF ProcessTxDone, Hop, EndCycle, CallRf, Return, Periodic
<1>6. CASE ProcessRxDone
  BY <1>6 DEF ProcessRxDone, Hop, EndCycle, CallRf, Return, Periodic
<1>7. CASE HandlerReturn
  BY <1>7 DEF HandlerReturn, Return, At, MainInv
<1>8. CASE IsrBlink
  BY <1>8 DEF IsrBlink, Elapse, NoTimer, main
<1>9. CASE IsrPost
  BY <1>9 DEF IsrPost, Report, Periodic, main
<1>10. CASE Tick
  BY <1>10 DEF Tick, Elapse, NoTimer, main
<1>11. ASSUME NEW e \in Periodic, Expire(e) PROVE PeriodicAlive'
  BY <1>11 DEF Expire, main
<1>12. CASE UNCHANGED <<timers, events, evs>>
  BY <1>12
<1> QED
  BY <1>1, <1>2, <1>3, <1>4, <1>5, <1>6, <1>7, <1>8, <1>9, <1>10, <1>11, <1>12
     DEF Next, Main, Isr, vars, main, RfStop, RfProgram, RfGo, RfExit, IsrEnter, IsrIgnore,
         HwPacket, HwDone

(* A periodic event whose timer LenzePhy_Init starts is always either      *)
(* ticking, or sent, or being handled, and never two of these: neither     *)
(* advertising nor scanning can stop because a restart was missed.         *)
THEOREM PeriodicNeverLost == Spec => []PeriodicAlive
<1>1. Init => PeriodicAlive
  BY DelaysPositive DEF Init, PeriodicAlive
<1> QED
  BY <1>1, PeriodicStep, Invariance, PTL DEF Spec

-----------------------------------------------------------------------------
(* The events word.                                                        *)

(* A step of Lenze_phy.c takes at most one event out of the words: the one *)
(* of the handler that returns.                                            *)
THEOREM OneEventPerReturn == Spec => EventsConsumedSingly
<1> DEFINE Gone == (events \cup evs) \ (events' \cup evs')
           Singly == \E e \in Events : Gone \subseteq {e}
                       /\ (e \in Gone => Handled(e) /\ pc' = "idle")
<1>1. ASSUME IInv, [Next]_vars PROVE Singly
  <2>1. CASE Gone = {}
    BY <2>1 DEF Events
  <2>2. ASSUME NEW e \in Events, Return(e), Handled(e)
        PROVE  Singly
    BY <2>2 DEF Return
  <2>3. CASE TakeEvents \/ RfStop \/ RfProgram \/ RfGo \/ RfExit
             \/ Isr \/ HwPacket \/ HwDone \/ Tick
             \/ (\E e \in Periodic : StartCycle(e) \/ Expire(e))
    <3>1. Gone = {}
      BY <1>1, <2>3 DEF IInv, MainInv, TakeEvents, At, RfStop, RfProgram, RfGo, RfExit, Isr,
         IsrEnter, IsrIgnore, IsrBlink, IsrPost, HwPacket, HwDone, Tick, StartCycle,
         CallRf, Expire, main
    <3> QED
      BY <2>1, <3>1
  <2>4. ASSUME NEW e \in Periodic, DeferCycle(e) PROVE Singly
    BY <2>2, <2>4 DEF DeferCycle, Handled, Events
  <2>5. CASE RxDataProcess
    BY <2>2, <2>5 DEF RxDataProcess, Handled, Events
  <2>6. CASE ProcessTxDone \/ ProcessRxDone
    <3>1. CASE \E f \in DoneEvents : CallRf(f)
      BY <2>1, <3>1 DEF CallRf
    <3>2. CASE \E f \in DoneEvents : Return(f) /\ Dispatched(f)
      BY <2>2, <3>2 DEF Events, Handled
    <3> QED
      BY <2>6, <3>1, <3>2 DEF ProcessTxDone, ProcessRxDone, Hop, EndCycle, DoneEvents
  <2>7. CASE HandlerReturn
    BY <1>1, <2>2, <2>7 DEF HandlerReturn, Handled, At, IInv, MainInv, Events
  <2>8. CASE UNCHANGED vars
    BY <2>1, <2>8 DEF vars
  <2> QED
    BY <1>1, <2>3, <2>4, <2>5, <2>6, <2>7, <2>8 DEF Next, Main, DoneEvents
<1>2. IInv /\ [Next]_vars => [Singly]_vars
  BY <1>1
<1> QED
  BY <1>2, Invariance, PTL DEF Spec, EventsConsumedSingly
-----------------------------------------------------------------------------
(* The air.                                                                *)

(* The operation the main loop is about to program may follow the one in   *)
(* the radio registers.                                                    *)
Follows ==
  \/ rfChn = 37 /\ radio.chn = 39
  \/ rfChn = radio.chn + 1 /\ radio.mode = ModeOf
  \/ rfChn = radio.chn /\ radio.mode = ModeOf /\ ModeOf = "SRX"

(* What the radio was last programmed with, next to what the application   *)
(* remembers of it.                                                        *)
AirInv ==
  /\ wtSeed = rfChn
  /\ pc \in {"rf_stop", "rf_prog"} => Follows
  /\ status # "IDLE" /\ pc \notin {"rf_stop", "rf_prog"} =>
       radio.chn = rfChn /\ radio.mode = ModeOf
  /\ status = "IDLE" => radio.chn = 39

LEMMA AirStep == IInv /\ TypeOK' /\ AirInv /\ [Next]_vars => AirInv'
<1> SUFFICES ASSUME IInv, TypeOK', AirInv, [Next]_vars PROVE AirInv'
  OBVIOUS
<1> USE DEF IInv, TypeOK, AirInv, ModeOf, app, main, intr, At
<1>1. CASE TakeEvents
  BY <1>1 DEF TakeEvents
<1>2. ASSUME NEW e \in Periodic, StartCycle(e) PROVE AirInv'
  BY <1>2 DEF StartCycle, CallRf, Follows
<1>3. ASSUME NEW e \in Periodic, DeferCycle(e) PROVE AirInv'
  BY <1>3 DEF DeferCycle, Dispatched, Return
<1>4. CASE RxDataProcess
  BY <1>4 DEF RxDataProcess, Dispatched, Return
<1>5. CASE ProcessTxDone
  BY <1>5 DEF ProcessTxDone, Hop, EndCycle, Dispatched, CallRf, Return, Follows, OwnerInv,
              ReportMatchesStatus, Pending, MainInv
<1>6. CASE ProcessRxDone
  BY <1>6 DEF ProcessRxDone, Hop, EndCycle, Dispatched, CallRf, Follows, OwnerInv,
              ReportMatchesStatus, Pending, MainInv
<1>7. CASE RfStop
  BY <1>7 DEF RfStop, Follows
<1>8. CASE RfProgram
  BY <1>8 DEF RfProgram, ModeInv, OwnerInv, OneOwner, Starting
<1>9. CASE RfGo
  BY <1>9 DEF RfGo
<1>10. CASE RfExit
  BY <1>10 DEF RfExit
<1>11. CASE HandlerReturn
  BY <1>11 DEF HandlerReturn, Return
<1>12. CASE IsrEnter
  BY <1>12 DEF IsrEnter, Follows
<1>13. CASE IsrIgnore
  BY <1>13 DEF IsrIgnore, Follows
<1>14. CASE IsrBlink
  BY <1>14 DEF IsrBlink, Elapse, Follows
<1>15. CASE IsrPost
  BY <1>15 DEF IsrPost, Follows
<1>16. CASE HwPacket
  BY <1>16 DEF HwPacket, Follows
<1>17. CASE HwDone
  BY <1>17 DEF HwDone, Follows
<1>18. CASE Tick
  BY <1>18 DEF Tick, Elapse
<1>19. ASSUME NEW e \in Periodic, Expire(e) PROVE AirInv'
  BY <1>19 DEF Expire, Follows
<1>20. CASE UNCHANGED vars
  BY <1>20 DEF vars, Follows
<1> QED
  BY <1>1, <1>2, <1>3, <1>4, <1>5, <1>6, <1>7, <1>8, <1>9, <1>10, <1>11, <1>12, <1>13,
     <1>14, <1>15, <1>16, <1>17, <1>18, <1>19, <1>20
     DEF Next, Main, Isr

LEMMA AirInvariance == Spec => []AirInv
<1>1. Init => AirInv
  BY DEF Init, AirInv
<1>2. IInv /\ [Next]_vars => TypeOK'
  BY TypeStep DEF IInv
<1> QED
  BY <1>1, <1>2, AirStep, Invariance, PTL DEF Spec

(* The three ways on of Follows are successors in OnAir.                   *)
LEMMA FollowsIsSuccessor ==
  ASSUME TypeOK, Follows
  PROVE  [mode |-> ModeOf, chn |-> rfChn, seed |-> rfChn]
           \in Air!Successors([mode |-> radio.mode, chn |-> radio.chn, seed |-> radio.seed])
<1> DEFINE o == [mode |-> radio.mode, chn |-> radio.chn, seed |-> radio.seed]
<1>1. o.mode = radio.mode /\ o.chn = radio.chn
  OBVIOUS
<1>2. ModeOf \in {"STX", "SRX"}
  BY DEF ModeOf
<1>3. rfChn \in 37 .. 39 /\ radio.chn \in 37 .. 39
  BY DEF TypeOK, Channels, Radio
<1> HIDE DEF o
<1>4. CASE rfChn = 37 /\ radio.chn = 39
  BY <1>1, <1>2, <1>4 DEF Air!Successors, Air!Op
<1>5. CASE rfChn = radio.chn + 1 /\ radio.mode = ModeOf
  BY <1>1, <1>3, <1>5 DEF Air!Successors, Air!Op
<1>6. CASE rfChn = radio.chn /\ radio.mode = ModeOf /\ ModeOf = "SRX"
  BY <1>1, <1>6 DEF Air!Successors, Air!Op
<1> QED
  BY <1>4, <1>5, <1>6 DEF Follows

(* What Lenze_phy.c puts on the air is a behaviour of OnAir: whole cycles  *)
(* over channels 37, 38 and 39, one operation at a time, each whitened     *)
(* with the seed of its channel.                                           *)
THEOREM ImplementsOnAir == Spec => AirSafe
<1> DEFINE ph == IF radio.armed THEN "on" ELSE IF pc = "rf_go" THEN "tuned" ELSE "done"
           op == [mode |-> radio.mode, chn |-> radio.chn, seed |-> radio.seed]
<1>1. Init => Air!Init
  BY DEF Init, Air!Init, Air!NoOp
<1>2. ASSUME IInv, TypeOK', AirInv, [Next]_vars
      PROVE  [Air!Next]_(Air!absVars)
  <2> USE DEF IInv, TypeOK, Radio, At
  <2>1. CASE RfProgram
    <3>1. ~radio.armed /\ pc = "rf_prog"
      BY <1>2, <2>1 DEF RfProgram, OwnerInv, OneOwner, Starting, InFlight
    <3>2. ph = "done" /\ ph' = "tuned"
      BY <2>1, <3>1 DEF RfProgram
    <3>3. op' = [mode |-> ModeOf, chn |-> rfChn, seed |-> rfChn]
      BY <1>2, <2>1, <3>1 DEF RfProgram, ModeInv, AirInv
    <3>4. op' \in Air!Successors(op)
      BY <1>2, <3>1, <3>3, FollowsIsSuccessor DEF AirInv
    <3> QED
      BY <3>2, <3>4 DEF Air!Next, Air!Tune
  <2>2. CASE RfGo
    <3>1. ph = "tuned" /\ ph' = "on" /\ op' = op
      BY <1>2, <2>2 DEF RfGo, OwnerInv, OneOwner, Starting, InFlight
    <3> QED
      BY <3>1 DEF Air!Next, Air!Trigger
  <2>3. CASE HwDone
    <3>1. ph = "on" /\ ph' = "done" /\ op' = op
      BY <1>2, <2>3 DEF HwDone, main, OwnerInv, OneOwner, Starting, InFlight
    <3> QED
      BY <3>1 DEF Air!Next, Air!Finish
  <2>4. CASE /\ radio'.armed = radio.armed /\ radio'.mode = radio.mode
             /\ radio'.chn = radio.chn /\ radio'.seed = radio.seed
             /\ pc' = "rf_go" <=> pc = "rf_go"
    BY <2>4 DEF Air!absVars
  <2>5. CASE TakeEvents \/ (\E e \in Periodic : StartCycle(e) \/ DeferCycle(e))
             \/ RxDataProcess \/ ProcessTxDone \/ ProcessRxDone
             \/ RfStop \/ RfExit \/ HandlerReturn
    BY <1>2, <2>4, <2>5 DEF TakeEvents, StartCycle, DeferCycle, RxDataProcess,
                            ProcessTxDone, 
       ProcessRxDone, Dispatched, Hop, EndCycle, CallRf, Return, RfStop, RfExit, HandlerReturn
  <2>6. CASE Isr \/ HwPacket \/ Tick \/ (\E e \in Periodic : Expire(e)) \/ UNCHANGED vars
    BY <1>2, <2>4, <2>6 DEF Isr, IsrEnter, IsrIgnore, IsrBlink, IsrPost, HwPacket, Tick,
                            Elapse, 
       Expire, main, vars
  <2> QED
    BY <1>2, <2>1, <2>2, <2>3, <2>5, <2>6 DEF Next, Main
<1>3. IInv /\ TypeOK' /\ AirInv /\ [Next]_vars => [Air!Next]_(Air!absVars)
  BY <1>2
<1>4. IInv /\ [Next]_vars => TypeOK'
  BY TypeStep DEF IInv
<1> QED
  BY <1>1, <1>3, <1>4, Invariance, AirInvariance, PTL DEF Spec, AirSafe, Air!SafeSpec

-----------------------------------------------------------------------------
(* How long a cycle can last.                                              *)

Runs(e) == status = IF e = "PERIODIC_TX" THEN "TX_ONLY" ELSE "RX_ONLY"

(* An operation has ended and its interrupt has not been through the blink.*)
Unreported == "MD" \in radio.irq /\ isr # "post"

(* Ticks the channels after this one can last, n on each.                  *)
Rest(n) == IF rfChn = 37 THEN n + n ELSE IF rfChn = 38 THEN n ELSE 0

TxWork == Rest(1) + IF Starting \/ radio.armed \/ Unreported THEN 1 ELSE 0

RxWork ==
  Rest(2 * RxOnlyTO) + IF dwell < RxOnlyTO THEN 2 * RxOnlyTO - dwell
                       ELSE IF radio.armed THEN radio.left + 1
                       ELSE IF Unreported THEN 1 ELSE 0

(* Ticks the running cycle can still last.                                 *)
Work == IF status = "TX_ONLY" THEN TxWork ELSE IF status = "RX_ONLY" THEN RxWork ELSE 0

WorkInv ==
  /\ Runs("PERIODIC_RX") /\ Starting => dwell < RxOnlyTO
  /\ Runs("PERIODIC_TX") /\ (pc = "rf_go" \/ radio.armed) => radio.left = 0
  /\ \A e \in Periodic : Runs(e) => Work <= Cycle(e)

(* Ticks until a waiting event is sent.                                    *)
Wait(e) == IF timers[e] = NoTimer THEN 0 ELSE timers[e]

(* While a cycle runs its own next event is further away than its end and  *)
(* a retry; the event it defers has waited no longer than it has run; once *)
(* it is over the deferred event comes first.                              *)
Pace(e) ==
  /\ cur = e => Runs(e)
  /\ Runs(e) => /\ deferrals[e] = 0
                /\ cur = e => deferrals[Partner(e)] = 0
                /\ cur # e => timers[e] > Work + Retry
                /\ deferrals[Partner(e)] > 0 =>
                     deferrals[Partner(e)] * Retry + Work <= Cycle(e) + Wait(Partner(e))
  /\ deferrals[e] <= Limit(e)
  /\ deferrals[e] > 0 => Wait(e) <= Retry /\ e \in Started
  /\ deferrals[e] > 0 /\ status = "IDLE" => timers[Partner(e)] > Wait(e)

PaceInv ==
  /\ deferrals \in [Periodic -> Nat]
  /\ \A e \in Periodic : Pace(e)

-----------------------------------------------------------------------------
(* The length of a cycle.                                                  *)

LEMMA Delays == RxOnlyTO \in Nat /\ RxOnlyTO > 0 /\ Retry \in Nat /\ Retry > 0
  BY ConstantsAssumption

(* The steps in which a tick passes.                                       *)
Passes == Tick \/ IsrBlink

(* The work that is left is a number of ticks.                             *)
LEMMA WorkType == TypeOK => Work \in Nat
<1> SUFFICES ASSUME TypeOK PROVE Work \in Nat
  OBVIOUS
<1>1. dwell \in 0 .. RxOnlyTO /\ radio.left \in 0 .. RxOnlyTO
  BY DEF TypeOK, Radio
<1>2. TxWork \in Nat
  BY DEF TxWork, Rest
<1>3. RxWork \in Nat
  BY <1>1, Delays DEF RxWork, Rest
<1> QED
  BY <1>2, <1>3 DEF Work

(* A step that takes no time and leaves the cycle running adds no work.    *)
LEMMA WorkKept ==
  ASSUME IInv, IInv', WorkInv, Next, ~Passes, UNCHANGED status
  PROVE  Work' <= Work
<1> USE DEF IInv, TypeOK, app, main, intr, At, Work
<1>1. /\ dwell \in 0 .. RxOnlyTO /\ radio.left \in 0 .. RxOnlyTO
      /\ RxOnlyTO \in Nat /\ RxOnlyTO > 0 /\ rfChn \in 37 .. 39
  BY Delays DEF Radio, Channels
<1>2. CASE /\ UNCHANGED <<rfChn, dwell, radio>>
           /\ Starting' => Starting
           /\ Unreported' => Unreported
  BY <1>1, <1>2 DEF TxWork, RxWork, Rest, Runs, WorkInv
<1>3. CASE TakeEvents \/ (\E e \in Periodic : DeferCycle(e) \/ Expire(e))
           \/ RxDataProcess \/ RfExit \/ HandlerReturn \/ IsrEnter
  BY <1>2, <1>3 DEF TakeEvents, DeferCycle, Expire, RxDataProcess, RfExit, HandlerReturn,
                    IsrEnter, Return, Starting, Unreported
<1>4. CASE ProcessTxDone
  BY <1>1, <1>4 DEF ProcessTxDone, Hop, EndCycle, Dispatched, CallRf, OwnerInv, OneOwner,
                    ReportMatchesStatus, Reporting, InFlight, Starting, Pending, MainInv,
                    DoneEvents, Unreported, TxWork, Rest
<1>5. CASE ProcessRxDone
  BY <1>1, <1>5 DEF ProcessRxDone, Hop, EndCycle, Dispatched, CallRf, OwnerInv, OneOwner,
                    ReportMatchesStatus, Reporting, InFlight, Starting, Pending, MainInv,
                    DoneEvents, Unreported, RxWork, Rest
<1>6. CASE RfStop
  BY <1>1, <1>6 DEF RfStop, Starting, Unreported, TxWork, RxWork, Rest, WorkInv, Runs
<1>7. CASE RfProgram
  BY <1>1, <1>7 DEF RfProgram, Starting, Unreported, TxWork, RxWork, Rest, WorkInv, Runs
<1>8. CASE RfGo
  BY <1>1, <1>8 DEF RfGo, Starting, Unreported, TxWork, RxWork, Rest, WorkInv, Runs
<1>9. CASE IsrIgnore
  BY <1>1, <1>9 DEF IsrIgnore, Starting, Unreported, TxWork, RxWork, Rest
<1>10. CASE IsrPost
  BY <1>1, <1>10 DEF IsrPost, Starting, Unreported, TxWork, RxWork, Rest
<1>11. CASE HwPacket
  BY <1>1, <1>11 DEF HwPacket, Starting, Unreported, TxWork, RxWork, Rest
<1>12. CASE HwDone
  BY <1>1, <1>12 DEF HwDone, Starting, Unreported, TxWork, RxWork, Rest
<1>13. ASSUME NEW e \in Periodic, StartCycle(e) PROVE FALSE
  BY <1>13 DEF StartCycle
<1> QED
  BY <1>3, <1>4, <1>5, <1>6, <1>7, <1>8, <1>9, <1>10, <1>11, <1>12, <1>13
     DEF Next, Main, Isr, Passes

(* A tick is one tick less of it.                                          *)
LEMMA WorkFalls ==
  ASSUME IInv, IInv', WorkInv, Passes, status # "IDLE"
  PROVE  Work' + 1 <= Work
<1> USE DEF IInv, TypeOK, app, main, intr, At, Work
<1>1. /\ dwell \in 0 .. RxOnlyTO /\ radio.left \in 0 .. RxOnlyTO
      /\ RxOnlyTO \in Nat /\ RxOnlyTO > 0 /\ rfChn \in 37 .. 39
  BY Delays DEF Radio, Channels
<1>2. CASE Tick
  <2>1. radio.armed /\ radio.left > 0
    BY <1>2 DEF Tick, OwnerInv, OneOwner, Reporting, InFlight, Starting, Pending, MainInv,
                DoneEvents, IsrInv
  <2>2. status = "RX_ONLY" /\ UNCHANGED <<status, rfChn>>
    BY <1>1, <1>2, <2>1 DEF Tick, WorkInv, Runs, Statuses
  <2>3. /\ radio'.armed = radio.armed /\ radio'.left = radio.left - 1
        /\ dwell' = IF dwell < RxOnlyTO THEN dwell + 1 ELSE dwell
    BY <1>1, <1>2, <2>1 DEF Tick, Elapse, Radio
  <2> QED
    BY <1>1, <2>1, <2>2, <2>3 DEF RxWork, Rest
<1>3. CASE IsrBlink
  <2>1. ~radio.armed /\ ~Starting /\ Unreported /\ ~Unreported' /\ ~Starting'
    BY <1>3 DEF IsrBlink, OwnerInv, OneOwner, InFlight, Starting, IsrInv, Unreported
  <2>2. ~radio'.armed /\ dwell' = IF dwell < RxOnlyTO THEN dwell + 1 ELSE dwell
    BY <1>3, <2>1 DEF IsrBlink, Elapse, Radio
  <2>3. UNCHANGED <<status, rfChn>>
    BY <1>3 DEF IsrBlink
  <2> QED
    BY <1>1, <2>1, <2>2, <2>3 DEF TxWork, RxWork, Rest, Statuses
<1> QED
  BY <1>2, <1>3 DEF Passes

(* No step adds work to a running cycle.                                   *)
LEMMA WorkFacts ==
  ASSUME IInv, IInv', WorkInv, Next
  PROVE  /\ Work \in Nat /\ Work' \in Nat
         /\ UNCHANGED status => Work' <= Work
<1>1. Work \in Nat /\ Work' \in Nat
  <2>1. TypeOK /\ TypeOK'
    BY DEF IInv
  <2>2. (TypeOK => Work \in Nat)'
    BY WorkType, PTL
  <2> QED
    BY <2>1, <2>2, WorkType
<1>2. ASSUME UNCHANGED status PROVE Work' <= Work
  <2>1. CASE status = "IDLE"
    <3>1. Work = 0 /\ Work' = 0
      BY <1>2, <2>1 DEF Work
    <3> QED
      BY <3>1
  <2>2. CASE Passes /\ status # "IDLE"
    <3>1. Work' + 1 <= Work
      BY <2>2, WorkFalls
    <3>2. \A a, b \in Nat : b + 1 <= a => b <= a
      OBVIOUS
    <3> QED
      BY <1>1, <3>1, <3>2
  <2>3. CASE ~Passes
    BY <1>2, <2>3, WorkKept
  <2> QED
    BY <2>1, <2>2, <2>3
<1> QED
  BY <1>1, <1>2

(* The cycle starts with at most the ticks of a whole one.                 *)
LEMMA WorkStep ==
  ASSUME IInv, IInv', WorkInv, Next
  PROVE  WorkInv'
<1>0. Work \in Nat /\ Work' \in Nat /\ (UNCHANGED status => Work' <= Work)
  BY WorkFacts
<1> USE DEF IInv, TypeOK, app, main, intr, At
<1>1. /\ dwell \in 0 .. RxOnlyTO /\ radio.left \in 0 .. RxOnlyTO
      /\ RxOnlyTO \in Nat /\ RxOnlyTO > 0 /\ rfChn \in 37 .. 39
  BY Delays DEF Radio, Channels
<1>2. (Runs("PERIODIC_RX") /\ Starting => dwell < RxOnlyTO)'
  <2>1. CASE UNCHANGED <<status, dwell>> /\ (Starting' => Starting)
    BY <2>1 DEF WorkInv, Runs
  <2>2. ASSUME NEW e \in Periodic, StartCycle(e) 
        PROVE  (Runs("PERIODIC_RX") /\ Starting => dwell < RxOnlyTO)'
    BY <1>1, <2>2 DEF StartCycle, Runs, Periodic
  <2>3. CASE ProcessTxDone
    BY <2>3 DEF ProcessTxDone, Dispatched, OwnerInv, ReportMatchesStatus, Pending, MainInv,
                Hop, EndCycle, Runs
  <2>4. CASE ProcessRxDone
    BY <1>1, <2>4 DEF ProcessRxDone
  <2>5. CASE Passes
    BY <2>5 DEF Passes, Tick, IsrBlink, Starting, OwnerInv, OneOwner, IsrInv, InFlight
  <2>6. CASE \/ TakeEvents \/ (\E e \in Periodic : DeferCycle(e) \/ Expire(e)) \/ RxDataProcess
             \/ RfStop \/ RfProgram \/ RfGo \/ RfExit \/ HandlerReturn
             \/ IsrEnter \/ IsrIgnore \/ IsrPost \/ HwPacket \/ HwDone
    <3>1. UNCHANGED <<status, dwell>> /\ (Starting' => Starting)
      BY <2>6 DEF TakeEvents, DeferCycle, Expire, RxDataProcess, RfStop, RfProgram, RfGo,
                  RfExit, HandlerReturn, IsrEnter, IsrIgnore, IsrPost, HwPacket, HwDone,
                  Return, Starting
    <3> QED
      BY <2>1, <3>1
  <2> QED
    BY <2>2, <2>3, <2>4, <2>5, <2>6 DEF Next, Main, Isr, Passes
<1>3. (Runs("PERIODIC_TX") /\ (pc = "rf_go" \/ radio.armed) => radio.left = 0)'
  <2>1. CASE /\ UNCHANGED <<status, radio>> /\ (pc' = "rf_go" => pc = "rf_go")
    BY <2>1 DEF WorkInv, Runs
  <2>2. ASSUME NEW e \in Periodic, StartCycle(e) 
        PROVE  (Runs("PERIODIC_TX") /\ (pc = "rf_go" \/ radio.armed) => radio.left = 0)'
    BY <2>2 DEF StartCycle, CallRf, OwnerInv, OneOwner, InFlight
  <2>3. CASE ProcessTxDone \/ ProcessRxDone
    BY <2>3 DEF ProcessTxDone, ProcessRxDone, Dispatched, OwnerInv, OneOwner, Pending,
                ReportMatchesStatus, Reporting, DoneEvents, MainInv, Hop, EndCycle, CallRf,
                InFlight, Return
  <2>4. CASE RfStop
    BY <2>4 DEF RfStop
  <2>5. CASE RfProgram
    BY <2>5 DEF RfProgram, ModeInv, ModeOf, Runs
  <2>6. CASE RfGo
    BY <2>6 DEF RfGo, WorkInv, Runs
  <2>7. CASE Tick
    BY <1>1, <2>7 DEF Tick, Elapse, WorkInv, Runs
  <2>8. CASE IsrBlink
    BY <1>1, <2>8 DEF IsrBlink, Elapse, WorkInv, Runs
  <2>9. CASE IsrIgnore
    BY <2>9 DEF IsrIgnore, WorkInv, Runs
  <2>10. CASE IsrPost
    BY <2>10 DEF IsrPost, WorkInv, Runs
  <2>11. CASE HwPacket
    BY <2>11 DEF HwPacket, WorkInv, Runs
  <2>12. CASE HwDone
    BY <2>12 DEF HwDone, WorkInv, Runs
  <2>13. CASE \/ TakeEvents \/ (\E e \in Periodic : DeferCycle(e) \/ Expire(e))
              \/ RxDataProcess \/ RfExit \/ HandlerReturn \/ IsrEnter
    <3>1. UNCHANGED <<status, radio>> /\ (pc' = "rf_go" => pc = "rf_go")
      BY <2>13 DEF TakeEvents, DeferCycle, Expire, RxDataProcess, RfExit, HandlerReturn,
                   IsrEnter, Return
    <3> QED
      BY <2>1, <3>1
  <2> QED
    BY <2>2, <2>3, <2>4, <2>5, <2>6, <2>7, <2>8, <2>9, <2>10, <2>11, <2>12, <2>13
       DEF Next, Main, Isr
<1>4. ASSUME NEW e \in Periodic, Runs(e)' PROVE (Work <= Cycle(e))'
  <2>1. Cycle(e) \in Nat /\ Cycle(e)' = Cycle(e)
    BY Delays DEF Cycle
  <2>3. CASE UNCHANGED status
    <3>1. Runs(e) /\ status # "IDLE"
      BY <1>4, <2>3 DEF Runs
    <3> QED
      BY <1>0, <2>1, <2>3, <3>1 DEF WorkInv
  <2>4. ASSUME NEW f \in Periodic, StartCycle(f) PROVE (Work <= Cycle(e))'
    <3>1. rfChn' = 37 /\ Starting' /\ (f = "PERIODIC_RX" => dwell' = 0)
      BY <2>4 DEF StartCycle, CallRf, Starting
    <3>2. f = e
      BY <1>4, <2>4 DEF StartCycle, Runs, Periodic
    <3>3. CASE e = "PERIODIC_TX"
      BY <1>4, <3>1, <3>3 DEF Runs, Work, TxWork, Rest, Cycle
    <3>4. CASE e = "PERIODIC_RX"
      BY <1>1, <1>4, <3>1, <3>2, <3>4 DEF Runs, Work, RxWork, Rest, Cycle
    <3> QED
      BY <3>3, <3>4 DEF Periodic
  <2>5. CASE status' = "IDLE"
    BY <1>4, <2>5 DEF Runs
  <2> QED
    BY <2>3, <2>4, <2>5
       DEF Next, Main, Isr, TakeEvents, DeferCycle, Expire, RxDataProcess, RfStop, RfProgram,
           RfGo, RfExit, HandlerReturn, IsrEnter, IsrIgnore, IsrBlink, IsrPost, HwPacket,
           HwDone, Tick, ProcessTxDone, ProcessRxDone, Hop, EndCycle
<1> QED
  BY <1>2, <1>3, <1>4 DEF WorkInv

-----------------------------------------------------------------------------
(* The length of a wait.                                                   *)

LEMMA Partners ==
  ASSUME NEW e \in Periodic
  PROVE  /\ Partner(e) \in Periodic /\ Partner(e) # e /\ Partner(Partner(e)) = e
         /\ \A f \in Periodic : f = e \/ f = Partner(e)
         /\ Cycle(e) \in Nat
         /\ Limit(e) \in {1, 4}
  BY Delays DEF Partner, Periodic, Cycle, Limit

(* A wait that is shorter than l retries has met fewer than l of them.     *)
LEMMA FewRetries ==
  ASSUME NEW d \in Nat, NEW r \in Nat \ {0}, NEW l \in {1, 4}, d * r < l * r
  PROVE  d < l
<1> SUFFICES ASSUME d >= l PROVE FALSE
  OBVIOUS
<1>1. PICK k \in Nat : d = l + k
  <2>1. d - l \in Nat /\ d = l + (d - l)
    OBVIOUS
  <2> QED
    BY <2>1
<1>2. d * r = l * r + k * r /\ k * r \in Nat
  BY <1>1
<1> QED
  BY <1>2

LEMMA OneMore == \A d, r \in Nat : d * r \in Nat /\ (d + 1) * r = d * r + r
  OBVIOUS

LEMMA WaitType ==
  ASSUME TypeOK, NEW e \in Periodic
  PROVE  /\ timers[e] \in Int /\ timers[e] >= -1 /\ NoTimer = -1
         /\ Wait(e) \in Nat
         /\ timers[e] >= 0 => Wait(e) = timers[e]
  BY DEF TypeOK, Wait, NoTimer

(* A step that takes no time and moves no timer.                           *)
LEMMA PaceKept ==
  ASSUME NEW e \in Periodic, IInv, TypeOK', Pace(e), PaceInv,
         Work \in Nat, Work' \in Nat, Work' <= Work,
         UNCHANGED <<status, deferrals>>, cur' = e <=> cur = e,
         \A f \in Periodic : timers'[f] = timers[f]
  PROVE  Pace(e)'
<1> DEFINE p == Partner(e)
<1>1. p \in Periodic
  BY Partners
<1>2. Wait(e)' = Wait(e) /\ Wait(p)' = Wait(p)
  BY <1>1 DEF Wait
<1>3. Runs(e)' = Runs(e)
  BY DEF Runs
<1>4. PICK m \in Nat : m = deferrals[p] * Retry
  BY <1>1, OneMore, Delays DEF PaceInv
<1>5. PICK w \in Nat : w = Work
  OBVIOUS
<1>6. PICK v \in Nat : v = Work'
  OBVIOUS
<1>7. PICK c \in Nat : c = Cycle(e)
  BY Partners
<1>8. PICK u \in Nat : u = Wait(p)
  BY <1>1, WaitType DEF IInv
<1>9. timers[e] \in Int
  BY WaitType DEF IInv
<1> QED
  BY <1>1, <1>2, <1>3, <1>4, <1>5, <1>6, <1>7, <1>8, <1>9, Delays DEF Pace

(* A cycle begins: nobody is waiting, or the event would have been late.   *)
LEMMA PaceBegun ==
  ASSUME IInv, PeriodicAlive, PaceInv, NEW f \in Periodic, Begun(f), NEW e \in Periodic
  PROVE  Pace(e)'
<1> DEFINE p == Partner(f)
<1>1. p \in Periodic /\ p # f /\ Partner(p) = f /\ (e = f \/ e = p)
  BY Partners
<1>2. status = "IDLE" /\ f \in evs /\ cur' = f /\ Runs(f)' /\ ~Runs(p)'
  BY <1>1 DEF Begun, StartCycle, Dispatched, CallRf, Runs, Periodic
<1>3. timers[f] = -1 /\ Wait(p) \in Nat
  BY <1>1, <1>2, WaitType DEF PeriodicAlive, IInv, NoTimer
<1>4. deferrals[p] = 0
  BY <1>1, <1>2, <1>3 DEF PaceInv, Pace
<1>5. deferrals'[f] = 0 /\ deferrals'[p] = 0
  BY <1>1, <1>4 DEF Begun, PaceInv
<1>6. e = f \/ e = p
  BY <1>1
<1>7. Limit(f) \in Nat /\ Limit(p) \in Nat
  BY <1>1, Partners
<1> QED
  BY <1>1, <1>2, <1>5, <1>6, <1>7 DEF Pace, Runs

(* An event meets the running cycle of the other kind, and has by now      *)
(* waited less than the longest cycle of that kind.                        *)
LEMMA PaceDeferred ==
  ASSUME IInv, TypeOK', PeriodicAlive, WorkInv, PaceInv, NEW f \in Periodic,
         Deferred(f), Work \in Nat, Work' \in Nat, Work' <= Work, NEW e \in Periodic
  PROVE  Pace(e)'
<1> DEFINE p == Partner(f)
<1>1. p \in Periodic /\ p # f /\ Partner(p) = f /\ (e = f \/ e = p)
  BY Partners
<1>2. /\ status # "IDLE" /\ UNCHANGED status /\ f \in evs /\ pc = "dispatch"
      /\ cur' = "none" /\ timers' = [timers EXCEPT ![f] = Retry]
      /\ deferrals' = [deferrals EXCEPT ![f] = @ + 1]
  BY DEF Deferred, DeferCycle, Dispatched, Return, At, app
<1>3. cur = "none" /\ cur # f /\ cur # p /\ "none" \notin Periodic
  BY <1>1, <1>2 DEF IInv, MainInv, Periodic
<1>4. timers[f] = -1 /\ Wait(f) = 0
  BY <1>2 DEF PeriodicAlive, Wait, NoTimer
<1>5. ~Runs(f)
  BY <1>3, <1>4, Delays DEF PaceInv, Pace
<1>6. Runs(p) /\ Runs(p)'
  <2>1. status \in {"TX_ONLY", "RX_ONLY"}
    BY <1>2 DEF IInv, TypeOK, Statuses
  <2>2. Runs(p)
    BY <1>5, <2>1 DEF Runs, Partner, Periodic
  <2> QED
    BY <1>2, <2>2 DEF Runs
<1>7. PICK d \in Nat : d = deferrals[f]
  BY DEF PaceInv
<1>8. PICK w \in Nat : w = Work
  OBVIOUS
<1>9. PICK v \in Nat : v = Work'
  OBVIOUS
<1>10. PICK c \in Nat : c = Cycle(p)
  BY <1>1, Partners
<1>11. PICK l \in {1, 4} : l = Limit(f)
  BY Partners
<1>12. d * Retry + w <= c
  <2>1. CASE d > 0
    BY <1>1, <1>3, <1>4, <1>6, <1>7, <1>8, <1>10, <2>1 DEF PaceInv, Pace
  <2>2. CASE d = 0
    <3>1. d * Retry = 0
      BY <2>2, Delays
    <3>2. w <= c
      BY <1>1, <1>6, <1>8, <1>10 DEF WorkInv
    <3> QED
      BY <3>1, <3>2
  <2> QED
    BY <2>1, <2>2
<1>13. d < l
  <2>1. c < l * Retry
    BY <1>1, <1>10, <1>11, Paced
  <2>2. d * Retry < l * Retry
    BY <1>12, <2>1, OneMore, Delays
  <2> QED
    BY <2>2, FewRetries, Delays
<1>14. /\ deferrals'[f] = d + 1 /\ deferrals'[p] = 0 /\ deferrals[p] = 0
       /\ timers'[f] = Retry /\ timers'[p] = timers[p]
  BY <1>1, <1>2, <1>6, <1>7 DEF PaceInv, Pace, IInv, TypeOK
<1>15. Wait(f)' = Retry
  BY <1>14, Delays DEF Wait, NoTimer
<1>16. f \in Started
  BY <1>2 DEF PeriodicAlive
<1>17. (d + 1) * Retry = d * Retry + Retry /\ d * Retry \in Nat
  BY OneMore, Delays
<1>18. ~Runs(f)' /\ status' # "IDLE" /\ cur' # f /\ cur' # p
  BY <1>1, <1>2, <1>3, <1>5 DEF Runs
<1>19. CASE e = f
  BY <1>2, <1>11, <1>13, <1>14, <1>15, <1>16, <1>18, <1>19, Delays DEF Pace
<1>20. CASE e = p
  <2>1. timers[p] \in Int /\ timers[p] > w + Retry
    BY <1>1, <1>3, <1>6, <1>8, WaitType DEF PaceInv, Pace, IInv
  <2>2. Limit(p) \in Nat
    BY <1>1, Partners
  <2>3. timers'[p] > Work' + Retry
    BY <1>8, <1>9, <1>14, <2>1, Delays
  <2>4. deferrals'[f] * Retry + Work' <= Cycle(p) + Wait(f)'
    BY <1>8, <1>9, <1>10, <1>12, <1>14, <1>15, <1>17, Delays
  <2> QED
    BY <1>1, <1>6, <1>14, <1>18, <1>20, <2>2, <2>3, <2>4 DEF Pace
<1> QED
  BY <1>1, <1>19, <1>20

(* A cycle ends: its own next event is more than a retry away.             *)
LEMMA PaceEnded ==
  ASSUME IInv, TypeOK', PaceInv, NEW f \in DoneEvents, Dispatched(f), EndCycle(f),
         UNCHANGED <<timers, deferrals>>, Work \in Nat, NEW e \in Periodic
  PROVE  Pace(e)'
<1> DEFINE p == Partner(e)
<1>1. p \in Periodic /\ p # e /\ Partner(p) = e
  BY Partners
<1>2. /\ pc = "dispatch" /\ status' = "IDLE" /\ cur' = "none" /\ cur = "none"
      /\ "none" \notin Periodic
  BY DEF Dispatched, At, EndCycle, Return, IInv, MainInv, Periodic
<1>3. ~Runs(e)' /\ cur' # e /\ cur # e /\ cur # p
  BY <1>1, <1>2 DEF Runs
<1>4. Wait(e)' = Wait(e) /\ deferrals'[e] = deferrals[e] /\ timers'[p] = timers[p]
  BY DEF Wait
<1>5. status \in {"TX_ONLY", "RX_ONLY", "IDLE"}
  BY DEF IInv, TypeOK, Statuses
<1>6. Pace(e) /\ Pace(p)
  BY <1>1 DEF PaceInv
<1>7. ASSUME deferrals[e] > 0 PROVE timers[p] > Wait(e)
  <2>1. CASE status = "IDLE"
    BY <1>6, <1>7, <2>1 DEF Pace
  <2>2. CASE status # "IDLE"
    <3>1. Runs(e) => deferrals[e] = 0
      BY <1>6 DEF Pace
    <3>2. Runs(p)
      BY <1>5, <1>7, <2>2, <3>1 DEF Runs, Partner, Periodic
    <3>3. timers[p] > Work + Retry
      BY <1>3, <1>6, <3>2 DEF Pace
    <3>4. Wait(e) <= Retry
      BY <1>6, <1>7 DEF Pace
    <3>5. Wait(e) \in Nat /\ timers[p] \in Int
      BY <1>1, WaitType DEF IInv
    <3> QED
      BY <3>3, <3>4, <3>5, Delays
  <2> QED
    BY <2>1, <2>2
<1> QED
  BY <1>2, <1>3, <1>4, <1>6, <1>7 DEF Pace

(* A handler that began a cycle restarts its timer for the interval.       *)
LEMMA PaceReturned ==
  ASSUME IInv, IInv', PaceInv, WorkInv', HandlerReturn, UNCHANGED deferrals,
         Work \in Nat, Work' \in Nat, Work' <= Work, NEW e \in Periodic
  PROVE  Pace(e)'
<1> DEFINE p == Partner(e)
<1>1. p \in Periodic /\ p # e /\ Partner(p) = e
  BY Partners
<1>2. /\ UNCHANGED status /\ cur' = "none" /\ "none" \notin Periodic
  BY DEF HandlerReturn, Return, Periodic, app
<1>3. CASE cur \notin Periodic
  <2>1. \A f \in Periodic : timers'[f] = timers[f]
    BY <1>3 DEF HandlerReturn
  <2> QED
    BY <1>2, <1>3, <2>1, PaceKept DEF IInv, PaceInv
<1>4. ASSUME NEW f \in Periodic, cur = f PROVE Pace(e)'
  <2> DEFINE q == Partner(f)
  <2>1. q \in Periodic /\ q # f /\ Partner(q) = f /\ (e = f \/ e = q)
    BY Partners
  <2>2. Runs(f) /\ deferrals[f] = 0 /\ deferrals[q] = 0
    BY <1>4 DEF PaceInv, Pace
  <2>3. Runs(f)' /\ ~Runs(q)' /\ status' # "IDLE"
    BY <1>2, <2>1, <2>2 DEF Runs, Periodic
  <2>4. timers'[f] > Cycle(f) + Retry
    BY <1>4, Paced DEF HandlerReturn, Periodic
  <2>5. Work' <= Cycle(f)
    BY <2>3 DEF WorkInv, Runs
  <2>6. timers'[f] \in Int
    BY WaitType, <1>4 DEF IInv, TypeOK, NoTimer
  <2>7. Cycle(f) \in Nat /\ Limit(f) \in Nat /\ Limit(q) \in Nat
    BY <2>1, Partners
  <2>8. timers'[f] > Work' + Retry
    BY <2>4, <2>5, <2>6, <2>7, Delays
  <2>9. deferrals'[f] = 0 /\ deferrals'[q] = 0 /\ cur' # f /\ cur' # q
    BY <1>2, <2>1, <2>2
  <2>10. CASE e = f
    BY <2>1, <2>3, <2>7, <2>8, <2>9, <2>10 DEF Pace
  <2>11. CASE e = q
    BY <2>1, <2>3, <2>7, <2>9, <2>11 DEF Pace
  <2> QED
    BY <2>1, <2>10, <2>11
<1> QED
  BY <1>3, <1>4

(* A tick brings the end of a running cycle as much nearer as the timers.  *)
LEMMA PacePasses ==
  ASSUME IInv, TypeOK', PeriodicAlive, PaceInv, Passes, UNCHANGED deferrals,
         Work \in Nat, Work' \in Nat, status # "IDLE" => Work' + 1 <= Work,
         NEW e \in Periodic
  PROVE  Pace(e)'
<1> DEFINE p == Partner(e)
<1>1. p \in Periodic /\ p # e /\ Partner(p) = e
  BY Partners
<1>2. UNCHANGED <<status, cur>>
  BY DEF Passes, Tick, IsrBlink, app, main
<1>3. \A f \in Periodic : timers'[f] = IF timers[f] > 0 THEN timers[f] - 1 ELSE timers[f]
  BY DEF Passes, Tick, IsrBlink, Elapse
<1>4. PICK a \in Int : a = timers[e] /\ a >= -1
  BY WaitType DEF IInv
<1>5. PICK b \in Int : b = timers[p] /\ b >= -1
  BY <1>1, WaitType DEF IInv
<1>6. PICK a1 \in Int : a1 = timers'[e] /\ a1 = IF a > 0 THEN a - 1 ELSE a
  BY <1>3, <1>4
<1>7. PICK b1 \in Int : b1 = timers'[p] /\ b1 = IF b > 0 THEN b - 1 ELSE b
  BY <1>1, <1>3, <1>5
<1>8. /\ Wait(e) = IF a = -1 THEN 0 ELSE a
      /\ Wait(p) = IF b = -1 THEN 0 ELSE b
      /\ Wait(e)' = IF a1 = -1 THEN 0 ELSE a1
      /\ Wait(p)' = IF b1 = -1 THEN 0 ELSE b1
  BY <1>4, <1>5, <1>6, <1>7 DEF Wait, NoTimer
<1>9. PICK m \in Nat : m = deferrals[p] * Retry
  BY <1>1, OneMore, Delays DEF PaceInv
<1>10. PICK w \in Nat : w = Work
  OBVIOUS
<1>11. PICK v \in Nat : v = Work'
  OBVIOUS
<1>12. PICK c \in Nat : c = Cycle(e)
  BY Partners
<1>13. Pace(e) /\ Runs(e)' = Runs(e)
  BY <1>2 DEF PaceInv, Runs
<1>14. Runs(e) => v + 1 <= w
  BY <1>10, <1>11 DEF Runs
<1>15. Runs(e) /\ cur # e => a1 > v + Retry
  BY <1>4, <1>6, <1>10, <1>13, <1>14, Delays DEF Pace
<1>16. Runs(e) /\ deferrals[p] > 0 => m + v <= c + Wait(p)'
  BY <1>5, <1>7, <1>8, <1>9, <1>10, <1>12, <1>13, <1>14 DEF Pace
<1>17. deferrals[e] > 0 => Wait(e)' <= Retry
  BY <1>4, <1>6, <1>8, <1>13, Delays DEF Pace
<1>18. ASSUME deferrals[e] > 0, status = "IDLE" PROVE b1 > Wait(e)'
  <2>1. b > Wait(e) /\ e \in Started
    BY <1>5, <1>13, <1>18 DEF Pace
  <2>2. Tick
    BY <1>18 DEF Passes, IsrBlink, IInv, IsrInv, OwnerInv, OneOwner, InFlight
  <2>3. a # 0 /\ events = {} /\ evs = {}
    BY <1>4, <2>2 DEF Tick, IInv, MainInv
  <2>4. a # -1
    BY <1>4, <2>1, <2>3 DEF PeriodicAlive, NoTimer
  <2> QED
    BY <1>4, <1>5, <1>6, <1>7, <1>8, <2>1, <2>3, <2>4
<1>19. (cur = e => Runs(e)) /\ (Runs(e) => deferrals[e] = 0 /\ (cur = e => deferrals[p] = 0))
       /\ deferrals[e] <= Limit(e) /\ (deferrals[e] > 0 => e \in Started)
  BY <1>13 DEF Pace
<1> QED
  BY <1>2, <1>6, <1>7, <1>9, <1>11, <1>12, <1>13, <1>15, <1>16, <1>17, <1>18, <1>19 DEF Pace

(* A timer that has run out is an event that is sent.                      *)
LEMMA PaceExpired ==
  ASSUME IInv, PaceInv, NEW f \in Periodic, Expire(f), UNCHANGED deferrals,
         Work \in Nat, Work' \in Nat, Work' <= Work, NEW e \in Periodic
  PROVE  Pace(e)'
<1> DEFINE p == Partner(e)
<1>1. p \in Periodic /\ p # e /\ Partner(p) = e /\ (f = e \/ f = p)
  BY Partners
<1>2. UNCHANGED <<status, cur>> /\ timers[f] = 0 /\ timers' = [timers EXCEPT ![f] = NoTimer]
  BY DEF Expire, app, main
<1>3. Wait(e)' = Wait(e) /\ Wait(p)' = Wait(p)
  BY <1>1, <1>2, WaitType DEF Wait, IInv, TypeOK
<1>4. timers[e] > 0 => timers'[e] = timers[e]
  BY <1>2 DEF IInv, TypeOK
<1>5. timers[p] > 0 => timers'[p] = timers[p]
  BY <1>1, <1>2 DEF IInv, TypeOK
<1>6. PICK m \in Nat : m = deferrals[p] * Retry
  BY <1>1, OneMore, Delays DEF PaceInv
<1>7. PICK w \in Nat : w = Work
  OBVIOUS
<1>8. PICK v \in Nat : v = Work'
  OBVIOUS
<1>9. PICK c \in Nat : c = Cycle(e)
  BY Partners
<1>10. Pace(e) /\ Runs(e)' = Runs(e)
  BY <1>2 DEF PaceInv, Runs
<1>11. Runs(e) /\ cur # e => timers'[e] > v + Retry
  BY <1>4, <1>7, <1>8, <1>10, WaitType, Delays DEF Pace, IInv
<1>12. PICK u \in Nat : u = Wait(p)
  BY <1>1, WaitType DEF IInv
<1>13. Runs(e) /\ deferrals[p] > 0 => m + v <= c + u
  BY <1>6, <1>7, <1>8, <1>9, <1>10, <1>12 DEF Pace
<1>14. deferrals[e] > 0 /\ status = "IDLE" => timers'[p] > Wait(e)
  BY <1>1, <1>5, <1>10, WaitType DEF Pace, IInv
<1>15. (cur = e => Runs(e)) /\ (Runs(e) => deferrals[e] = 0 /\ (cur = e => deferrals[p] = 0))
       /\ deferrals[e] <= Limit(e) /\ (deferrals[e] > 0 => Wait(e) <= Retry /\ e \in Started)
  BY <1>10 DEF Pace
<1> QED
  BY <1>2, <1>3, <1>6, <1>8, <1>9, <1>10, <1>11, <1>12, <1>13, <1>14, <1>15 DEF Pace

LEMMA PaceStep ==
  ASSUME IInv, IInv', PeriodicAlive, WorkInv, WorkInv', PaceInv, MCNext
  PROVE  PaceInv'
<1>1. Next
  <2>1. CASE \E e \in Periodic : Begun(e) \/ Deferred(e)
    BY <2>1 DEF Begun, Deferred, Next, Main
  <2> QED
    BY <2>1 DEF MCNext, Next, Main, Isr
<1>2. Work \in Nat /\ Work' \in Nat /\ (UNCHANGED status => Work' <= Work)
  BY <1>1, WorkFacts
<1>3. Passes /\ status # "IDLE" => Work' + 1 <= Work
  BY WorkFalls
<1>4. TypeOK'
  BY DEF IInv
<1>5. deferrals' \in [Periodic -> Nat]
  <2>1. deferrals \in [Periodic -> Nat]
    BY DEF PaceInv
  <2>2. CASE \E e \in Periodic : Begun(e) \/ Deferred(e)
    BY <2>1, <2>2 DEF Begun, Deferred
  <2>3. CASE UNCHANGED deferrals
    BY <2>1, <2>3
  <2> QED
    BY <2>2, <2>3 DEF MCNext, Other
<1>6. ASSUME NEW e \in Periodic PROVE Pace(e)'
  <2>1. ASSUME NEW f \in Periodic, Begun(f) PROVE Pace(e)'
    BY <2>1, PaceBegun
  <2>2. ASSUME NEW f \in Periodic, Deferred(f) PROVE Pace(e)'
    <3>1. UNCHANGED status
      BY <2>2 DEF Deferred, DeferCycle, app
    <3> QED
      BY <1>2, <1>4, <2>2, <3>1, PaceDeferred
  <2>3. CASE Passes /\ UNCHANGED deferrals
    BY <1>2, <1>3, <1>4, <2>3, PacePasses
  <2>4. CASE HandlerReturn /\ UNCHANGED deferrals
    <3>1. UNCHANGED status
      BY <2>4 DEF HandlerReturn, app
    <3> QED
      BY <1>2, <2>4, <3>1, PaceReturned
  <2>5. ASSUME NEW f \in Periodic, Expire(f), UNCHANGED deferrals PROVE Pace(e)'
    <3>1. UNCHANGED status
      BY <2>5 DEF Expire, app
    <3> QED
      BY <1>2, <2>5, <3>1, PaceExpired
  <2>6. ASSUME NEW f \in DoneEvents, Dispatched(f), EndCycle(f),
               UNCHANGED <<timers, deferrals>>
        PROVE  Pace(e)'
    BY <1>2, <1>4, <2>6, PaceEnded
  <2>7. CASE /\ UNCHANGED <<status, deferrals>> /\ (cur' = e <=> cur = e)
             /\ UNCHANGED timers
    BY <1>2, <1>4, <2>7, PaceKept DEF PaceInv
  <2>8. CASE UNCHANGED deferrals /\ (TakeEvents \/ RfStop \/ RfProgram \/ RfGo \/ RfExit
                                     \/ IsrEnter \/ IsrIgnore \/ IsrPost \/ HwPacket \/ HwDone)
    <3>1. UNCHANGED <<status, timers, cur>>
      BY <2>8 DEF TakeEvents, RfStop, RfProgram, RfGo, RfExit, IsrEnter, IsrIgnore, IsrPost,
                  HwPacket, HwDone, app, main
    <3> QED
      BY <2>7, <2>8, <3>1
  <2>9. CASE UNCHANGED deferrals /\ RxDataProcess
    <3>1. UNCHANGED <<status, timers>> /\ cur' = "none" /\ cur = "none"
      BY <2>9 DEF RxDataProcess, Dispatched, At, Return, app, IInv, MainInv
    <3> QED
      BY <2>7, <2>9, <3>1
  <2>10. CASE UNCHANGED deferrals /\ (ProcessTxDone \/ ProcessRxDone)
    <3>1. PICK f \in DoneEvents :
            /\ Dispatched(f) /\ UNCHANGED timers
            /\ \/ CallRf(f) /\ UNCHANGED status
               \/ EndCycle(f)
      BY <2>10 DEF ProcessTxDone, ProcessRxDone, DoneEvents, Hop, app
    <3>2. cur = "none" /\ "none" \notin Periodic /\ f \notin Periodic
      BY <3>1 DEF Dispatched, At, IInv, MainInv, Periodic, DoneEvents
    <3>3. CASE EndCycle(f)
      BY <2>6, <2>10, <3>1, <3>3
    <3>4. CASE CallRf(f) /\ UNCHANGED status
      <4>1. cur' = e <=> cur = e
        BY <3>2, <3>4 DEF CallRf
      <4> QED
        BY <2>7, <2>10, <3>1, <3>4, <4>1
    <3> QED
      BY <3>1, <3>3, <3>4
  <2> QED
    BY <2>1, <2>2, <2>3, <2>4, <2>5, <2>8, <2>9, <2>10 DEF MCNext, Other, Passes
<1> QED
  BY <1>5, <1>6 DEF PaceInv

(* A step of the observed program is a step of the program.                *)
LEMMA Observes == [MCNext]_mcvars => [Next]_vars
<1>1. ASSUME NEW e \in Periodic, Begun(e) \/ Deferred(e) PROVE Next
  BY <1>1 DEF Begun, Deferred, Next, Main
<1> QED
  BY <1>1 DEF MCNext, Next, Main, Isr, mcvars

LEMMA PaceStutters ==
  ASSUME IInv, WorkInv, PaceInv, UNCHANGED mcvars
  PROVE  WorkInv' /\ PaceInv'
  BY DEF mcvars, vars, WorkInv, PaceInv, Pace, Runs, Work, TxWork, RxWork, Rest, Starting,
         Unreported, Wait

(* At the end of a scan cycle an advertising event has met it at most four *)
(* times, and a scan event an advertising cycle at most once: both retry   *)
(* until they find the task idle, and they do before the other cycle       *)
(* begins again, for all intervals and delays that are paced.              *)
THEOREM DeferralsStayBounded == MCSpec => []DeferralsBounded
<1>1. MCInit => Init /\ IInv /\ PeriodicAlive /\ WorkInv /\ PaceInv
  <2> SUFFICES ASSUME MCInit PROVE Init /\ IInv /\ PeriodicAlive /\ WorkInv /\ PaceInv
    OBVIOUS
  <2>1. Init /\ deferrals = [e \in Periodic |-> 0]
    BY DEF MCInit
  <2>2. PeriodicAlive
    BY <2>1, DelaysPositive DEF Init, PeriodicAlive
  <2>3. status = "IDLE" /\ cur = "none" /\ "none" \notin Periodic
    BY <2>1 DEF Init, Periodic
  <2>4. WorkInv
    BY <2>3 DEF WorkInv, Runs
  <2>5. PaceInv
    BY <2>1, <2>3, Partners DEF PaceInv, Pace, Runs
  <2> QED
    BY <2>1, <2>2, <2>4, <2>5, InitInv
<1>2. IInv /\ PeriodicAlive /\ WorkInv /\ PaceInv /\ IInv' /\ [MCNext]_mcvars
        => PeriodicAlive' /\ WorkInv' /\ PaceInv'
  <2> SUFFICES ASSUME IInv, PeriodicAlive, WorkInv, PaceInv, IInv', [MCNext]_mcvars
               PROVE  PeriodicAlive' /\ WorkInv' /\ PaceInv'
    OBVIOUS
  <2>1. PeriodicAlive'
    BY Observes, PeriodicStep
  <2>2. CASE MCNext
    <3>1. Next
      BY <2>2 DEF MCNext, Begun, Deferred, Next, Main, Isr
    <3>2. WorkInv'
      BY <3>1, WorkStep
    <3> QED
      BY <2>1, <2>2, <3>2, PaceStep
  <2>3. CASE UNCHANGED mcvars
    BY <2>1, <2>3, PaceStutters
  <2> QED
    BY <2>2, <2>3
<1>3. PaceInv => DeferralsBounded
  BY DEF PaceInv, Pace, Limit, Periodic, DeferralsBounded
<1> QED
  BY <1>1, <1>2, <1>3, Invariance, Observes, PTL DEF MCSpec, Spec
=============================================================================
