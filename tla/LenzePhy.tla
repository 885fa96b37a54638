------------------------------ MODULE LenzePhy ------------------------------
(***************************************************************************)
(* The application of source/Lenze_phy.c: one OSAL task that starts an     *)
(* advertising or a scan cycle from a timer, and the link-layer interrupt  *)
(* handler that reports the end of each radio operation to it.             *)
(*                                                                         *)
(* Three actors interleave: the main loop (the OSAL dispatcher running     *)
(* LenzePhy_ProcessEvent and the functions it calls), the interrupt        *)
(* handler PLUSPHY_IRQHandler, which preempts the main loop outside a      *)
(* critical section, and the hardware (the radio and the clock).  The      *)
(* OSAL and the radio are not in the repository: they are modelled from    *)
(* how the code uses them.                                                 *)
(***************************************************************************)
EXTENDS Integers

CONSTANTS
  TxIntv,     \* s_phy.txIntv, in clock ticks
  RxIntv,     \* s_phy.rxIntv
  Retry,      \* delay before a periodic event meets the task again
  TxFirst,    \* delay of the first advertising cycle
  RxFirst,    \* delay of the first scan cycle
  RxOnlyTO,   \* s_phy.rxOnlyTO: receive timeout and dwell time on a channel
  Started,    \* the periodic events whose timers LenzePhy_Init starts
  CrcFmt      \* s_pktCfg.crcFmt: "BLE" or "NULL"

Periodic == {"PERIODIC_TX", "PERIODIC_RX"}

ASSUME ConstantsAssumption ==
  /\ {TxIntv, RxIntv, Retry, TxFirst, RxFirst, RxOnlyTO} \subseteq Nat \ {0}
  /\ Started \subseteq Periodic
  /\ CrcFmt \in {"BLE", "NULL"}

VARIABLES
  \* the task's globals
  status,        \* s_phy.Status
  rfChn,         \* s_phy.rfChn, as the channel number 37, 38 or 39
  wtSeed,        \* s_pktCfg.wtSeed, named by the channel it belongs to
  dwell,         \* time since s_phy.rxScanT0, counted up to RxOnlyTO
  llWaitingIrq,  \* an operation was triggered and has not been reported
  rxBuf,         \* phyBufRx holds a packet no handler has looked at
  \* OSAL
  events,        \* tasksEvents[LenzePhy_TaskID]
  timers,        \* ticks left on each OSAL timer, NoTimer if not running
  \* the main loop
  pc,            \* where it is
  evs,           \* the argument "events" of the running ProcessEvent call
  cur,           \* the event whose handler is starting a radio operation
  crit,          \* interrupts are disabled by HAL_ENTER_CRITICAL_SECTION
  \* the interrupt handler
  isr,           \* where it is, "off" when it is not running
  irqStatus,     \* its local irq_status
  \* the radio
  radio          \* registers and state of the link-layer hardware

vars == <<status, rfChn, wtSeed, dwell, llWaitingIrq, rxBuf, events, timers,
          pc, evs, cur, crit, isr, irqStatus, radio>>

app   == <<status, rfChn, wtSeed>>
main  == <<pc, evs, cur, crit>>
intr  == <<isr, irqStatus>>

Channels == 37 .. 39
Statuses == {"IDLE", "TX_ONLY", "RX_ONLY"}
DoneEvents == {"TX_DONE", "RX_DONE"}
Events == Periodic \cup DoneEvents \cup {"RX_DATA_PROCESS"}
IrqBits == {"MD", "RTO", "COK"}
NoTimer == -1

Radio == [mode : {"NONE", "STX", "SRX"}, chn : Channels, seed : Channels,
          armed : BOOLEAN,           \* triggered and not yet done
          left : 0 .. RxOnlyTO,      \* ticks until the receive timeout
          irq : SUBSET IrqBits,      \* interrupt status
          mask : SUBSET IrqBits]     \* bits that raise the interrupt

(* The registers the rest of the start-up leaves: the receiver calibration *)
(* may leave a status bit behind, and the mask is not set before the first *)
(* phy_hw_go.                                                              *)
Init ==
  /\ status = "IDLE" /\ rfChn = 37 /\ wtSeed = 37
  /\ dwell = RxOnlyTO
  /\ llWaitingIrq = FALSE
  /\ rxBuf = FALSE
  /\ events = {}
  /\ timers = [e \in Periodic |->
                 IF e \notin Started THEN NoTimer
                 ELSE IF e = "PERIODIC_TX" THEN TxFirst ELSE RxFirst]
  /\ pc = "idle" /\ evs = {} /\ cur = "none" /\ crit = FALSE
  /\ isr = "off" /\ irqStatus = {}
  /\ \E irq \in {{}, {"RTO"}}, mask \in {{"MD"}, IrqBits} :
       radio = [mode |-> "NONE", chn |-> 39, seed |-> 39, armed |-> FALSE,
                left |-> 0, irq |-> irq, mask |-> mask]

-----------------------------------------------------------------------------
(* The main loop.                                                          *)

At(p) == pc = p /\ isr = "off"

(* The OSAL dispatcher takes the task's events and clears the word.        *)
TakeEvents ==
  /\ At("idle")
  /\ events # {}
  /\ evs' = events
  /\ events' = {}
  /\ pc' = "dispatch"
  /\ UNCHANGED <<app, dwell, llWaitingIrq, rxBuf, timers, cur, crit, intr, radio>>

(* ProcessEvent returns events ^ e, and the dispatcher ORs that back.      *)
Return(e) ==
  /\ pc' = "idle"
  /\ events' = events \cup (evs \ {e})
  /\ evs' = {}
  /\ cur' = "none"

(* Handler of e calls phy_rf_tx or phy_rf_rx.                              *)
CallRf(e) ==
  /\ pc' = "rf_stop"
  /\ cur' = e
  /\ UNCHANGED <<events, evs>>

(* Variants with a plausible slip stand before the definition they vary;   *)
(* the specification does not use them, the properties must tell them      *)
(* from it.  Here: the packet is looked at after RX_DONE.                  *)
BeforeDoneFirst(e) ==
  CASE e = "PERIODIC_TX"     -> {}
    [] e = "PERIODIC_RX"     -> {"PERIODIC_TX"}
    [] e = "TX_DONE"         -> Periodic
    [] e = "RX_DONE"         -> Periodic \cup {"TX_DONE"}
    [] e = "RX_DATA_PROCESS" -> Periodic \cup DoneEvents

(* The order of the tests in ProcessEvent: e is the first event present.   *)
Before(e) ==
  CASE e = "PERIODIC_TX"     -> {}
    [] e = "PERIODIC_RX"     -> {"PERIODIC_TX"}
    [] e = "RX_DATA_PROCESS" -> Periodic
    [] e = "TX_DONE"         -> Periodic \cup {"RX_DATA_PROCESS"}
    [] e = "RX_DONE"         -> Periodic \cup {"RX_DATA_PROCESS", "TX_DONE"}

Dispatched(e) == At("dispatch") /\ e \in evs /\ Before(e) \cap evs = {}

(* Slip: a cycle is started without looking at Status.                     *)
StartCycleAlways(e) ==
  /\ Dispatched(e)
  /\ status' = IF e = "PERIODIC_TX" THEN "TX_ONLY" ELSE "RX_ONLY"
  /\ rfChn' = 37 /\ wtSeed' = 37
  /\ dwell' = IF e = "PERIODIC_RX" THEN 0 ELSE dwell
  /\ CallRf(e)
  /\ UNCHANGED <<llWaitingIrq, rxBuf, timers, crit, intr, radio>>

(* A periodic event finds the task idle: begin a cycle on channel 37.      *)
StartCycle(e) ==
  /\ Dispatched(e)
  /\ status = "IDLE"
  /\ status' = IF e = "PERIODIC_TX" THEN "TX_ONLY" ELSE "RX_ONLY"
  /\ rfChn' = 37
  /\ wtSeed' = 37
  /\ dwell' = IF e = "PERIODIC_RX" THEN 0 ELSE dwell
  /\ CallRf(e)
  /\ UNCHANGED <<llWaitingIrq, rxBuf, timers, crit, intr, radio>>

(* Slip: a deferred event does not restart its timer.                      *)
DeferCycleForgets(e) ==
  /\ Dispatched(e)
  /\ status # "IDLE"
  /\ Return(e)
  /\ UNCHANGED <<app, timers, dwell, llWaitingIrq, rxBuf, crit, intr, radio>>

(* It finds a cycle running: come back after Retry.                        *)
DeferCycle(e) ==
  /\ Dispatched(e)
  /\ status # "IDLE"
  /\ timers' = [timers EXCEPT ![e] = Retry]
  /\ Return(e)
  /\ UNCHANGED <<app, dwell, llWaitingIrq, rxBuf, crit, intr, radio>>

RxDataProcess ==
  /\ Dispatched("RX_DATA_PROCESS")
  /\ rxBuf' = FALSE
  /\ Return("RX_DATA_PROCESS")
  /\ UNCHANGED <<app, dwell, llWaitingIrq, timers, crit, intr, radio>>

(* Slips: the seed stays behind; the last channel is one too far.          *)
HopKeepsSeed(e) ==
  /\ rfChn < 39
  /\ rfChn' = rfChn + 1
  /\ CallRf(e)
  /\ UNCHANGED <<status, wtSeed>>

HopPast(e) ==
  /\ rfChn <= 39
  /\ rfChn' = rfChn + 1 /\ wtSeed' = rfChn + 1
  /\ CallRf(e)
  /\ UNCHANGED status

(* The next channel of the cycle and its seed; e's handler starts it.      *)
Hop(e) ==
  /\ rfChn < 39
  /\ rfChn' = rfChn + 1
  /\ wtSeed' = rfChn + 1
  /\ CallRf(e)
  /\ UNCHANGED status

(* Channel 39 ends the cycle.                                              *)
EndCycle(e) ==
  /\ rfChn = 39
  /\ status' = "IDLE"
  /\ Return(e)
  /\ UNCHANGED <<rfChn, wtSeed>>

ProcessTxDone ==
  /\ Dispatched("TX_DONE")
  /\ Hop("TX_DONE") \/ EndCycle("TX_DONE")
  /\ UNCHANGED <<dwell, llWaitingIrq, rxBuf, timers, crit, intr, radio>>

(* Slip: every reception restarts the dwell time.                          *)
ProcessRxDoneRestamps ==
  /\ Dispatched("RX_DONE")
  /\ dwell' = 0
  /\ IF dwell < RxOnlyTO THEN CallRf("RX_DONE") /\ UNCHANGED app
     ELSE Hop("RX_DONE") \/ EndCycle("RX_DONE")
  /\ UNCHANGED <<llWaitingIrq, rxBuf, timers, crit, intr, radio>>

(* Listen on the same channel until rxOnlyTO has passed on it.             *)
ProcessRxDone ==
  /\ Dispatched("RX_DONE")
  /\ \/ /\ dwell < RxOnlyTO
        /\ CallRf("RX_DONE")
        /\ UNCHANGED <<app, dwell>>
     \/ /\ dwell >= RxOnlyTO
        /\ dwell' = 0
        /\ Hop("RX_DONE") \/ EndCycle("RX_DONE")
  /\ UNCHANGED <<llWaitingIrq, rxBuf, timers, crit, intr, radio>>

-----------------------------------------------------------------------------
(* phy_rf_tx and phy_rf_rx.                                                *)

RfMode == IF cur \in {"PERIODIC_TX", "TX_DONE"} THEN "STX" ELSE "SRX"

(* phy_hw_stop shortens the receive timeout and then polls llWaitingIrq a  *)
(* bounded number of times: it is left sooner or later whatever happens,   *)
(* so the polling is the time the main loop spends at rf_prog.             *)
RfStop ==
  /\ At("rf_stop")
  /\ radio' = [radio EXCEPT !.left = 0]
  /\ pc' = "rf_prog"
  /\ UNCHANGED <<app, dwell, llWaitingIrq, rxBuf, events, timers, evs, cur, crit, intr>>

(* Slip: no critical section around the trigger.                           *)
RfProgramOpen ==
  /\ At("rf_prog")
  /\ radio' = [radio EXCEPT !.mode = RfMode, !.chn = rfChn, !.seed = wtSeed,
                            !.left = IF RfMode = "SRX" THEN RxOnlyTO ELSE 0]
  /\ pc' = "rf_go"
  /\ UNCHANGED <<app, dwell, llWaitingIrq, rxBuf, events, timers, evs, cur, crit, intr>>

(* Enter the critical section and program the packet format (which carries *)
(* the seed), the channel, the mode and the receive timeout.               *)
RfProgram ==
  /\ At("rf_prog")
  /\ crit' = TRUE
  /\ radio' = [radio EXCEPT !.mode = RfMode, !.chn = rfChn, !.seed = wtSeed,
                            !.left = IF RfMode = "SRX" THEN RxOnlyTO ELSE 0]
  /\ pc' = "rf_go"
  /\ UNCHANGED <<app, dwell, llWaitingIrq, rxBuf, events, timers, evs, cur, intr>>

(* Slip: phy_hw_go leaves the interrupt mask as it was.                    *)
RfGoKeepsMask ==
  /\ At("rf_go")
  /\ radio' = [radio EXCEPT !.irq = {}, !.armed = TRUE]
  /\ pc' = "rf_exit"
  /\ UNCHANGED <<app, dwell, llWaitingIrq, rxBuf, events, timers, evs, cur, crit, intr>>

(* phy_hw_go: clear the status, unmask mode-done only, trigger.            *)
RfGo ==
  /\ At("rf_go")
  /\ radio' = [radio EXCEPT !.irq = {}, !.mask = {"MD"}, !.armed = TRUE]
  /\ pc' = "rf_exit"
  /\ UNCHANGED <<app, dwell, llWaitingIrq, rxBuf, events, timers, evs, cur, crit, intr>>

RfExit ==
  /\ At("rf_exit")
  /\ llWaitingIrq' = TRUE
  /\ crit' = FALSE
  /\ pc' = "return"
  /\ UNCHANGED <<app, dwell, rxBuf, events, timers, evs, cur, intr, radio>>

(* Slip: only the advertising event restarts its timer.                    *)
HandlerReturnTxOnly ==
  /\ At("return")
  /\ timers' = IF cur = "PERIODIC_TX" THEN [timers EXCEPT ![cur] = TxIntv] ELSE timers
  /\ Return(cur)
  /\ UNCHANGED <<app, dwell, llWaitingIrq, rxBuf, crit, intr, radio>>

(* The rest of the handler: a periodic one restarts its timer.             *)
HandlerReturn ==
  /\ At("return")
  /\ timers' = [e \in Periodic |->
                  IF e # cur THEN timers[e]
                  ELSE IF e = "PERIODIC_TX" THEN TxIntv ELSE RxIntv]
  /\ Return(cur)
  /\ UNCHANGED <<app, dwell, llWaitingIrq, rxBuf, crit, intr, radio>>

Main ==
  \/ TakeEvents
  \/ \E e \in Periodic : StartCycle(e) \/ DeferCycle(e)
  \/ RxDataProcess \/ ProcessTxDone \/ ProcessRxDone
  \/ RfStop \/ RfProgram \/ RfGo \/ RfExit \/ HandlerReturn

-----------------------------------------------------------------------------
(* The clock.                                                              *)

(* One tick passes: timers run down, the receive timeout approaches.       *)
Elapse ==
  /\ timers' = [e \in Periodic |-> IF timers[e] > 0 THEN timers[e] - 1 ELSE timers[e]]
  /\ dwell' = IF dwell < RxOnlyTO THEN dwell + 1 ELSE dwell
  /\ radio' = [radio EXCEPT !.left = IF @ > 0 THEN @ - 1 ELSE 0]

(* Instructions take no time next to a tick: the clock moves when nothing  *)
(* else is due.                                                            *)
Tick ==
  /\ pc = "idle" /\ events = {} /\ isr = "off"
  /\ radio.irq \cap radio.mask = {}
  /\ radio.armed => radio.left > 0
  /\ \A e \in Periodic : timers[e] # 0
  /\ \E e \in Periodic : timers[e] # NoTimer
  /\ Elapse
  /\ UNCHANGED <<app, llWaitingIrq, rxBuf, events, main, intr>>

(* An OSAL timer expires, at any point of the main loop or of the handler. *)
Expire(e) ==
  /\ timers[e] = 0
  /\ timers' = [timers EXCEPT ![e] = NoTimer]
  /\ events' = events \cup {e}
  /\ UNCHANGED <<app, dwell, llWaitingIrq, rxBuf, main, intr, radio>>

-----------------------------------------------------------------------------
(* The interrupt handler.                                                  *)

IsrEnter ==
  /\ isr = "off" /\ ~crit
  /\ radio.irq \cap radio.mask # {}
  /\ irqStatus' = radio.irq
  /\ isr' = IF "MD" \in radio.irq THEN "blink" ELSE "ignore"
  /\ UNCHANGED <<app, dwell, llWaitingIrq, rxBuf, events, timers, main, radio>>

(* Not a mode-done interrupt: clear whatever the status is by now.         *)
IsrIgnore ==
  /\ isr = "ignore"
  /\ radio' = [radio EXCEPT !.irq = {}]
  /\ isr' = "off"
  /\ irqStatus' = {}
  /\ UNCHANGED <<app, dwell, llWaitingIrq, rxBuf, events, timers, main>>

(* debug_blink(1) holds the handler for about 5 ms.                        *)
IsrBlink ==
  /\ isr = "blink"
  /\ Elapse
  /\ isr' = "post"
  /\ UNCHANGED <<app, llWaitingIrq, rxBuf, events, main, irqStatus>>

(* The packet test: with a CRC the CRC-ok bit, without one no timeout.     *)
PacketIn ==
  IF CrcFmt = "NULL" THEN "RTO" \notin irqStatus ELSE "COK" \in irqStatus

TxReport == radio.mode = "STX" /\ status = "TX_ONLY"
RxReport == radio.mode = "SRX" /\ status = "RX_ONLY"

(* The events one mode-done interrupt sets.                                *)
Report ==
  (IF TxReport THEN {"TX_DONE"} ELSE {})
  \cup (IF RxReport THEN {"RX_DONE"} ELSE {})
  \cup (IF RxReport /\ PacketIn THEN {"RX_DATA_PROCESS"} ELSE {})

IsrPost ==
  /\ isr = "post"
  /\ llWaitingIrq' = FALSE
  /\ events' = events \cup Report
  /\ rxBuf' = (rxBuf \/ (RxReport /\ PacketIn))
  /\ radio' = [radio EXCEPT !.irq = {}]
  /\ isr' = "off"
  /\ irqStatus' = {}
  /\ UNCHANGED <<app, dwell, timers, main>>

Isr == IsrEnter \/ IsrIgnore \/ IsrBlink \/ IsrPost

-----------------------------------------------------------------------------
(* The radio.                                                              *)

(* A packet with a good CRC arrives; mode-done follows.                    *)
HwPacket ==
  /\ radio.armed /\ radio.mode = "SRX"
  /\ "COK" \notin radio.irq
  /\ radio' = [radio EXCEPT !.irq = @ \cup {"COK"}]
  /\ UNCHANGED <<app, dwell, llWaitingIrq, rxBuf, events, timers, main, intr>>

(* Mode done: the packet is out, or one (good or bad) is in, or nothing    *)
(* was heard before the timeout.                                           *)
HwDone ==
  /\ radio.armed
  /\ \E timeout \in BOOLEAN :
       /\ timeout => radio.mode = "SRX" /\ radio.left = 0 /\ "COK" \notin radio.irq
       /\ radio' = [radio EXCEPT !.armed = FALSE,
                      !.irq = @ \cup {"MD"} \cup (IF timeout THEN {"RTO"} ELSE {})]
  /\ UNCHANGED <<app, dwell, llWaitingIrq, rxBuf, events, timers, main, intr>>

-----------------------------------------------------------------------------
Next ==
  \/ Main
  \/ Isr
  \/ HwPacket \/ HwDone
  \/ Tick \/ \E e \in Periodic : Expire(e)

(* The processor runs whatever is runnable, a triggered operation ends and *)
(* the clock does not stop.  Receiving a packet is never owed.             *)
Fairness ==
  /\ WF_vars(Main)
  /\ WF_vars(Isr)
  /\ WF_vars(HwDone)
  /\ WF_vars(Tick)
  /\ \A e \in Periodic : WF_vars(Expire(e))

Spec == Init /\ [][Next]_vars

FairSpec == Spec /\ Fairness
-----------------------------------------------------------------------------
(* Properties.                                                             *)

(* Every variable stays in its type: the events word, the timers and the   *)
(* radio registers hold only what the code writes into them.               *)
TypeOK ==
  /\ status \in Statuses
  /\ rfChn \in Channels /\ wtSeed \in Channels
  /\ dwell \in 0 .. RxOnlyTO
  /\ llWaitingIrq \in BOOLEAN /\ rxBuf \in BOOLEAN
  /\ events \subseteq Events /\ evs \subseteq Events
  /\ timers \in [Periodic -> Nat \cup {NoTimer}]
  /\ pc \in {"idle", "dispatch", "rf_stop", "rf_prog", "rf_go", "rf_exit", "return"}
  /\ cur \in Events \cup {"none"}
  /\ crit \in BOOLEAN
  /\ isr \in {"off", "ignore", "blink", "post"}
  /\ irqStatus \subseteq IrqBits
  /\ radio \in Radio

(* Events the task has been sent and whose handler has not yet acted.      *)
Pending == events \cup (evs \ {cur})

(* The three places where a running cycle can be: the main loop is about   *)
(* to trigger an operation, the radio (or its interrupt) has one, or its   *)
(* completion is reported in the events word.                              *)
Starting  == pc \in {"rf_stop", "rf_prog", "rf_go"}
InFlight  == radio.armed \/ "MD" \in radio.irq
Reporting == DoneEvents \cap Pending # {}

(* A cycle is in exactly one place, and s_phy.Status says so: when Status  *)
(* is not IDLE one of the three holds, so the state machine is never       *)
(* stuck; never two, so one completion cannot advance the cycle twice; and *)
(* when it is IDLE none does, so no late interrupt reaches the next cycle. *)
OneOwner ==
  IF status = "IDLE" THEN ~Starting /\ ~InFlight /\ ~Reporting
  ELSE /\ Starting \/ InFlight \/ Reporting
       /\ ~(Starting /\ InFlight) /\ ~(Starting /\ Reporting) /\ ~(InFlight /\ Reporting)

(* The report in the events word is the one the status waits for: a        *)
(* TX_DONE is never delivered to a scan cycle nor an RX_DONE to an         *)
(* advertising cycle, and there is one copy of it.                         *)
ReportMatchesStatus ==
  /\ "TX_DONE" \in Pending => status = "TX_ONLY"
  /\ "RX_DONE" \in Pending => status = "RX_ONLY"
  /\ DoneEvents \cap events \cap (evs \ {cur}) = {}

(* phy_hw_stop never finds an operation to stop: its 33 us receive timeout *)
(* and its polling loop, which gives up after eleven polls and would let   *)
(* phy_rf_tx reprogram a radio in use, are never needed.                   *)
StopFindsRadioIdle ==
  pc \in {"rf_stop", "rf_prog", "rf_go"} => ~llWaitingIrq /\ ~radio.armed

(* llWaitingIrq is true exactly from the trigger to the handler, once the  *)
(* critical section of the trigger is over: the flag the rest of the       *)
(* system reads to know whether the radio is in use never lies.            *)
WaitingIsTruthful == pc # "rf_exit" => (llWaitingIrq <=> InFlight)

(* The interrupt handler never writes over a packet in phyBufRx that       *)
(* phy_rx_data_process has not seen.                                       *)
NoRxOverrun == isr = "post" /\ RxReport /\ PacketIn => ~rxBuf

(* A started periodic event is never lost and never doubled: its timer is  *)
(* running, or it is pending, or its handler is running and will restart   *)
(* the timer.                                                              *)
PeriodicAlive ==
  \A e \in Periodic :
    /\ e \in Started <=> (timers[e] # NoTimer \/ e \in events \/ e \in evs)
    /\ e \in events \cup evs => timers[e] = NoTimer
    /\ e \notin events \cap evs

(* The event whose handler is running: the one it was called for while it  *)
(* starts an operation, before that the first of those taken.              *)
Handled(e) == (pc = "return" /\ e = cur) \/ Dispatched(e)

(* An event leaves the words only when the handler that it is for returns, *)
(* and no other event leaves with it.                                      *)
EventsConsumedSingly ==
  [][\E e \in Events : (events \cup evs) \ (events' \cup evs') \subseteq {e}
       /\ (e \in (events \cup evs) \ (events' \cup evs') => Handled(e) /\ pc' = "idle")]_vars

(* What is on the air follows OnAir: full cycles over 37, 38, 39, one      *)
(* operation at a time, each with its channel's seed.                      *)
Air == INSTANCE OnAir WITH
  phase <- IF radio.armed THEN "on" ELSE IF pc = "rf_go" THEN "tuned" ELSE "done",
  op    <- [mode |-> radio.mode, chn |-> radio.chn, seed |-> radio.seed]

AirSafe == Air!SafeSpec
AirSpec == Air!Spec

(* Both kinds of cycle go on for ever: the scan cycles that compete for    *)
(* the radio, with all the packets they may hear, cannot starve            *)
(* advertising, nor advertising scanning, when their timers are started.   *)
NeitherStarves ==
  /\ []<>(radio.armed /\ radio.mode = "STX" /\ radio.chn = 39)
  /\ []<>(radio.armed /\ radio.mode = "SRX" /\ radio.chn = 39)
=============================================================================
