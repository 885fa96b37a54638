------------------------------- MODULE ApTimer -------------------------------
(***************************************************************************)
(* components/timer.c with the clock gates of components/clock.c: two      *)
(* hardware timers for the application, set, masked and stopped by the     *)
(* thread register by register while their interrupt handlers call the     *)
(* application back, which may set or stop the timer it is called for.     *)
(***************************************************************************)
EXTENDS Processor, FiniteSets

CONSTANT Timers         \* the timers' interrupts

ASSUME TimerAssumption == IsFiniteSet(Timers) /\ Timers # {}

VARIABLES ctrl,         \* each timer's ControlReg: "on" and "masked"
          status,       \* the timers that have elapsed and await the read of EOI
          clocked,      \* the timers' bits of AP_PCR->SW_CLK
          loaded,       \* the register the thread is updating
          callback,     \* s_ap_callback is set
          live          \* what the application wants of each timer (history)

timerVars == <<ctrl, status, clocked, loaded, callback, live>>

TimerInit ==
    /\ ctrl = [t \in Timers |-> {}] /\ status = {} /\ clocked = {}
    /\ loaded = {} /\ callback = FALSE
    /\ live = [t \in Timers |-> "off"]

\* The interrupt line, which is also what the status register shows.
Line(t) == t \in status /\ ctrl[t] = {"on"}

------------------------------------------------------------------------------
(* The functions the application calls.                                    *)

SetSteps(t, time) == <<<<"hook", t>>, <<"arm", t>>, <<"load", t, time>>,
                       <<"gates">>, <<"clock", t>>>>

StopSteps(t) == <<<<"unhook", t>>, <<"halt", t>>, <<"disarm", t>>,
                  <<"gates">>, <<"unclock", t>>>>

\* A time that is not positive as an int is set as none.
TimerSet == \E t \in Timers, time \in {"none", "some"} :
    /\ Call(SetSteps(t, time))
    /\ UNCHANGED <<enabled, pending, hooked, timerVars>>

TimerStop == \E t \in Timers :
    /\ Call(StopSteps(t))
    /\ UNCHANGED <<enabled, pending, hooked, timerVars>>

TimerMaskInt == \E t \in Timers, en \in BOOLEAN :
    /\ Call(<<<<"control", t>>, <<"mask", t, en>>>>)
    /\ UNCHANGED <<enabled, pending, hooked, timerVars>>

TimersInit ==
    /\ Call(<<<<"stop", Timers>>>>)
    /\ callback' = TRUE
    /\ UNCHANGED <<enabled, pending, hooked, ctrl, status, clocked, loaded, live>>

\* The timers go on.
TimersDeinit ==
    /\ Call(<<>>)
    /\ callback /\ callback' = FALSE
    /\ UNCHANGED <<enabled, pending, hooked, ctrl, status, clocked, loaded, live>>

------------------------------------------------------------------------------
(* The steps.                                                              *)

\* A timer that was off is being set from here on, and is on when it is loaded.
\* Stopped by its callback in between, it is stray: it counts all the same.
Hook(t) == /\ Step(<<"hook", t>>)
           /\ hooked' = hooked \cup {t}
           /\ live' = [live EXCEPT ![t] = IF @ \in {"on", "stray"} THEN @ ELSE "setting"]
           /\ UNCHANGED <<enabled, pending, ctrl, status, clocked, loaded, callback>>

Unhook(t) == /\ Step(<<"unhook", t>>)
             /\ hooked' = hooked \ {t}
             /\ live' = [live EXCEPT ![t] = "off"]
             /\ UNCHANGED <<enabled, pending, ctrl, status, clocked, loaded, callback>>

Arm(t) == /\ Step(<<"arm", t>>)
          /\ enabled' = enabled \cup {t}
          /\ UNCHANGED <<pending, hooked, timerVars>>

Disarm(t) == /\ Step(<<"disarm", t>>)
             /\ enabled' = enabled \ {t}
             /\ UNCHANGED <<pending, hooked, timerVars>>

\* Disabling a timer also withdraws its interrupt, but not the NVIC's latch.
LoadTimer(t) ==
    /\ \E time \in {"none", "some"} :
          /\ Step(<<"load", t, time>>)
          /\ ctrl' = [ctrl EXCEPT ![t] = IF time = "some" THEN {"on"} ELSE {}]
          /\ live' = [live EXCEPT ![t] = IF time = "none" THEN "off"
                                         ELSE IF @ = "off" THEN "stray" ELSE "on"]
    /\ status' = status \ {t}
    /\ UNCHANGED <<enabled, pending, hooked, clocked, loaded, callback>>

StopCounter(t) ==
    /\ Step(<<"halt", t>>)
    /\ ctrl' = [ctrl EXCEPT ![t] = {}] /\ status' = status \ {t}
    /\ UNCHANGED <<enabled, pending, hooked, clocked, loaded, callback, live>>

\* hal_timer_init calls hal_timer_stop for each timer.
StopNext(t) ==
    /\ \E ts \in SUBSET Timers :
          /\ t \in ts
          /\ todo # <<>> /\ Head(todo) = <<"stop", ts>> /\ Serving = {}
          /\ todo' = StopSteps(t) \o IF ts = {t} THEN <<>> ELSE <<<<"stop", ts \ {t}>>>>
    /\ UNCHANGED <<enabled, pending, hooked, timerVars>>

\* SW_CLK is read, changed and written back.
ReadGates ==
    /\ Step(<<"gates">>)
    /\ loaded' = clocked
    /\ UNCHANGED <<enabled, pending, hooked, ctrl, status, clocked, callback, live>>

ClkGate(t) ==
    /\ \/ Step(<<"clock", t>>) /\ clocked' = loaded \cup {t}
       \/ Step(<<"unclock", t>>) /\ clocked' = loaded \ {t}
    /\ loaded' = {}
    /\ UNCHANGED <<enabled, pending, hooked, ctrl, status, callback, live>>

ReadCtrl(t) ==
    /\ Step(<<"control", t>>)
    /\ loaded' = ctrl[t]
    /\ UNCHANGED <<enabled, pending, hooked, ctrl, status, clocked, callback, live>>

\* Slip: the mask is one bit further up.
MaskIntShifted(t) ==
    /\ \E en \in BOOLEAN :
          /\ Step(<<"mask", t, en>>)
          /\ ctrl' = [ctrl EXCEPT ![t] = IF en THEN loaded \cup {"bit3"} ELSE loaded]
    /\ loaded' = {}
    /\ UNCHANGED <<enabled, pending, hooked, status, clocked, callback, live>>
\* Unmasking a timer that has elapsed raises its line.
MaskInt(t) ==
    /\ \E en \in BOOLEAN :
          /\ Step(<<"mask", t, en>>)
          /\ ctrl' = [ctrl EXCEPT ![t] = IF en THEN loaded \cup {"masked"}
                                               ELSE loaded \ {"masked"}]
          /\ live' = [live EXCEPT ![t] = IF @ \in {"off", "stray"} THEN @
                                         ELSE IF en THEN "masked" ELSE "on"]
    /\ loaded' = {}
    /\ UNCHANGED <<enabled, hooked, status, clocked, callback>>
    /\ pending' = IF Line(t)' THEN pending \cup {t} ELSE pending

TimerStep(t) == \/ Hook(t) \/ Unhook(t) \/ Arm(t) \/ Disarm(t) \/ LoadTimer(t)
                \/ StopCounter(t) \/ ClkGate(t) \/ ReadCtrl(t) \/ MaskInt(t) \/ StopNext(t)

------------------------------------------------------------------------------
(* The timers and their interrupts.                                        *)

Expire(t) ==
    /\ "on" \in ctrl[t] /\ t \in clocked /\ t \notin status
    /\ status' = status \cup {t}
    /\ UNCHANGED <<todo, enabled, hooked, ctrl, clocked, loaded, callback, live>>
    /\ pending' = IF Line(t)' THEN pending \cup {t} ELSE pending

\* hal_timer_set and hal_timer_stop called by the application's callback,
\* which no step of the thread comes between.
SetAtOnce(t) ==
    /\ hooked' = hooked \cup {t} /\ enabled' = enabled \cup {t}
    /\ ctrl' = [ctrl EXCEPT ![t] = {"on"}] /\ status' = status \ {t}
    /\ clocked' = clocked \cup {t}
    /\ live' = [live EXCEPT ![t] = "on"]

StopAtOnce(t) ==
    /\ hooked' = hooked \ {t} /\ enabled' = enabled \ {t}
    /\ ctrl' = [ctrl EXCEPT ![t] = {}] /\ status' = status \ {t}
    /\ clocked' = clocked \ {t}
    /\ live' = [live EXCEPT ![t] = "off"]

\* Slip: the handler does not look at the status before it calls back.
CallbackUntested(t) ==
    /\ t \in Serving /\ callback
    /\ pending' = pending \ {t}
    /\ \/ status' = status \ {t} /\ UNCHANGED <<enabled, hooked, ctrl, clocked, live>>
       \/ SetAtOnce(t) \/ StopAtOnce(t)
    /\ UNCHANGED <<todo, loaded, callback>>
Callback(t) ==
    /\ t \in Serving /\ Line(t) /\ callback
    /\ pending' = pending \ {t}
    /\ \/ status' = status \ {t} /\ UNCHANGED <<enabled, hooked, ctrl, clocked, live>>
       \/ SetAtOnce(t) \/ StopAtOnce(t)
    /\ UNCHANGED <<todo, loaded, callback>>

\* The handler finds nothing to report, or nobody to report it to.
IrqIgnored(t) ==
    /\ t \in Serving /\ ~ (Line(t) /\ callback)
    /\ pending' = pending \ {t}
    /\ status' = IF Line(t) THEN status \ {t} ELSE status
    /\ UNCHANGED <<todo, enabled, hooked, ctrl, clocked, loaded, callback, live>>

\* HAL_EVT_WAKEUP: the application may set a timer again.
WakeupHandler ==
    /\ Step(<<"wakeup">>)
    /\ \/ UNCHANGED <<enabled, hooked, ctrl, status, clocked, live>>
       \/ callback /\ \E t \in Timers : SetAtOnce(t)
    /\ UNCHANGED <<pending, loaded, callback>>
==============================================================================
