------------------------------- MODULE Drivers -------------------------------
(***************************************************************************)
(* The flash driver and the application timers on one processor: calls of  *)
(* the one from the thread, interrupts and calls of the other between its  *)
(* steps, and sleeps in which the registers of both are lost.              *)
(***************************************************************************)
EXTENDS Spif, ApTimer

ASSUME DriversAssumption == Timers \cap RadioIrqs = {}

vars == <<processor, spifVars, timerVars>>

\* main has masked nothing yet when hal_spif_cache_init runs.
Init == /\ SpifInit /\ TimerInit
        /\ todo = ConfigSteps
        /\ enabled = {} /\ pending = {} /\ hooked = {}

\* The thread has nothing to do and the chip goes to sleep and wakes up.  The
\* registers are lost and the cache may hold anything; the modules' handlers
\* are called in the order the modules were registered.
Sleep ==
    /\ Call(ConfigSteps \o <<<<"wakeup">>>>)
    /\ enabled' = {} /\ pending' = {}
    /\ ctrl' = [t \in Timers |-> {}] /\ status' = {} /\ clocked' = {} /\ loaded' = {}
    /\ live' = [t \in Timers |-> "off"]
    /\ cache' \in {[s \in Sectors |-> Absent], [s \in Sectors |-> Garbage]}
    /\ bypass' \in BOOLEAN /\ remap' = FALSE
    /\ UNCHANGED <<hooked, flash, chip, initFlag, saved, value, request, gaveUp, callback>>

Calls == \/ (FlashRead \/ FlashWrite \/ FlashErase) /\ UNCHANGED timerVars
         \/ (TimerSet \/ TimerStop \/ TimerMaskInt \/ TimersInit \/ TimersDeinit)
               /\ UNCHANGED spifVars

Work == \/ SpifStep /\ UNCHANGED timerVars
        \/ (WakeupHandler \/ ReadGates \/ \E t \in Timers : TimerStep(t))
              /\ UNCHANGED spifVars

Interrupt(t) == (Callback(t) \/ IrqIgnored(t)) /\ UNCHANGED spifVars

Next == \/ Calls \/ Work \/ Sleep
        \/ \E t \in Timers : Interrupt(t)
        \/ \E t \in Timers : Expire(t) /\ UNCHANGED spifVars
        \/ ChipDone /\ UNCHANGED timerVars
        \/ \E s \in Sectors : Fetch(s) /\ UNCHANGED timerVars

\* The processor goes on, the chip ends what it is doing, and a timer that
\* runs elapses: the application does not set it anew for ever before it does.
Fairness == /\ WF_vars(Work) /\ WF_vars(ChipDone /\ UNCHANGED timerVars)
            /\ \A t \in Timers : /\ WF_vars(Interrupt(t))
                                 /\ WF_vars(Expire(t) /\ UNCHANGED spifVars)

Spec == Init /\ [][Next]_vars /\ Fairness

------------------------------------------------------------------------------
(* Every variable of the two drivers keeps its type. *)
Types ==
    /\ enabled \subseteq Timers \cup RadioIrqs /\ pending \subseteq Timers
    /\ hooked \subseteq Timers
    /\ flash \in [Sectors -> SUBSET Items]
    /\ cache \in [Sectors -> (SUBSET Items) \cup {Absent, Garbage}]
    /\ chip.op \in {"none", "program", "erase"} /\ chip.on \subseteq Sectors
    /\ request.op \in {"none", "read", "write", "erase"} /\ request.on \subseteq Sectors
    /\ bypass \in BOOLEAN /\ remap \in BOOLEAN /\ initFlag \in BOOLEAN
    /\ saved \subseteq Timers \cup RadioIrqs
    /\ value \in (SUBSET Items) \cup {Garbage}
    /\ ctrl \in [Timers -> SUBSET {"on", "masked"}]
    /\ status \subseteq Timers /\ clocked \subseteq Timers
    /\ loaded \subseteq Timers \cup {"on", "masked"}
    /\ callback \in BOOLEAN /\ gaveUp \in BOOLEAN
    /\ live \in [Timers -> {"off", "setting", "on", "masked", "stray"}]

(* flash.c implements FlashDevice: until a busy test has timed out, a call  *)
(* of hal_flash_write or an erase returns only when the chip has done what  *)
(* was asked, once, and hal_flash_read returns what the chip holds.         *)
Device == INSTANCE FlashDevice WITH
    memory <- flash, failed <- gaveUp,
    done <- /\ request # None /\ chip = None
            /\ \A i \in DOMAIN todo :
                  todo[i] \notin {<<"copy">>, <<"program">>, <<"erase">>}
FlashSpec == Device!Spec

(* What spif_lock is for: an interrupt whose handler may be in flash        *)
(* (flash.c:64 lets only two others through) is served only while the chip  *)
(* can be read and shows the bank the program is in.                        *)
HandlersFindFlash == Serving # {} /\ ~ gaveUp => chip = None /\ ~ remap

(* Code that runs from flash never finds in the cache what has been erased  *)
(* or what was there before a sleep; what was written since it was cached   *)
(* it may miss, as hal_flash_write flushes nothing.                         *)
CacheNeverShowsErased ==
    FlashInUse /\ initFlag /\ ~ gaveUp
        => \A s \in Sectors : cache[s] = Absent \/ cache[s] \subseteq flash[s]

(* The application is called only for a timer it has set, that has been     *)
(* loaded, and that it has neither stopped nor masked since, whatever       *)
(* interrupts hal_timer_stop, hal_timer_mask_int or a flash operation left  *)
(* pending when hal_timer_set enables the timer's interrupt again.  A timer *)
(* its callback stops in the middle of hal_timer_set counts on unreported,  *)
(* and may call back early when it is set the next time.                    *)
SilentUnlessLive == [][\A t \in Timers : Callback(t) => live[t] \in {"on", "stray"}]_vars

(* A timer that is set calls back, however often the thread masks all      *)
(* interrupts for a flash operation.                                       *)
TimersFire ==
    \A t \in Timers : \/ []<>(live[t] # "on" \/ ~ callback \/ gaveUp)
                      \/ []<><<Callback(t)>>_vars
==============================================================================
