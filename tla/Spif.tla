-------------------------------- MODULE Spif ---------------------------------
(***************************************************************************)
(* components/flash.c: reads, writes and erases of a flash chip that the   *)
(* program may also run from.  Each function masks all interrupts but the  *)
(* link layer's and TIM1's, takes the cache out of the way, talks to the   *)
(* chip, and puts both back; the test for a busy chip returns out of the   *)
(* middle of it.  FLASH_PROTECT_FEATURE is 0, as in the build.  The build  *)
(* links all code to SRAM (st17h66.ld): that code and handlers may be in   *)
(* flash, as they are here, is what the driver is written for.             *)
(***************************************************************************)
EXTENDS Processor, FiniteSets

CONSTANTS Sectors, Items,
          Far           \* the sectors behind the first 512 kB, which need the remap

ASSUME SpifAssumption == IsFiniteSet(Sectors) /\ Sectors # {} /\ Far \subseteq Sectors

VARIABLES flash,        \* what the chip holds, the items programmed per sector
          chip,         \* what the chip is busy with
          cache,        \* what the cache holds of each sector
          bypass,       \* AP_PCR->CACHE_BYPASS
          remap,        \* AP_SPIF->remap
          initFlag,     \* phy_flash.init_flag, and with it its Capacity
          saved,        \* cs, the ISER that spif_lock returned
          value,        \* what the running read has found
          request,      \* the running function and its sectors
          gaveUp        \* a busy test has run into its time-out (history)

spifVars == <<flash, chip, cache, bypass, remap, initFlag, saved, value, request, gaveUp>>

None == [op |-> "none", on |-> {}]
Absent == Items \cup {"absent"}        \* a sector the cache has nothing of
Garbage == {"garbage"}                 \* what a read at the wrong time returns

RadioIrqs == {"BB", "TIM1"}

SpifInit ==
    /\ flash \in [Sectors -> SUBSET Items]
    /\ chip = None /\ request = None
    /\ cache = [s \in Sectors |-> Absent]
    /\ bypass = FALSE /\ remap = FALSE /\ initFlag = FALSE
    /\ saved = {} /\ value = {} /\ gaveUp = FALSE

------------------------------------------------------------------------------
(* The functions, as the steps they take.  cb is the bypass a function     *)
(* finds, and nobody changes it before it is used again.                   *)

When(condition, steps) == IF condition THEN steps ELSE <<>>

ReadSteps(s) ==
    LET mapped == s \in Far /\ initFlag
    IN <<<<"lock">>>> \o When(mapped, <<<<"map">>>>)
         \o (IF bypass THEN <<<<"copy">>>> ELSE <<<<"enter">>, <<"copy">>, <<"exit">>>>)
         \o When(mapped, <<<<"unmap">>>>) \o <<<<"unlock">>>>

WriteSteps == <<<<"lock">>, <<"enter">>, <<"wait">>, <<"program">>, <<"wait">>,
                <<"exit">>, <<"unlock">>>>

\* Slip: the cache's tags are left alone.
EraseStepsUnflushed == <<<<"lock">>, <<"enter">>, <<"wait">>, <<"erase">>, <<"wait">>,
                         <<"exit">>, <<"unlock">>>>
EraseSteps == <<<<"lock">>, <<"enter">>, <<"wait">>, <<"erase">>, <<"wait">>,
                <<"exit">>>> \o When(~ bypass, <<<<"flush">>>>) \o <<<<"unlock">>>>

InfoSteps == When(~ initFlag, <<<<"lock">>, <<"wait">>, <<"wait">>, <<"unlock">>, <<"inform">>>>)

ConfigSteps == <<<<"flush">>, <<"exit">>>> \o InfoSteps

FlashRead == \E s \in Sectors :
    /\ Call(ReadSteps(s))
    /\ request' = [op |-> "read", on |-> {s}]
    /\ UNCHANGED <<enabled, pending, hooked, flash, chip, cache, bypass, remap,
                   initFlag, saved, value, gaveUp>>

FlashWrite == \E s \in Sectors :
    /\ Call(WriteSteps)
    /\ request' = [op |-> "write", on |-> {s}]
    /\ UNCHANGED <<enabled, pending, hooked, flash, chip, cache, bypass, remap,
                   initFlag, saved, value, gaveUp>>

\* A sector, or all of them.
FlashErase == \E on \in {{s} : s \in Sectors} \cup {Sectors} :
    /\ Call(EraseSteps)
    /\ request' = [op |-> "erase", on |-> on]
    /\ UNCHANGED <<enabled, pending, hooked, flash, chip, cache, bypass, remap,
                   initFlag, saved, value, gaveUp>>

------------------------------------------------------------------------------
(* The steps.                                                              *)

\* The last step of a function ends its request.
Ended == IF todo' = <<>> THEN None ELSE request

\* Slip: interrupts are only added to the mask.
SpifLockOpen ==
    /\ Step(<<"lock">>)
    /\ saved' = enabled /\ enabled' = enabled \cup RadioIrqs
    /\ UNCHANGED <<pending, hooked, flash, chip, cache, bypass, remap, initFlag,
                   value, request, gaveUp>>
SpifLock ==
    /\ Step(<<"lock">>)
    /\ saved' = enabled /\ enabled' = RadioIrqs
    /\ UNCHANGED <<pending, hooked, flash, chip, cache, bypass, remap, initFlag,
                   value, request, gaveUp>>

\* Slip: the other interrupts stay masked.
SpifUnlockMasked ==
    /\ Step(<<"unlock">>)
    /\ enabled' = enabled \cup (saved \cap RadioIrqs)
    /\ request' = Ended /\ saved' = {} /\ value' = {}
    /\ UNCHANGED <<pending, hooked, flash, chip, cache, bypass, remap, initFlag, gaveUp>>
\* A write to ISER only enables.
SpifUnlock ==
    /\ Step(<<"unlock">>)
    /\ enabled' = enabled \cup saved
    /\ request' = Ended /\ saved' = {} /\ value' = {}
    /\ UNCHANGED <<pending, hooked, flash, chip, cache, bypass, remap, initFlag, gaveUp>>

\* Whether the reset of the cache empties it is the hardware's affair.
EnterBypass ==
    /\ Step(<<"enter">>)
    /\ bypass' = TRUE
    /\ cache' \in {cache, [s \in Sectors |-> Absent]}
    /\ UNCHANGED <<enabled, pending, hooked, flash, chip, remap, initFlag, saved,
                   value, request, gaveUp>>

ExitBypass ==
    /\ Step(<<"exit">>)
    /\ bypass' = FALSE /\ request' = Ended
    /\ UNCHANGED <<enabled, pending, hooked, flash, chip, cache, remap, initFlag,
                   saved, value, gaveUp>>

TagFlush ==
    /\ Step(<<"flush">>)
    /\ cache' = [s \in Sectors |-> Absent]
    /\ UNCHANGED <<enabled, pending, hooked, flash, chip, bypass, remap, initFlag,
                   saved, value, request, gaveUp>>

Map(on) ==
    /\ Step(IF on THEN <<"map">> ELSE <<"unmap">>)
    /\ remap' = on
    /\ UNCHANGED <<enabled, pending, hooked, flash, chip, cache, bypass, initFlag,
                   saved, value, request, gaveUp>>

\* Slip: only the poll before an operation waits for the chip.
WaitNoBusyBefore ==
    /\ Step(<<"wait">>)
    /\ chip = None \/ Len(todo) < 5
    /\ UNCHANGED <<enabled, pending, hooked, spifVars>>
\* The chip is polled until it is idle ...
WaitNoBusy ==
    /\ Step(<<"wait">>)
    /\ chip = None
    /\ UNCHANGED <<enabled, pending, hooked, spifVars>>

\* ... or the polls run out, and the function returns as it stands.
GiveUp ==
    /\ todo # <<>> /\ Head(todo) = <<"wait">> /\ Serving = {}
    /\ chip # None
    /\ todo' = <<>> /\ request' = None /\ gaveUp' = TRUE
    /\ saved' = {} /\ value' = {}
    /\ UNCHANGED <<enabled, pending, hooked, flash, chip, cache, bypass, remap, initFlag>>

\* spif_write, spif_write_dma, spif_erase_sector, _block64 and _all start the chip.
Start(op) ==
    /\ Step(<<op>>)
    /\ chip' = [op |-> op, on |-> request.on]
    /\ UNCHANGED <<enabled, pending, hooked, flash, cache, bypass, remap, initFlag,
                   saved, value, request, gaveUp>>

\* The bytes come from the chip, the bank remap selects.
Copy ==
    /\ Step(<<"copy">>)
    /\ value' = IF chip = None /\ remap = (request.on \subseteq Far)
                THEN UNION {flash[s] : s \in request.on}
                ELSE Garbage
    /\ UNCHANGED <<enabled, pending, hooked, flash, chip, cache, bypass, remap,
                   initFlag, saved, request, gaveUp>>

Inform ==
    /\ Step(<<"inform">>)
    /\ initFlag' = TRUE /\ request' = Ended
    /\ UNCHANGED <<enabled, pending, hooked, flash, chip, cache, bypass, remap, saved,
                   value, gaveUp>>

SpifStep == \/ SpifLock \/ SpifUnlock \/ EnterBypass \/ ExitBypass \/ TagFlush
            \/ \E on \in BOOLEAN : Map(on)
            \/ WaitNoBusy \/ GiveUp
            \/ \E op \in {"program", "erase"} : Start(op)
            \/ Copy \/ Inform

------------------------------------------------------------------------------
(* The chip and the cache.                                                 *)

\* The chip ends what it is doing.
ChipDone ==
    /\ chip # None
    /\ \/ /\ chip.op = "program"
          /\ \E i \in Items :
                flash' = [s \in Sectors |-> flash[s] \cup (IF s \in chip.on THEN {i} ELSE {})]
       \/ /\ chip.op = "erase"
          /\ flash' = [s \in Sectors |-> IF s \in chip.on THEN {} ELSE flash[s]]
    /\ chip' = None
    /\ UNCHANGED <<todo, enabled, pending, hooked, cache, bypass, remap, initFlag,
                   saved, value, request, gaveUp>>

\* Code in flash, if there is any, runs: the thread's between calls, or that of an interrupt
\* that is not masked.  What it fetches stays in the cache.
FlashInUse == todo = <<>> \/ Serving # {}
Fetch(s) ==
    /\ FlashInUse /\ initFlag
    /\ ~ bypass /\ cache[s] = Absent
    /\ cache' = [cache EXCEPT ![s] = IF chip = None THEN flash[s] ELSE Garbage]
    /\ UNCHANGED <<processor, flash, chip, bypass, remap, initFlag, saved, value,
                   request, gaveUp>>
==============================================================================
