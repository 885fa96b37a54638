# A formal model of the st17h66 RF firmware

The repository is bare-metal firmware for the ST17H66 Bluetooth LE system on chip. It uses the chip's
ROM for the operating system abstraction layer (OSAL), the link-layer hardware primitives and
the raw flash commands, and runs without the vendor's Bluetooth stack. One OSAL task, in
`source/Lenze_phy.c`, advertises and listens on the three advertising channels by driving the radio
itself. Drivers in `components/` sit beside it: power manager, GPIO, flash, a flash file system,
timers, clock.

This directory holds TLA+ modules for the parts with behaviour of their own, TLC configurations that
check them on small instances, and TLAPS proofs for every value of their constants.

## Inventory

### The parts, their state and their operations

| Part | Source | State | Operations | Modules |
|---|---|---|---|---|
| RF application | `source/Lenze_phy.c` | `s_phy` (Status, channel, scan start), `s_pktCfg` (seed), `llWaitingIrq`, `phyBufRx`, the task's events and timers | `LenzePhy_ProcessEvent`, `process_tx_done_evt`, `process_rx_done_evt`, `phy_rf_tx`, `phy_rf_rx`, `PLUSPHY_IRQHandler` | `OnAir`, `LenzePhy` |
| File system | `components/fs.c` | the flash zone; `fs_init_flag`, `fs.current_sector`, `fs.offset`, `fs.exchange_sector` | init, format, write, delete, read, free size, garbage size, garbage collection | `FileStore`, `Fs` |
| Power manager | `components/pwrmgr.c` | a table of ten modules with locks and handlers, the sleep gate; the pins that end standby | register, unregister, lock, unlock, sleep and wake-up process, enter and leave standby | `Pwrmgr`, `Standby`, `MCPower` |
| GPIO driver | `components/gpio.c` | pin assignments, interrupt and wake-up contexts per pin | register, enable, disable and unregister inputs; register, write and unregister outputs; edge handler, sleep and wake-up handlers | `Gpio` |
| Flash driver | `components/flash.c` | the NVIC mask, the cache bypass and its tags, the bank remap, the chip and what it is doing | read, write, three erases, cache initialisation | `FlashDevice`, `Spif`, `Drivers` |
| Application timers | `components/timer.c` | two hardware timers, their interrupts, jump-table entries and clock gates, a callback | set, stop, mask, init, deinit, the interrupt handlers, the wake-up handler | `ApTimer`, `Drivers` |
| Clock | `components/clock.c` | clock gates, reset registers | gates, interval arithmetic, busy waits, resets | `ApTimer` (the gates) |
| RF driver | `lib/rf_phy_driver.c` | the radio's registers, the supply, the calibration results | initialisation, baseband and analogue configuration, calibrations, transmit power | `RfPhy` |
| Start-up | `main.c`, `RTE/` | - | a fixed sequence that ends in the OSAL loop | as initial states |
| Patch, chip id, jump table | `lib/patch.c`, `lib/phy_sec_ext.c`, `misc/jump_table.c` | tables for the ROM | - | not modelled |
| ROM and stack headers | `include/ll*.h`, `hci.h`, ... | declarations only | - | not modelled |
| Host tools | `flash_st17h66.py`, `misc/*.py` | - | straight-line scripts | not modelled |

### How they interact

`main` initialises the drivers, which register sleep and wake-up handlers with the power manager, and
enters the OSAL loop. The loop takes the task's events word, clears it and calls
`LenzePhy_ProcessEvent`, which handles one event and returns the others. Handlers start radio
operations through `phy_rf_tx` and `phy_rf_rx`; the link-layer interrupt ends each operation and posts
an event back. OSAL timers post the periodic events. The file system calls the flash driver, which
calls the ROM. The power manager runs the handlers of GPIO, flash and timers around every sleep; the
application lets the chip sleep whenever the OSAL is idle.

### What is hard

`PROJECT.json` lists the hazards with their lines. In short: an interrupt that reads and clears what
the main loop is setting up; two kinds of cycle that compete for one radio; a polling loop that gives
up; events that must neither be lost nor repeated; a file system whose calls are many flash
operations that can fail or be cut by a loss of power in between, and whose position in RAM must agree
with flash; handlers that run around a sleep in which edges arrive.

### What makes each part correct

- *RF application*: a running cycle is in exactly one place; a completion reaches the cycle it
  belongs to; the air carries complete cycles over 37, 38, 39 with the right seeds; nothing is lost;
  no cycle starves the other.
- *File system*: it is a map from ids to contents across restarts, deletions and collections; it never
  programs what is already programmed; RAM and flash agree; sizes are exact; a loss of power puts only
  one file in doubt.
- *Power manager*: sleep is only enabled when nobody holds a lock; a table without gaps or
  duplicates; each handler runs once per sleep and once per wake-up.
- *GPIO*: a pin without handlers is silent, an enabled one is armed, an output holds through a sleep,
  a change across a sleep is reported, a moving pin is never deaf, no pin touches another's bits.
- *Flash driver*: it is the device its callers take it for; handlers in flash find flash readable;
  the cache never shows what was erased; the lock is given back, unless a busy test timed out.
- *Application timers*: a timer calls back when it is set and only then, whatever is left pending.
- *RF driver*: what an operation finds in the registers is what its format and power ask for, whatever
  came before; a calibration result that was flagged in time is used.

## Plan

1. `LenzePhy` with its abstract specification `OnAir`, checked and proved. *Done.*
2. `Fs` with its abstract specification `FileStore`, checked with failures and cuts. *Done.* Proved
   for any number and size of sectors, the refinements without and with cuts included.
3. `Pwrmgr`: the table and the gate, with an interrupt that locks and unlocks; `Standby`; the two
   together; `Gpio`, with the sleep and the wake-up process around its handlers. *Done*, checked and
   proved.
4. `Spif`, the flash driver, with its abstract specification `FlashDevice`, and `ApTimer`, the
   application timers, on one `Processor`, composed in `Drivers`. *Done*, checked and proved, the
   refinement included.
5. `RfPhy`: the registers that initialisation, calibrations and packet formats share. *Done*, checked
   and proved.

## The RF application: OnAir, LenzePhy, MCLenzePhy

`OnAir` says what the air may see: one operation at a time; advertising cycles that transmit once on
each of 37, 38, 39; scan cycles that listen on them in order, any number of times on each; no cycle
abandoned; each operation with its channel's whitening seed. `Spec` adds that the radio never stops
for good.

`LenzePhy` has three actors. The main loop is a program counter `pc`: `TakeEvents` is the OSAL
dispatcher, `Dispatched(e)` the order of the tests in `ProcessEvent`, and a handler that starts an
operation goes through `RfStop`, `RfProgram`, `RfGo`, `RfExit` and `HandlerReturn`, because the interrupt
can come between any two of them that are not inside the critical section (`crit`). The interrupt
handler is `isr`, with its local copy of the interrupt status; it keeps the main loop from running,
not the hardware: a packet or a timer may come while it blinks the LED for 5 ms (`IsrBlink`). The
radio is a record of the registers the code writes and the status bits it reads.

`Started` says which periodic events have a timer: `LenzePhy_Init` starts the advertising timer only,
with the line for the scan timer commented out (`Lenze_phy.c:545`). The scan code is complete, so the
run starts both: until tick 750 that is the shipped build, and `Started = {"PERIODIC_TX"}` in
`AdvScan.cfg` is the shipped build for good (there is then no scan for `NeitherStarves`). The theorems
hold for every `Started`. `MCLenzePhy` adds a counter of retries to the actions and changes nothing.

Assumptions about what is not in the repository: the OSAL clears the events word when it takes it and
ORs back what the task returns; its timers fire once; the link-layer interrupt is raised while a
status bit and its mask bit are set; mode-done ends an operation, with a receive time-out bit when
nothing was heard and a CRC bit when a good packet was. Between the initialisation of the radio and the
first `phy_hw_go`, status and mask may hold what calibration left there.

| Run | Question | Result |
|---|---|---|
| `adv_scan` | Two cycles, one radio: single owner, reports, `phy_hw_stop`, buffer, events, timers, `OnAir` with its liveness; how long can a periodic event be put off; does neither kind of cycle starve? | all hold: at most 4 retries in a row for advertising, 1 for scanning |

*Bounds.* A tick is a third of 10 ms, a unit in which the intervals of `LenzePhy_Init`, the retry and the
dwell time are all whole: 150 ticks between advertising events, 60 between scan events, first events after 300
and 750, a retry after 6. The dwell time of 10 ms is 3 ticks and the handler's 5 ms are 1, which gives
a channel at least as many packets as it can hear. Channels, events and status values are those of the
code. There is no other bound: the instances are finite by themselves.

*Fairness.* Weak fairness of the main loop and of the interrupt handler (the processor runs when there
is something to run), of mode-done (a triggered operation ends, at the latest by its time-out), of the
clock and of an expired timer. Packets are never owed, so starvation by silence and by traffic are
both covered. Sleep is not modelled: a wake-up only delays these steps.

### What is proved

In `LenzePhy_proofs`, for all intervals, both packet formats and every set of started timers: `TypeOK`,
`OneOwner`, `ReportMatchesStatus`, `WaitingIsTruthful`, `StopFindsRadioIdle`, `NoRxOverrun`,
`PeriodicAlive`, `EventsConsumedSingly` and that `LenzePhy` implements `OnAir`'s safety. The only
assumption is `ConstantsAssumption`.

`DeferralsBounded` is proved as well (`DeferralsStayBounded`), and not for the shipped intervals only but
for all that satisfy `Paced`, which says what the intervals have to be for it: a retry outlasts an
advertising cycle, four retries outlast a scan cycle, and an interval outlasts a cycle of its own kind
and a retry. `Paced` is an assumption of `MCLenzePhy` that TLC evaluates. The argument is about time.
`Work` is the number of ticks the running cycle can still take, from its channel, its dwell time and the
state of its operation; it never grows within a cycle and every tick takes one off (`WorkStep`).
`PaceInv` says of an event that has met the other's cycle `n` times that the work left is at most what a
whole cycle takes less the `n - 1` retries and the part of the last one that has passed, so that the
next deferral would find a cycle with nothing left to do.

None of these is inductive. That Status, the radio and the events word agree depends on where the
main loop is, on what the interrupt handler has already read and on the mask: an interrupt that
clears the status while an operation is in flight is harmless only because the mask that lets it in is
gone by then. The inductive invariant `IInv` therefore adds: `MainInv`, what each value of `pc`
implies about `cur`, `evs` and `crit`; `IsrInv`, what the handler's copy of the status says of the real
one, and that no stray status survives `phy_hw_go`; `ModeInv`, that mode, channel and Status belong to
the same cycle; `OwnerInv`, the single owner and the flag; `RxInv`, where an unread packet can be. Each
is preserved by every action in a lemma of its own (`TypeStep`, `MainStep`, ...), and `Invariance` puts
them together. `AirInv` relates the radio's registers, when it is idle, to the channel the next
operation will use, and with it every step maps to a step of `OnAir` or leaves it unchanged.

Liveness (`AirSpec`, whose safety half is what `ImplementsOnAir` proves, and `NeitherStarves`, by which
also every cycle ends) is model-checked only: TLAPS does not reason about fairness here.

## The file system: FileStore, Fs, MCFs

`FileStore` is a map from ids to contents with an intent, the write or delete under way, and `formatting`,
which says that a format is. `Spec` lets an intent only succeed; `CutSpec` lets a cut call leave its own
file as it was, gone, or the beginning of the new one. The step that ends a format is the only one that
changes what more than one id reads as: a write, a delete, a collection or a restart that lost another
file would be a step of neither. In the refinement `formatting` is that the running call is `hal_fs_format`
(`MCFs`); `fs_cuts` and `StoreCutSpec` do not cut a format.

`Fs` makes a call a sequence of flash operations. `call` says which call is running and where in it:
marking frames deleted, putting frames, indexing a sector, copying an item (its head and its data are
two writes), erasing. Between any two, `Restart` may lose RAM (for the calls in `Cuts`), and any write may
fail, with or without effect (for the calls in `Fails`). Programming flash clears bits, so what a
second write to an item leaves is computed (`ProgramHead`, `ProgramData`). An item is a record of the
head's fields; its data is one value per frame, naming the file's content and the frame's number.
`Skip` is the arithmetic by which `fs_search_items` passes over a file's frames, in the linear order of
the ring; it has the code's error for files that fill a whole sector behind the one they begin in. Not
modelled: the length of the last frame's data, erase failures (the code ignores them), a supply that
fails in the middle of programming one item, and other zones than one with the same parameters.

| Run | Question | Result |
|---|---|---|
| `fs_calls` | Do all calls together implement the file store? Sizes, RAM, erased targets, what a collection reclaims | all hold |
| `fs_cuts` | And when power fails in a write, a delete or the first initialisation (`StoreCutSpec`)? | only the call's own file is in doubt and all others read as before, without a later collection |
| `fs_garbage_count` | Is the number of deleted files right? | no: counted several times for long files |
| `fs_format_cut` | Does a successful init mean an initialised file system? | no, after a format cut short |
| `fs_write_retry` | Does a successful write mean a stored file? | not after a write that failed |
| `fs_collect_after_cut` | Does a collection keep every file? | not behind a torn one |

*Bounds.* Three sectors of three items: the smallest ring with an exchange sector and a sector
boundary inside the files' room. Files have one, two and four frames; four frames in sectors of three
items stand for 342 frames in sectors of 255, the longest file the code accepts, which can fill a
sector behind the one it begins in. In `fs_cuts` no file reaches a sector's size: a torn file that
does meets the search error above, and the file written after it shares its span. Two ids, each with
two contents (one id has one in `fs_cuts`), so that a stale content shows. `CHECK_DEADLOCK` stays on.

The four disagreements are listed under `findings` in `PROJECT.json` with the lines of the code and of
`include/fs.h`. Two share a cause: the frames a head announces need not be there, and nothing but the
head says so. `hal_fs_init` also uses `PPlus_ERR_FS_UNINITIALIZED` for the opposite of what the header
says: it returns it when the file system is initialised; the model keeps the code's behaviour. A collection that is itself cut or fails is not covered: two sectors then have the same
index (see the hazards), and no document says what should hold.

*Proved* in `Fs_proofs`, for any ring of 3 to 78 sectors, any two or more items in each, any length of
frame and any files that the header of an item can describe and that do not fill two sectors. These are
`FsAssumption`; 4095 bytes, the longest length, are 342 frames of 12 bytes in sectors of 255 items and
69 of 60 bytes in sectors of 63.

- `TypeOK` of every behaviour, whatever fails and wherever the supply does. `CallInv` adds that a call
  that marks has a frame to mark and one that puts a frame of one of `Files`.
- `ProgramsErased`, `RestartInvisible`, `FreeSizeExact` and `CollectReclaims` under `Cuts = {} /\ Fails = {}`, the
  hypothesis of `fs_calls`: no flash write fails, and the supply fails between calls only. With failures
  not all of them hold, which the violation runs show.

The second group needs to know where in the zone everything is, in the middle of every call. The
inductive invariant is `IInv == TypeInv /\ Modes`; `Modes` has a disjunct for each phase of each call.
`Ring(e)` says that sector `e` is erased and the others have the indexes 0, 1, 2 ... behind it. The zone is
numbered from the item behind it, `Place(e, p)`, and `Sound(z, c)` says of its items that the first `c - 1`
were written and no other, that every head is followed by all the frames it announces (`Tiled`), and
that there is no frame without a head (`Covered`). Between calls the zone is sound and the free position
is its item `c`. A call that marks or puts leaves it, at every step, sound but for the frames still to
come (`Marked`, `Filled`). The collector turns one sound zone into another that begins a sector earlier:
`Moving(c, s, n, F, g)` says that `F` is the zone it will have made, that its first `c - 1` items have been
copied, and that `g` finds the others among the used items from `s` on. That such an `F` exists is the
lemma `CompactsOf`; that the place it copies to is always free is `Room`, kept because no item moves
forward.

Two definitions are recursive functions, `And` and the `from` of `Visited`, and say nothing to the provers by
themselves. Each is shown to exist and to satisfy its equation by induction over the natural numbers:
`NatLessThanWellFounded` with `WFMin` gives a least counterexample (lemma `Least`), for which no operator is
passed to a theorem. `AndDef` and `AndOnes` then say that programming erased flash writes what it is
given, and `VisitedLeast` and `SearchHeads` that the search of a sound zone visits exactly its heads and
its first free item, `Skip`'s arithmetic over sector ends included. The rest is arithmetic modulo the ring
(`PlaceInjective`, `PlaceOnto`, `PlaceAfter`, `FreeSizeIs`).

*Proved* in `Store_proofs`, under the same hypothesis: `StoreSpec`, that the calls implement the map from ids to
contents. `Has(z, n, id, x)` says that a zone `z` of `n - 1` items holds one file of `id`, with contents `x`, or
none. While a call runs the zone holds something in between, so the invariant `StoreInv` speaks of the zone as the
call will leave it: `Stands(z, n)` names that zone for each phase (`Marked`, `Filled` and the `F` of the
collector come from `Modes`), and `Keeps(z, n)` says that it holds what is to be read then, `Future`: the old
file of every id but the call's. Nearly every step leaves `z` as it is; only the ones that begin to mark, to
put or to collect turn it into another, and the lemmas `MarkedHas`, `FilledHas` and `CompactsHas` say what that does to
its files. `ReadsBack`, that reading finds what `Has` says, is needed only when a call ends. A
format is where all files go at once: until it writes its last head the files are as they were read last, and
`FormatEnds` is that last step.

*Proved* in the second half of `Store_proofs`, under `Survivable`: `StoreCutSpec`, `ProgramsErased` and
`RestartInvisible` when the supply may fail in a write, a delete or an initialisation, and a flash write in the
last two. (`fs_cuts` checks the first; that later writes find erased flash, and a restart what RAM says, are
proved only, by the same invariant.) `Survivable` is the hypothesis of `fs_cuts`, for any ring and any number of
files, and each part of it is needed: without it `fs_collect_after_cut`, `fs_format_cut` and `fs_write_retry`
show what goes wrong, and a file as long as a sector, once torn, meets the error of the search. `FreeSizeExact`
is not among the three: the frames a torn file lacks are neither free nor written until the zone is formatted.

A zone that was cut is not sound: frames are missing behind a head, or are still used behind a deleted one.
What survives is weaker, and is what the search relies on. `Laid(z, c, H)` says that the zone is laid out in spans:
`H` are the first frames of files, each span begins where the one before ends, and everything from `c` on was
never written; what the items inside a span hold does not matter, for the search steps over them (`SkipLaid`,
`SearchLaid`: it visits `H` and `c`). A torn file is a span with a gap, a half-deleted one a span whose head is
deleted. `Holds(z, H, id, x)` says what reading `id` returns there, and `Possible(id, x)` that this is allowed: what
was seen last or, for the file of the call under way or cut short, nothing or a beginning of the new contents.
`CutInv` combines the two for every point a call can be cut at: `Striking` while frames are marked, `Adding` while they
are put, `Unmounted` after a restart, when `Possible` still holds but nothing has been read yet. Since no collection
moves the ring, the exchange sector is always the last one (`Indexes`), also when the first initialisation was cut
between two heads. `StruckLaid`, `GrownLaid` and `WrittenLaid` are the three flash writes; `CutEnds` is the step at which the
files are read, where `Possible` becomes one step of the store or its `Tear`.

The proofs changed the model twice. The assumption on the ring lacked the 78 entries of `sector_order` in
`fs_init`: with more than 254 sectors an index would read as an erased head. And a head of length 0,
which a second write over a torn frame can leave, made `Mark` begin with no frame to mark: `Begun` and
`Delete` now do what the code's loop does with it, nothing.

## The power manager: Pwrmgr, Standby, MCStandby, MCPower

`Pwrmgr` is the table with its locks, and the gate that the ROM asks before it lets the chip sleep.
`hal_pwrmgr_lock` and `unlock` are atomic, because they mask interrupts, and may come between any two
steps of the others: `hal_pwrmgr_register` searches, clears the lock and names the entry (`Register`,
`ClearLock`, `Name`), `hal_pwrmgr_unregister` searches and then moves the entries up (`Unregister`,
`Close`). Registrations come from the main program only, as in the repository. `held` is the callers'
view: what was granted and not given back. The handlers an entry points to are left out; `Gpio` has its own.

`Standby` is `hal_pwrmgr_enter_standby` and `wakeupProcess_standby`: the pins change at any time, the
chip wakes when an armed pin has its level, samples one pin every 32 ms and boots or returns to
standby with the table as it is and the count as it has become. The pins are inputs already (`hal_gpioin_set_flag`), or `gpio_wakeup_set` would not arm them;
their pull resistors are left out. What is behind the table in memory is any entry.

`MCPower` puts the two together: the table while the program runs, then standby, and a boot that finds
the table empty. Standby is entered by the main program, so no call is under way.

| Run | Question | Result |
|---|---|---|
| `power` | Is the gate closed while anybody holds a lock, with more modules than entries? Does it open again, and is every module entered once, while the table has room? Are the application's pins in the table and armed for their levels in every standby? | yes, but for the level of P0 in a table with room left |
| `standby_table` | Does the number of entries stay within the table, and every pin armed for its level, P0 too? | no: a return to standby counts the entries again, and the second one arms P0 for its fall |

*Bounds.* Four modules for a table of three: it has room, is full, refuses, and moves its last entry. One, two and three pins for
standby, P0 waiting to rise among them, times of up to three samples. The counter is the code's 8 bits
wide: one pin counts 1, 2, 4, 7, ..., 253 and then 0. `standby_table` has one pin, P0, that is to rise.

What fails there has one cause: `wakeupProcess_standby` passes the count back as the number of
entries (`pwrmgr.c:475`). From a count of four the search reads behind the table. A zeroed entry means P0 and
its fall, so a table with room left that names P0 for its rise is overruled; that is the exception
`Overruled` in `PinsReady`, and no other pin needs one. And when the count has wrapped to 0 the pins are
armed as they were and wake the chip, but none of them is looked at and standby never ends; `PinsReady` says
nothing of that. What is not caught either: a module that leaves the power manager while it holds a lock leaves the gate closed.

*Proved* in `Pwrmgr_proofs`, for any modules, any size of the table and both kinds of build: `TypeOK`,
`GateRespectsLocks`, `HeldIsLocked`, `Compact`, `NoDuplicates`, `LastUnlockOpens`. `GateRespectsLocks` speaks
of the modules the search finds; it is inductive only together with `Compact`, which says that no entry the
loops do not reach carries a lock, and with `CallInv`, which says that what a registration found out before it was
interrupted still holds: the entry it names is still the first free one, and unlocked.
`NoDuplicates` and `LastUnlockOpens` speak of a table whose last entry is free,
as in the shipped build, which has three modules and ten entries; a table that was full once keeps its
last entry for ever, because `hal_pwrmgr_unregister` moves nothing into it. They rest on `RoomInv`: while
there is room every module is entered once, and every lock in the table is one that its owner holds
(`LocksAreHeld`), so that the count of the last unlock is zero.

*Proved* in `Power_proofs`, for the table and standby together: everything the run checks. That the
table's properties survive standby needs only that a boot leaves the table as `Init` does. `PinsReady`
rests on `TableKept`: in standby the first entries are the application's, whatever
`pwroff_register_number` has counted up to, and the rest are zero, so that the only pin a return to standby
arms for another level is P0. Its hypothesis on the tables is `WellNamed`: no two entries disagree about a
pin, in which case the last one counts. The run's tables satisfy it.

## The pins: Gpio

`Gpio` has three actors. `main` is the call of the main program: `Call` is the beginning of
`hal_gpioin_register`, `unregister` and `disable`, which all disable the pin first, `SetHandlers`, `Arm`
and `Done` their later parts, and `todo` the registers they still have to update. Each update is a
`Load` and a `Store`, because the registers are shared by all pins and the interrupt handler writes
them too (`mcu.h:70`, `gpio.c:384`). `isr` is `hal_GPIO_IRQHandler` with its copies of status and
polarity: for each pin a callback, which may unregister its pin, and the re-arming for the other edge.
`Move` is the world, which moves an input between any two of these steps. `Sleep` to `Awoken` are the
sleep and the wake-up handler, pin by pin and read by read; `regs` are lost in between, `aon` is not. `aon` has
the pins that may end the sleep and the polarity the sleep handler's first read chose for each. Two parts
of `main` are history: `moved`, the pins that moved since that read, and `away`, that a pin was away from
the remembered level at the wake-up handler's first read and back when its edge was armed.

Assumptions about what is not in the repository: the ROM runs both processes with interrupts masked;
an edge is latched while its pin is enabled in `inten` and `int_polarity` names it, and raises the
interrupt unless it is masked; a retained pin holds its level; the chip may wake at any time.
Left out: `inttype_level`, which is only ever set; callbacks that act on other pins; enabling an enabled
pin, writing to a pin that is no registered output (see the hazards); multiplexers and analogue pins.
Updates of the direction register are one step: the interrupt handler only clears bits that are clear.
Neither is the output the radio's interrupt handler drives: `debug_blink` (`Lenze_phy.c:159`) registers and
writes P3 from interrupt context, with read-modify-writes of the data, direction, pull and retention registers that
a call of the main program may be in the middle of. The program writes no other pin.

| Run | Question | Result |
|---|---|---|
| `gpio` | Is a pin without handlers silent and an enabled one armed, whatever update the interrupt undoes? Do outputs hold and inputs report across a sleep? Does a moving pin go on being reported? Do no two pins share a bit? | yes |

What does not hold, and no document promises: a pin that reports both edges may report one of them
twice in a row, after a short pulse and a sleep or when a registration of another pin stores an old
`int_polarity` over the handler's; a change between the two reads of the sleep handler is not
reported; a released pin stays an input for good and goes on waking the chip; and a pin that is away from the
remembered level when the wake-up handler chooses its edge (`gpio.c:527`) and back when it arms that edge
(`gpio.c:538`) is armed for the edge it has just made, so that neither this pulse nor its next change is
reported. `SleepMissesNothing` exempts the last case and no other: a pin that moves otherwise in that
gap, or after it, is reported, now or by an interrupt that is pending.

*Bounds.* Two pins, the smallest number of which one can disturb the other; both may be inputs for the
rising edge or both edges, or be registered without a handler, and one may be an output. The tables
of `FieldsDisjoint` are those of all 23 pins.

*Fairness.* Weak fairness of the interrupt handler alone: the processor runs a handler to its end and
takes an interrupt that stays pending. The main program owes nothing; a storm from one pin may stop it.

*Proved* in `Gpio_proofs`, for any number of pins: `TypeOK`, `UnregisteredIsSilent`, `EnabledIsArmed`,
`EnabledEndsSleep`, and the action properties `OutputsHold` and `SleepMissesNothing`. The inductive
invariant says what is so in the middle of things. `SettledInv`, `DisableInv` and `EnablingInv`: the armed
pins are the enabled ones, but for the pin of the call, whose registers agree up to the update it has come
to. `LoadInv` is the heart of it: the value the main program has loaded of `mask` or `inten` may be older
than a callback's changes, but a callback only unregisters, in both registers, so a stale value can
re-enable a pin in one of them only, and the other keeps it silent. `IsrInv`: the pins the handler has still to
serve are armed, or were unregistered by their own callback just now. `WakingInv`, `PadInv` and `WakeInv` say how far
the loops of the sleep and the wake-up handler have come: pins below the loop's are done, pins above
are not, and an output is driven or retained at every point. `ResumeInv` follows one pin through the
four steps of its wake-up: unless it was `away`, it is at the level it was armed by, or its edge is pending, or
the comparison has seen the change. For `EnabledEndsSleep`, a pin that the sleep handler's loop has passed waits for the
edge it can make next, or is in `moved`. `FieldsDisjoint` is about the tables of the 23 pins and `NeverDeaf` is liveness: both
are model-checked only.

## The flash driver and the timers: Processor, Spif, ApTimer, FlashDevice, Drivers

`flash.c` and `timer.c` meet at the processor: flash operations mask almost every interrupt and take the
flash away, while timer interrupts come at any time and their handlers may be in it. The build at hand links all code to
SRAM (`st17h66.ld`), so nothing of it is fetched from flash: `Fetch`, `HandlersFindFlash` and `CacheNeverShowsErased` are about
what the driver is written for (`__ATTR_SECTION_SRAM__`, `spif_lock`), a program that runs from the chip it writes. `Processor` is
what they share: `todo`, the steps the running call has left, and the NVIC's `enabled` and `pending` sets
and the ROM's jump table (`hooked`). A step of the thread needs that no interrupt is being served.

`Spif` is `flash.c`. A call is a sequence of steps: `lock` and `unlock` (`spif_lock` and what it saved),
`enter` and `exit` (the cache bypass), `map` and `unmap` (the upper bank of a chip larger than the
window), `wait` (the busy test), `program`, `erase` or `copy`, `flush` (the tags). The sequences are
decided where the code decides them: `hal_flash_read` bypasses the cache only if it is on. A `wait` may
time out, and then `GiveUp` ends the call there, as the macro's `return` does: locked, bypassed and
remapped. `gaveUp` remembers that. `Fetch` is program code that runs from flash and fills the cache.

`ApTimer` is `timer.c` with the clock gates of `clock.c`. `Hook`, `Arm`, `LoadTimer`, `ReadGates` and `ClkGate`
are `hal_timer_set`, one register each; stopping, masking and the initialisation likewise. `Callback` is
the interrupt handler with an application that does nothing, sets its timer or stops it; `IrqIgnored` is
the handler that finds nothing to report. `live` is history: what the application wants of a timer. The
value `stray` is one its callback stopped in the middle of `hal_timer_set`, which loads it all the same:
it counts, nobody hears of it, and it may call back early when it is set the next time. The call
returned success. No document denies it.

`FlashDevice` is what callers take the driver for: a memory of which a read returns the contents, that a
write adds to and an erase clears, done when the call returns. `Drivers` composes the two with sleeps,
after which the registers are gone and `hal_spif_cache_init` and the wake-up handler run.

| Run | Question | Result |
|---|---|---|
| `drivers` | Is `flash.c` a `FlashDevice`? Do handlers find flash readable? Does the cache never show what is gone? Does a timer call back when it is set, and only then? | all hold until a busy test has timed out; `SilentUnlessLive` and `Types` always |

*Bounds.* Two sectors, one of them beyond the window, one item each, one timer. Sectors do not interact
but through the cache and the remap, and one of each kind shows both; timers only share the word of the
clock gates, and two timers make more than thirty million states, too many for a run.

*Fairness.* Weak fairness of the thread's steps (the processor runs), of the chip (an operation
ends), of the interrupts, and of a running timer (it elapses). The last one means that the thread does
not set a timer anew for ever before it does. Nothing makes the application call anything.

Assumptions about what is not in the repository: disabling a timer withdraws its status but not the
NVIC's latch; an interrupt whose jump-table entry is empty does not hold the processor up; callbacks act
on their own timer and call nothing of `flash.c`; a bypass may or may not empty the cache's tags; a
sleep loses the NVIC, the timers and the cache's contents, and happens only between calls.

All that is said of flash ends with the first busy test that times out (`gaveUp`): the model stays locked, bypassed and
remapped as the code does, and no property is about what happens then. Not modelled: the value a function
returns after a time-out (`flash.c:327`, `370`); `FLASH_PROTECT_FEATURE`, which the build leaves at 0; the chip's id and capacity; the order
of bytes and the splitting of `hal_flash_write` into pages, which the ROM does. `hal_timer_init` stops the
timers in any order (`StopNext`), of which the code's is one. A lost update of
`SW_CLK` is possible when a callback of one timer sets the other between `ReadGates` and `ClkGate` of the thread
(`clock.c:18`): with one timer whose callback sets only itself it does not arise.

*Proved* in `Drivers_proofs`, for any finite set of timers and any sectors and items: `Types`,
`SilentUnlessLive`, `HandlersFindFlash`, `CacheNeverShowsErased`, and `FlashIsADevice`, that every step of
`Drivers` is a step of `FlashDevice` or leaves it unchanged. The assumptions are that there is a timer and a
sector, and that no timer's interrupt is one of the two radio interrupts (`DriversAssumption`). The
thread's `todo` is a list, and what is left of a list says where the thread is: `AtHook`, `AtArm`, `AtWait` and
their like name the tails a call can be at, so that an invariant can speak of a place in a function as it
would of a program counter. `LiveInv` says that a timer nobody wants is off, or
masked, or does not count, or is unhooked by a `hal_timer_stop` that is still at work; `LoadedInv`, that a
register value the thread has loaded is out of date for a timer its callback stopped since, and for no other.
For the flash, `Phase` lists what the chip, the bypass, the remap, the request and the cache are in at each place of each
function: `Resting`, `Reading`, `Operating`, `Finishing`, `Configuring`. `MaskedInv` says that no timer's interrupt is
enabled while they are not in order. After a busy test has timed out only the
types and the timers' part remain. `TimersFire` is liveness, and model-checked only.

## The radio's registers: RfPhy

`RfPhy` is the part of `rf_phy_driver.c` that can go wrong by order: functions that each write some
of the same registers. `reg` is a record of those registers, a field for each group of bits with a
meaning of its own, with values named for what they are for; a sleep clears it, while the setting of the
DC-DC converter survives (`dcdc`). `Ini` is `rf_phy_ini`, `AnaCfg`, `BbCfg` and `SetTxPower` what it calls, `TpCal` and
`RxDcoc` what the calibrations leave behind, `Go` the programming of an operation in any format with the
correction that `phy_hw_go` picks. `phy_hw_go` triggers the operation (`Lenze_phy.c:196`) before it writes that
correction (208-211), both in one critical section; `Go` is one step. For the ZB format `GoConfigured` asks for no pair of corrections. `RcStart`, `RcPoll` and `RcWrite` are `rc32k_calibration` with its 8-bit counter.

| Run | Question | Result |
|---|---|---|
| `radio` | Does an operation find what its format and the power ask for, after any calibrations, formats, powers and sleeps? Is an oscillator code written that was flagged in time? | yes |

*Bounds.* The lowest and the highest channel, three powers of which one is the highest, all six kinds
of format, the shipped start in any Bluetooth format. There is no other bound.

Two things the model shows the code to do, which nothing documents: when `rc32k_calibration` times out, its
counter has wrapped to 255, so that it writes a code nobody flagged (`rf_phy_driver.c:999`); and a flag that
comes with the last wait is taken for a time-out. The synchronisation threshold that the coded
formats set (line 472) stays when another format follows, and is left out of `GoConfigured`. Not modelled:
the values of the results, which `RF_PHY_TPCAL_CALC` interpolates; `rf_phy_get_pktFoot`, whose offset of 512
maps to 1024 where its comment promises [-512 511] around 512 (line 896); functions nothing calls. `rf_calibrate1` and
`rf_phy_set_txPower` have no caller in the repository either: they are the driver's interface and the
program is assumed to call them while no operation runs.

*Proved* in `RfPhy_proofs`, for any channels, powers and starting format: `GoConfigured` and `RcCalibrated`.
`FormatInv` says of each register what the format of the running operation asks of it, and the lemma
`BbCfgConfigures` that `rf_phy_bb_cfg` brings this about from any registers whatever, which is why no
calibration or earlier format shows. `SupplyInv` keeps the supply, the converter and the power together
across sleeps; `RcInv` says what the 8-bit counter can be at each point of the poll.

## Not modelled

Everything with behaviour of its own in the repository's C sources is modelled or named above; what remains of its
size is declarations. `include/ll.h`, `hci.h`, `ll_def.h`, `rom_sym_def.h` and `mcu_phy_bumbee.h` declare code that
is in ROM, and registers: nothing in them runs. `main.c` and the start-up files are a fixed sequence and
appear as the initial states, and are not modelled themselves. `patch.c`, `phy_sec_ext.c` and `jump_table.c` are tables for the ROM; the
host tools are straight-line scripts. In the modelled files the pin multiplexers, power-off, resets and the
interval arithmetic of `clock.c` (which nothing calls) are one write or one expression each.

What is only model-checked: `FieldsDisjoint`, a computation over one table;
and all liveness (`AirSpec`'s half of it, `NeitherStarves`,
`NeverDeaf`, `TimersFire`), because the prover does not reason about fairness.

## Conventions

Definitions marked *Slip* stand before the definition they vary and are used by no specification: each
is a plausible mistake in the code it varies, and each property is shown to reject at least one.
`MC*` modules add observers and constants for TLC and change nothing of what they extend. To run:
`tlc -config FsCalls.cfg MCFs.tla`, `tlc -config AdvScan.cfg MCLenzePhy.tla`,
`tlapm LenzePhy_proofs.tla`; each `*_proofs` module is checked the same way.
