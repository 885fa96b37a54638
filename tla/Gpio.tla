-------------------------------- MODULE Gpio --------------------------------
(***************************************************************************)
(* The pins of components/gpio.c: outputs that keep their level and inputs *)
(* that report their edges, while the chip is awake and across a sleep.    *)
(*                                                                         *)
(* Three actors: the main program, which registers pins and goes to sleep; *)
(* hal_GPIO_IRQHandler, which preempts it between the load and the store   *)
(* of a register both change; and the world, which moves the inputs.  The  *)
(* ROM runs the sleep and the wake-up process with interrupts masked.      *)
(***************************************************************************)
EXTENDS Integers, Sequences, FiniteSetsExt

CONSTANTS
  NUMBER_OF_PINS,   \* the pins of the instance
  Handlers,         \* the handlers a pin may be registered with
  Outputs           \* the pins that may be outputs too

Pins == 0 .. NUMBER_OF_PINS - 1
Edges == {"pos", "neg"}

ASSUME GpioAssumption ==
  /\ NUMBER_OF_PINS \in Nat \ {0}
  /\ Handlers \subseteq SUBSET Edges
  /\ Outputs \subseteq Pins

VARIABLES
  level,        \* what the world drives each pin to
  pin_assign,   \* m_gpioCtx.pin_assignments
  enable,       \* the pins with irq_ctx.enable
  hdl,          \* per pin, which of posedgeHdl and negedgeHdl are set
  pin_state,    \* irq_ctx.pin_state
  regs,         \* AP_GPIO: a set of pins per register
  aon,          \* AP_AON: retention and wake-up, which survive a sleep
  main,         \* the call of the main program
  isr           \* the interrupt handler

ctx  == <<pin_assign, enable, hdl>>
vars == <<level, ctx, pin_state, regs, aon, main, isr>>

Both(p) == hdl[p] = Edges

Ops == {"none", "disable", "register", "unregister", "enable", "arm",
        "sleep", "note", "asleep", "wake", "release", "resume", "look", "call"}
Rmw == [reg : {"mask", "pol", "inten"}, set : BOOLEAN]

TypeOK ==
  /\ level \in [Pins -> 0 .. 1]
  /\ pin_assign \in [Pins -> {"NONE", "OUT", "IN"}]
  /\ enable \subseteq Pins
  /\ hdl \in [Pins -> SUBSET Edges]
  /\ pin_state \in [Pins -> 0 .. 1]
  /\ regs \in [{"ddr", "dr", "pol", "mask", "inten", "status"} -> SUBSET Pins]
  /\ aon.ret \subseteq Pins
  /\ aon.held \in [Pins -> 0 .. 1] /\ aon.wake \subseteq Pins /\ aon.rise \subseteq Pins
  /\ main.op \in Ops /\ main.pin \in 0 .. NUMBER_OF_PINS
  /\ main.hdl \subseteq Edges /\ main.val \in 0 .. 1
  /\ main.todo \in Seq(Rmw) /\ Len(main.todo) <= 3
  /\ main.loaded \in BOOLEAN /\ main.tmp \subseteq Pins
  /\ main.moved \subseteq Pins /\ main.away \in BOOLEAN
  /\ isr.at \in {"off", "event", "arm"}
  /\ isr.st \subseteq Pins /\ isr.pol \subseteq Pins

(* After hal_gpio_init, and after a power-up.                              *)
Reset == [r \in {"ddr", "dr", "pol", "mask", "inten", "status"} |-> {}]
Idle == [op |-> "none", pin |-> 0, hdl |-> {}, val |-> 0, todo |-> <<>>,
         loaded |-> FALSE, tmp |-> {}, moved |-> {}, away |-> FALSE]
Off == [at |-> "off", st |-> {}, pol |-> {}]

Init ==
  /\ level \in [Pins -> 0 .. 1]
  /\ pin_assign = [p \in Pins |-> "NONE"]
  /\ enable = {}
  /\ hdl = [p \in Pins |-> {}]
  /\ pin_state = [p \in Pins |-> 0]
  /\ regs = Reset
  /\ aon = [ret |-> {}, held |-> [p \in Pins |-> 0], wake |-> {}, rise |-> {}]
  /\ main = Idle
  /\ isr = Off

-----------------------------------------------------------------------------
Bit(set, p) == IF p \in set THEN 1 ELSE 0
With(set, p, on) == IF on THEN set \cup {p} ELSE set \ {p}

(* The level on a pin: a retained one is latched, an output is driven.     *)
Pad(p) ==
  IF p \in aon.ret THEN aon.held[p]
  ELSE IF p \in regs.ddr THEN Bit(regs.dr, p) ELSE level[p]

(* Slip: the bits of the pins above stay in the result.                    *)
ReadUnmasked(p) == Pad(p) + 2 * Cardinality({q \in Pins : q > p /\ Pad(q) = 1})

Read(p) == IF p \in regs.ddr THEN Bit(regs.dr, p) ELSE Pad(p)

(* Slip: the other way round.                                              *)
RisingSwapped(p) == IF Both(p) THEN Read(p) = 1 ELSE "pos" \in hdl[p]

(* The polarity hal_gpioin_enable chooses: the edge the pin can make next, *)
(* where both are wanted.                                                  *)
Rising(p) == IF Both(p) THEN Read(p) = 0 ELSE "pos" \in hdl[p]

MainRuns == isr.at = "off"
At(o) == main.op = o /\ MainRuns
Awake == main.op \in {"none", "disable", "register", "unregister", "enable", "arm"}

(* hal_gpioin_disable up to the registers.  It clears the assignment, but  *)
(* hal_gpio_pin_init then sets it: a released pin stays an input.          *)
Release(p) ==
  /\ enable' = enable \ {p}
  /\ pin_assign' = [pin_assign EXCEPT ![p] = "IN"]

(* Its two read-modify-writes, and the three of hal_gpio_interrupt_enable. *)
Disabling == << [reg |-> "mask", set |-> TRUE], [reg |-> "inten", set |-> FALSE] >>

(* Slip: the pin stays masked.                                             *)
EnablingMasked(rising) ==
  << [reg |-> "mask", set |-> TRUE], [reg |-> "pol", set |-> rising],
     [reg |-> "inten", set |-> TRUE] >>

Enabling(rising) ==
  << [reg |-> "mask", set |-> FALSE], [reg |-> "pol", set |-> rising],
     [reg |-> "inten", set |-> TRUE] >>

Armed(p, rising) ==
  [regs EXCEPT !.mask = @ \ {p}, !.inten = @ \cup {p}, !.pol = With(@, p, rising)]

-----------------------------------------------------------------------------
(* The main program while awake.                                           *)

(* hal_gpioin_register, hal_gpioin_unregister and hal_gpioin_disable begin *)
(* with hal_gpioin_disable.                                                *)
Call(op, p, h) ==
  /\ At("none")
  /\ Release(p)
  /\ regs' = [regs EXCEPT !.ddr = @ \ {p}]
  /\ main' = [Idle EXCEPT !.op = op, !.pin = p, !.hdl = h, !.todo = Disabling]
  /\ UNCHANGED <<level, hdl, pin_state, aon, isr>>

Load ==
  /\ MainRuns /\ main.todo # <<>> /\ ~main.loaded
  /\ main' = [main EXCEPT !.loaded = TRUE, !.tmp = regs[Head(main.todo).reg]]
  /\ UNCHANGED <<level, ctx, pin_state, regs, aon, isr>>

(* Slip: the register is set to the pin's bit alone.                       *)
StoreAlone ==
  /\ MainRuns /\ main.todo # <<>> /\ main.loaded
  /\ LET m == Head(main.todo)
     IN  regs' = [regs EXCEPT ![m.reg] = With({}, main.pin, m.set)]
  /\ main' = [main EXCEPT !.todo = Tail(@), !.loaded = FALSE, !.tmp = {}]
  /\ UNCHANGED <<level, ctx, pin_state, aon, isr>>

Store ==
  /\ MainRuns /\ main.todo # <<>> /\ main.loaded
  /\ LET m == Head(main.todo)
     IN  regs' = [regs EXCEPT ![m.reg] = With(main.tmp, main.pin, m.set)]
  /\ main' = [main EXCEPT !.todo = Tail(@), !.loaded = FALSE, !.tmp = {}]
  /\ UNCHANGED <<level, ctx, pin_state, aon, isr>>

(* hal_gpioin_enable up to the registers.                                  *)
Claim(p) ==
  /\ pin_assign' = [pin_assign EXCEPT ![p] = "IN"]
  /\ enable' = enable \cup {p}
  /\ regs' = [regs EXCEPT !.ddr = @ \ {p}]

Enable(p) ==
  /\ At("none")
  /\ p \notin enable /\ hdl[p] # {}
  /\ Claim(p)
  /\ main' = [Idle EXCEPT !.op = "arm", !.pin = p]
  /\ UNCHANGED <<level, hdl, pin_state, aon, isr>>

(* Without a handler hal_gpioin_enable fails and the pin is disabled.      *)
SetHandlers ==
  /\ At("register") /\ main.todo = <<>>
  /\ hdl' = [hdl EXCEPT ![main.pin] = main.hdl]
  /\ IF main.hdl # {}
     THEN Claim(main.pin) /\ main' = [Idle EXCEPT !.op = "arm", !.pin = main.pin]
     ELSE /\ Release(main.pin)
          /\ regs' = [regs EXCEPT !.ddr = @ \ {main.pin}]
          /\ main' = [Idle EXCEPT !.op = "disable", !.pin = main.pin, !.todo = Disabling]
  /\ UNCHANGED <<level, pin_state, aon, isr>>

Arm ==
  /\ At("arm")
  /\ main' = [main EXCEPT !.op = "enable", !.todo = Enabling(Rising(main.pin))]
  /\ UNCHANGED <<level, ctx, pin_state, regs, aon, isr>>

Done ==
  /\ MainRuns /\ main.op \in {"disable", "unregister", "enable"} /\ main.todo = <<>>
  /\ hdl' = IF main.op = "unregister" THEN [hdl EXCEPT ![main.pin] = {}] ELSE hdl
  /\ main' = Idle
  /\ UNCHANGED <<level, pin_assign, enable, pin_state, regs, aon, isr>>

(* Slip: an input is taken for an output.                                  *)
RetentionRegisterAny(p) ==
  /\ At("none")
  /\ pin_assign' = [pin_assign EXCEPT ![p] = "OUT"]
  /\ regs' = [regs EXCEPT !.ddr = @ \cup {p}]
  /\ UNCHANGED <<level, enable, hdl, pin_state, aon, main, isr>>

RetentionRegister(p) ==
  /\ At("none")
  /\ pin_assign[p] # "IN"
  /\ pin_assign' = [pin_assign EXCEPT ![p] = "OUT"]
  /\ regs' = [regs EXCEPT !.ddr = @ \cup {p}]
  /\ UNCHANGED <<level, enable, hdl, pin_state, aon, main, isr>>

RetentionUnregister(p) ==
  /\ At("none")
  /\ pin_assign[p] # "IN"
  /\ pin_assign' = [pin_assign EXCEPT ![p] = "IN"]
  /\ regs' = [regs EXCEPT !.ddr = @ \ {p}]
  /\ UNCHANGED <<level, enable, hdl, pin_state, aon, main, isr>>

(* hal_gpio_write, on outputs.                                             *)
Write(p, on) ==
  /\ At("none")
  /\ pin_assign[p] = "OUT"
  /\ regs' = [regs EXCEPT !.dr = With(@, p, on), !.ddr = @ \cup {p}]
  /\ UNCHANGED <<level, ctx, pin_state, aon, main, isr>>

-----------------------------------------------------------------------------
(* The interrupt handler.                                                  *)

IsrEnter ==
  LET st == (regs.status \cap regs.inten) \ regs.mask
  IN  /\ isr.at = "off" /\ Awake
      /\ st # {}
      /\ isr' = [at |-> "event", st |-> st, pol |-> regs.pol]
      /\ regs' = [regs EXCEPT !.status = @ \ st]
      /\ UNCHANGED <<level, ctx, pin_state, aon, main>>

Current == Min(isr.st)

(* A callback may unregister its own pin.                                  *)
Unregistered(p) ==
  /\ Release(p)
  /\ hdl' = [hdl EXCEPT ![p] = {}]
  /\ regs' = [regs EXCEPT !.ddr = @ \ {p}, !.mask = @ \cup {p}, !.inten = @ \ {p}]

Callback(p, rising) ==
  \/ UNCHANGED <<ctx, regs>>
  \/ /\ (IF rising THEN "pos" ELSE "neg") \in hdl[p]
     /\ Unregistered(p)

(* hal_gpioin_event_pin.                                                   *)
IsrEvent ==
  /\ isr.at = "event"
  /\ Callback(Current, Current \in isr.pol)
  /\ isr' = [isr EXCEPT !.at = "arm"]
  /\ UNCHANGED <<level, pin_state, aon, main>>

NextPin == IF isr.st = {Current} THEN Off
           ELSE [isr EXCEPT !.at = "event", !.st = @ \ {Current}]

(* Slip: re-armed whatever the callback did.                               *)
IsrArmAlways ==
  /\ isr.at = "arm"
  /\ regs' = Armed(Current, IF Both(Current) THEN Current \notin isr.pol
                            ELSE "pos" \in hdl[Current])
  /\ isr' = NextPin
  /\ UNCHANGED <<level, ctx, pin_state, aon, main>>

(* Re-armed for the other edge, if both are wanted.                        *)
IsrArm ==
  /\ isr.at = "arm"
  /\ regs' = IF hdl[Current] = {} THEN regs
             ELSE Armed(Current, IF Both(Current) THEN Current \notin isr.pol
                                 ELSE "pos" \in hdl[Current])
  /\ isr' = NextPin
  /\ UNCHANGED <<level, ctx, pin_state, aon, main>>

-----------------------------------------------------------------------------
(* hal_gpio_sleep_handler, hal_gpio_wakeup_handler.                        *)

GoTo(o, p) == [Idle EXCEPT !.op = o, !.pin = p]
GoOn(o, p) == [main EXCEPT !.op = o, !.pin = p]
Turn(o) == At(o) /\ main.pin < NUMBER_OF_PINS

Sleep ==
  /\ At("none")
  /\ main' = GoTo("sleep", 0)
  /\ UNCHANGED <<level, ctx, pin_state, regs, aon, isr>>

SleepOut ==
  /\ Turn("sleep") /\ pin_assign[main.pin] = "OUT"
  /\ aon' = [aon EXCEPT !.ret = @ \cup {main.pin}, !.held[main.pin] = Pad(main.pin)]
  /\ main' = GoOn("sleep", main.pin + 1)
  /\ UNCHANGED <<level, ctx, pin_state, regs, isr>>

(* The pin is read for the edge that ends the sleep, the one it can make   *)
(* next ...                                                                *)
SleepIn ==
  /\ Turn("sleep") /\ pin_assign[main.pin] = "IN"
  /\ aon' = [aon EXCEPT !.wake = @ \cup {main.pin},
                        !.rise = With(@, main.pin, Read(main.pin) = 0)]
  /\ main' = [GoOn("note", main.pin) EXCEPT !.moved = @ \ {main.pin}]
  /\ UNCHANGED <<level, ctx, pin_state, regs, isr>>

(* ... and again to be remembered.                                         *)
Note ==
  /\ At("note")
  /\ pin_state' = [pin_state EXCEPT ![main.pin] = Read(main.pin)]
  /\ main' = GoOn("sleep", main.pin + 1)
  /\ UNCHANGED <<level, ctx, regs, aon, isr>>

(* A pin that is nothing to either handler.                                *)
Skip ==
  /\ \/ Turn("sleep") /\ pin_assign[main.pin] = "NONE"
     \/ Turn("wake") /\ pin_assign[main.pin] # "OUT" /\ main.pin \notin enable
  /\ main' = GoOn(main.op, main.pin + 1)
  /\ UNCHANGED <<level, ctx, pin_state, regs, aon, isr>>

(* The registers lose their power; a pin or the RTC brings it back.        *)
PowerDown ==
  /\ At("sleep") /\ main.pin = NUMBER_OF_PINS
  /\ regs' = Reset
  /\ main' = GoOn("asleep", 0)
  /\ UNCHANGED <<level, ctx, pin_state, aon, isr>>

(* Nobody looks at the edges it waited for until the next sleep chooses.   *)
WakeUp ==
  /\ At("asleep")
  /\ aon' = [aon EXCEPT !.rise = {}]
  /\ main' = GoTo("wake", 0)
  /\ UNCHANGED <<level, ctx, pin_state, regs, isr>>

(* Slip: retention ends before the output is driven.                       *)
WakeOutReleased ==
  /\ Turn("wake") /\ pin_assign[main.pin] = "OUT"
  /\ aon' = [aon EXCEPT !.ret = @ \ {main.pin}]
  /\ main' = GoTo("release", main.pin)
  /\ UNCHANGED <<level, ctx, pin_state, regs, isr>>

WakeOut ==
  /\ Turn("wake") /\ pin_assign[main.pin] = "OUT"
  /\ regs' = [regs EXCEPT !.dr = With(@, main.pin, Read(main.pin) = 1),
                          !.ddr = @ \cup {main.pin}]
  /\ main' = GoTo("release", main.pin)
  /\ UNCHANGED <<level, ctx, pin_state, aon, isr>>

EndRetention ==
  /\ At("release")
  /\ aon' = [aon EXCEPT !.ret = @ \ {main.pin}, !.held[main.pin] = 0]
  /\ main' = GoTo("wake", main.pin + 1)
  /\ UNCHANGED <<level, ctx, pin_state, regs, isr>>

(* hal_gpioin_enable and hal_gpioin_wakeup_trigger for each enabled pin:   *)
(* choose an edge, wait for it, read the level, compare it with the one    *)
(* remembered.  away says that the pin was away from the remembered level  *)
(* when the edge was chosen, and back when it was waited for.              *)
WakeIn ==
  /\ Turn("wake") /\ main.pin \in enable
  /\ Claim(main.pin)
  /\ main' = [main EXCEPT !.op = "resume", !.val = IF Rising(main.pin) THEN 1 ELSE 0,
                          !.away = level[main.pin] # pin_state[main.pin]]
  /\ UNCHANGED <<level, hdl, pin_state, aon, isr>>

Resume ==
  /\ At("resume")
  /\ regs' = Armed(main.pin, main.val = 1)
  /\ main' = [main EXCEPT !.op = "look",
                          !.away = @ /\ level[main.pin] = pin_state[main.pin]]
  /\ UNCHANGED <<level, ctx, pin_state, aon, isr>>

Look ==
  /\ At("look")
  /\ main' = [main EXCEPT !.op = "call", !.val = Read(main.pin)]
  /\ UNCHANGED <<level, ctx, pin_state, regs, aon, isr>>

Trigger ==
  /\ At("call")
  /\ IF main.val # pin_state[main.pin] THEN Callback(main.pin, main.val = 1)
     ELSE UNCHANGED <<ctx, regs>>
  /\ main' = GoTo("wake", main.pin + 1)
  /\ UNCHANGED <<level, pin_state, aon, isr>>

(* Nobody reads what was remembered until the next sleep.                  *)
Awoken ==
  /\ At("wake") /\ main.pin = NUMBER_OF_PINS
  /\ pin_state' = [p \in Pins |-> 0]
  /\ main' = Idle
  /\ UNCHANGED <<level, ctx, regs, aon, isr>>

-----------------------------------------------------------------------------
(* The world moves an input; an edge that is waited for is latched.  moved *)
(* are the pins that moved after the sleep handler chose their edge.       *)
Move(p) ==
  /\ pin_assign[p] # "OUT"
  /\ level' = [level EXCEPT ![p] = 1 - @]
  /\ regs' = IF p \in regs.inten /\ (p \in regs.pol) = (level'[p] = 1)
             THEN [regs EXCEPT !.status = @ \cup {p}] ELSE regs
  /\ main' = IF main.op \in {"sleep", "note", "asleep"} THEN [main EXCEPT !.moved = @ \cup {p}]
             ELSE main
  /\ UNCHANGED <<ctx, pin_state, aon, isr>>

Main ==
  \/ Load \/ Store \/ SetHandlers \/ Arm \/ Done
  \/ \E p \in Pins :
       \/ \E h \in Handlers : Call("register", p, h)
       \/ Call("unregister", p, {}) \/ Call("disable", p, {})
       \/ Enable(p)
  \/ \E p \in Outputs :
       \/ RetentionRegister(p) \/ RetentionUnregister(p)
       \/ \E on \in BOOLEAN : Write(p, on)

Rom ==
  \/ Sleep \/ SleepOut \/ SleepIn \/ Note \/ PowerDown \/ Skip
  \/ WakeUp \/ WakeOut \/ EndRetention \/ WakeIn \/ Resume \/ Look \/ Trigger \/ Awoken

Isr == IsrEnter \/ IsrEvent \/ IsrArm

Next == Main \/ Rom \/ Isr \/ \E p \in Pins : Move(p)

Spec == Init /\ [][Next]_vars

FairSpec == Spec /\ WF_vars(Isr)

-----------------------------------------------------------------------------
(* The bits of AP_AON that each pin has: its pull and its wake-up polarity *)
(* in c_gpio_pull, its retention in retention_reg.  The fourth word behind *)
(* IOCTL is PMCTL0, which also holds settings of the clock and the supply. *)

GPIO_NUM == 23

c_gpio_pull == <<
  <<0, 2, 1>>, <<0, 5, 4>>, <<0, 8, 7>>, <<0, 11, 10>>, <<0, 23, 22>>, <<0, 29, 28>>,
  <<1, 2, 1>>, <<1, 5, 4>>, <<1, 14, 13>>, <<1, 17, 16>>, <<1, 20, 19>>, <<1, 23, 22>>,
  <<1, 26, 25>>, <<2, 2, 1>>, <<2, 11, 10>>, <<2, 14, 13>>, <<2, 17, 16>>, <<2, 20, 19>>,
  <<2, 23, 22>>, <<3, 5, 4>>, <<3, 8, 7>>, <<3, 11, 10>>, <<3, 14, 13>> >>

retention_reg == <<
  <<0, 13>>, <<0, 14>>, <<0, 16>>, <<0, 17>>, <<0, 19>>, <<0, 20>>,
  <<1, 7>>, <<1, 8>>, <<1, 10>>, <<1, 11>>, <<1, 28>>, <<1, 29>>,
  <<2, 4>>, <<2, 5>>, <<2, 7>>, <<2, 8>>, <<2, 25>>, <<2, 26>>,
  <<2, 28>>, <<2, 29>>, <<3, 1>>, <<3, 2>>, <<3, 23>> >>

(* DCDC_CONFIG, DIG_LDO_CURRENT, DCDC_REF_CLK, the low-current LDO, the    *)
(* 32 kHz clock.                                                           *)
Settings == {3} \X ((15 .. 18) \cup (21 .. 22) \cup {25} \cup {26} \cup (27 .. 31))

Pull(i) == {c_gpio_pull[i][1]} \X (c_gpio_pull[i][3] .. c_gpio_pull[i][2])

Polarity(i) == <<c_gpio_pull[i][1], c_gpio_pull[i][3] - 1>>

(* Slip: one bit too high.                                                 *)
RetentionAbove(i) == <<retention_reg[i][1], retention_reg[i][2] + 1>>

Retention(i) == <<retention_reg[i][1], retention_reg[i][2]>>

Fields(i) == Pull(i) \cup {Polarity(i), Retention(i)}

(* Setting up one pin never changes another pin, the clock or the supply:  *)
(* whenever bits are written for a pin, none belongs to anything else.     *)
FieldsDisjoint ==
  [][aon' # aon =>
       \A i \in 1 .. GPIO_NUM :
         /\ Cardinality(Fields(i)) = 4 /\ Fields(i) \subseteq (0 .. 3) \X (0 .. 31)
         /\ Fields(i) \cap Settings = {}
         /\ \A j \in 1 .. i - 1 : Fields(i) \cap Fields(j) = {}]_vars

-----------------------------------------------------------------------------
(* A pin nobody has a handler for raises no interrupt.  It is masked and   *)
(* disabled in two registers; a read-modify-write of the main program that *)
(* the unregistering callback interrupts may undo one of them.             *)
UnregisteredIsSilent == \A p \in Pins : hdl[p] = {} => p \notin regs.inten \ regs.mask

(* An enabled pin raises interrupts, except while its own call runs: no    *)
(* other pin's registration, callback or re-arming takes it away, and      *)
(* neither does a sleep.                                                   *)
Settled(p) == Awake /\ p \in enable /\ (main.op = "none" \/ main.pin # p)

EnabledIsArmed == \A p \in Pins : Settled(p) => p \in regs.inten \ regs.mask

(* Pin p is set up to end the sleep, by the edge that it can make next if  *)
(* it has not moved since that edge was chosen.                            *)
EndsSleep(p) ==
  p \in aon.wake /\ (p \in main.moved \/ (p \in aon.rise <=> level[p] = 0))

(* Every enabled pin can end a sleep: no call, and no sleep before, leaves *)
(* one out or has it wait for the edge it cannot make.                     *)
EnabledEndsSleep == main.op = "asleep" => \A p \in enable : EndsSleep(p)

(* A registered output keeps its level through a sleep, without a glitch:  *)
(* only hal_gpio_write changes it.                                         *)
OutputsHold ==
  [][\A p \in Pins :
       pin_assign[p] = "OUT" /\ pin_assign'[p] = "OUT" /\ Pad(p)' # Pad(p)
         => main = Idle /\ main' = Idle /\ regs'.dr # regs.dr]_vars

(* What the end of the wake-up of pin p misses: it is not at the level     *)
(* remembered before the sleep, has not been reported, and will not be.    *)
Misses(p) ==
  level[p] # pin_state[p] /\ main.val = pin_state[p] /\ p \notin regs.status

(* A pin that reports both edges and has not, at the end of its wake-up,   *)
(* the level remembered before the sleep has been reported or will be:     *)
(* whichever of the four steps of its wake-up the change came between.     *)
(* The one exception is a pin that has changed twice too early: it was     *)
(* away from the remembered level when its edge was chosen and is back     *)
(* when that edge is waited for.  Neither that pulse nor the next change   *)
(* is then reported.                                                       *)
SleepMissesNothing ==
  [][\A p \in Pins :
       main.op = "call" /\ main'.op = "wake" /\ main.pin = p /\ hdl'[p] = Edges
         /\ ~main.away
         => ~Misses(p)]_vars

(* A pin that reports both edges, and goes on moving, goes on being        *)
(* reported, however many of its pulses the re-arming misses.              *)
NeverDeaf ==
  \A p \in Pins :
    (<>[](Settled(p) /\ Both(p)) /\ []<>(level[p] = 0) /\ []<>(level[p] = 1))
      => []<>(isr.at = "event" /\ Current = p)
=============================================================================
