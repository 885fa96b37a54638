------------------------------ MODULE Gpio_proofs ------------------------------
(***************************************************************************)
(* Proofs about Gpio, for any number of pins, any outputs and any handlers *)
(* the pins may be registered with.                                        *)
(***************************************************************************)
EXTENDS Gpio, TLAPS, WellFoundedInduction

Registers == {"ddr", "dr", "pol", "mask", "inten", "status"}

(* What a call of the main program can have left to do.                    *)
Mask(on) == [reg |-> "mask", set |-> on]
Pol(on) == [reg |-> "pol", set |-> on]
Inten(on) == [reg |-> "inten", set |-> on]

ToClear == <<Inten(FALSE)>>
ToSet == <<Inten(TRUE)>>
ToPol(rising) == <<Pol(rising), Inten(TRUE)>>

EnablingLists == {Enabling(rising) : rising \in BOOLEAN}
PolLists == {ToPol(rising) : rising \in BOOLEAN}
Todos == {<<>>, Disabling, ToClear, ToSet} \cup EnablingLists \cup PolLists

Calls == [op : Ops, pin : 0 .. NUMBER_OF_PINS, hdl : SUBSET Edges, val : 0 .. 1,
          todo : Todos, loaded : BOOLEAN, tmp : SUBSET Pins,
          moved : SUBSET Pins, away : BOOLEAN]
Retentions == [ret : SUBSET Pins, held : [Pins -> 0 .. 1], wake : SUBSET Pins, rise : SUBSET Pins]
Services == [at : {"off", "event", "arm"}, st : SUBSET Pins, pol : SUBSET Pins]

Types ==
  /\ level \in [Pins -> 0 .. 1]
  /\ pin_assign \in [Pins -> {"NONE", "OUT", "IN"}]
  /\ enable \in SUBSET Pins
  /\ hdl \in [Pins -> SUBSET Edges]
  /\ pin_state \in [Pins -> 0 .. 1]
  /\ regs \in [Registers -> SUBSET Pins]
  /\ aon \in Retentions /\ main \in Calls /\ isr \in Services

-----------------------------------------------------------------------------
Disablers == {"disable", "register", "unregister"}
Looped == {"sleep", "wake"}

MainInv ==
  /\ main.op \notin Looped => main.pin \in Pins
  /\ main.op = "none" => main = Idle
  /\ main.op \in Disablers => main.todo \in {Disabling, ToClear, <<>>}
  /\ main.op = "enable" => main.todo \in EnablingLists \cup PolLists \cup {ToSet, <<>>}
  /\ main.op \notin Disablers \cup {"enable"} => main.todo = <<>>
  /\ main.loaded => main.todo # <<>>

(* The interrupt handler runs while the chip is awake only, and what it    *)
(* has left to serve is armed, if it was not unregistered just now.        *)
IsrInv ==
  /\ (isr.at = "off") = (isr.st = {})
  /\ ~Awake => isr.at = "off"
  /\ \A p \in isr.st :
       /\ hdl[p] # {} => p \in regs.inten \ regs.mask
       /\ hdl[p] = {} => isr.at = "arm" /\ p = Current

(* An enabled pin is an input with a handler.                              *)
EnableInv == \A p \in enable : hdl[p] # {} /\ pin_assign[p] = "IN"

(* The pins that are armed are the enabled ones, but for the one that the  *)
(* main program is about and those a wake-up has not come to yet.          *)
ArmedPins == regs.inten \ regs.mask

SettledInv ==
  Awake \/ main.op \in {"sleep", "note"} =>
    \A p \in Pins : main.op \in {"none", "sleep", "note"} \/ p # main.pin =>
                     (p \in enable) = (p \in ArmedPins)

(* The pin that is being disabled is silent as soon as it is masked, and   *)
(* was silent before if it had no handler.                                 *)
DisableInv ==
  main.op \in Disablers =>
    /\ main.pin \notin enable
    /\ main.todo = Disabling /\ hdl[main.pin] = {} => main.pin \notin ArmedPins
    /\ main.todo # Disabling => main.pin \in regs.mask

(* The pin that is being enabled is silent until it is unmasked.  From     *)
(* then on it stays unmasked unless its callback unregisters it.           *)
NotUnmasked ==
  \/ main.op = "arm"
  \/ main.op = "enable" /\ main.todo \in EnablingLists

EnablingInv ==
  /\ NotUnmasked => main.pin \in enable /\ main.pin \notin ArmedPins
  /\ main.op = "enable" /\ ~NotUnmasked => (main.pin \in enable) = (main.pin \notin regs.mask)
  /\ main.op = "enable" /\ main.todo = <<>> /\ main.pin \in enable => main.pin \in regs.inten

(* A wake-up arms the enabled pins one after the other.                    *)
Waking == {"wake", "release", "resume", "look", "call"}

WakingInv ==
  /\ main.op = "asleep" => regs.inten = {}
  /\ main.op \in Waking =>
       \A p \in Pins :
         /\ p < main.pin => (p \in enable) = (p \in ArmedPins)
         /\ p > main.pin => p \notin regs.inten
  /\ main.op \in {"wake", "release", "resume"} => main.pin \notin regs.inten
  /\ main.op \in {"look", "call"} => main.pin \in ArmedPins
  /\ main.op \in {"resume", "look", "call"} => main.pin \in enable

(* What was loaded of a register is still right for the other pins: a      *)
(* callback that ran since then has changed a second register too, and     *)
(* that one keeps its pin silent.                                          *)
LoadInv ==
  main.loaded =>
    \A p \in Pins \ {main.pin} :
      /\ Head(main.todo).reg = "mask" =>
           IF p \in enable THEN p \notin main.tmp ELSE p \in main.tmp \/ p \notin regs.inten
      /\ Head(main.todo).reg = "inten" =>
           IF p \in enable THEN p \in main.tmp ELSE p \in regs.mask \/ p \notin main.tmp

(* An output is driven or retained, and never neither.                     *)
Driven(p) == p \in regs.ddr /\ p \notin aon.ret
Retained(p) == p \in aon.ret /\ p \notin regs.ddr

PadInv ==
  \A p \in Pins :
    /\ p \in aon.ret => pin_assign[p] = "OUT"
    /\ p \in regs.ddr => pin_assign[p] = "OUT"
    /\ pin_assign[p] = "OUT" =>
         /\ Awake => Driven(p)
         /\ main.op \in {"sleep", "note"} => IF p < main.pin THEN p \in aon.ret ELSE Driven(p)
         /\ main.op = "asleep" => Retained(p)
         /\ main.op \in {"wake", "resume", "look", "call"} =>
              IF p < main.pin THEN Driven(p) ELSE Retained(p)
         /\ main.op = "release" =>
              IF p < main.pin THEN Driven(p) ELSE p > main.pin => Retained(p)
    /\ main.op = "release" /\ main.pin = p =>
         p \in regs.ddr /\ p \in aon.ret /\ aon.held[p] = Bit(regs.dr, p)

(* The sleep handler has armed the wake-up of every enabled pin it passed. *)
WakeInv ==
  /\ main.op = "sleep" => \A p \in enable : p < main.pin => EndsSleep(p)
  /\ main.op = "note" => /\ pin_assign[main.pin] = "IN"
                         /\ \A p \in enable : p <= main.pin => EndsSleep(p)
  /\ main.op = "asleep" => \A p \in enable : EndsSleep(p)

(* The edge pin p waits for is the one that leaves the level remembered.   *)
Leaves(p) == p \in regs.pol <=> pin_state[p] = 0

(* A pin for both edges is given the edge that leaves the level it had     *)
(* when the edge was chosen.  That is not the one that leaves the level    *)
(* remembered if it was away from it then; but if it is still away when    *)
(* the edge is waited for, its way back is latched.                        *)
ResumeInv ==
  Both(main.pin) =>
    /\ main.op = "resume" => (main.val = 1 <=> (main.away <=> pin_state[main.pin] = 1))
    /\ main.op = "look" /\ ~main.away =>
         \/ main.pin \in regs.status \/ Leaves(main.pin)
         \/ level[main.pin] # pin_state[main.pin]
    /\ main.op = "call" /\ ~main.away /\ main.val = pin_state[main.pin] =>
         \/ main.pin \in regs.status
         \/ Leaves(main.pin) /\ level[main.pin] = pin_state[main.pin]

IInv ==
  /\ Types /\ MainInv /\ IsrInv /\ EnableInv /\ SettledInv /\ DisableInv
  /\ EnablingInv /\ WakingInv /\ LoadInv /\ PadInv /\ WakeInv
  /\ main.pin \in Pins => ResumeInv

-----------------------------------------------------------------------------
(* The operators of the model.                                             *)

(* The handler serves a pin that is left to serve: the lowest one.         *)
LEMMA CurrentIsServed ==
  ASSUME NEW S \in SUBSET Nat, S # {}
  PROVE  Min(S) \in S /\ \A p \in S : Min(S) <= p
<1>1. \E p \in S : \A q \in S : ~(<<q, p>> \in OpToRel(<, Nat))
  BY NatLessThanWellFounded, WFMin
<1>2. PICK p \in S : \A q \in S : ~(<<q, p>> \in OpToRel(<, Nat))
  BY <1>1
<1>3. ASSUME NEW q \in S, q < p
      PROVE  <<q, p>> \in OpToRel(<, Nat)
  <2>1. <<q, p>> \in {pair \in Nat \X Nat : pair[1] < pair[2]}
    BY <1>3
  <2>2. QED
    BY <2>1, Zenon DEF OpToRel
<1>4. \A q \in S : ~(q < p)
  BY <1>2, <1>3, Zenon
<1>5. \A q \in S : p <= q
  BY <1>4
<1>6. QED
  BY <1>5 DEF Min

(* What is left of a list when its first step is done.                     *)
LEMMA Lists ==
  /\ Disabling # <<>> /\ Head(Disabling).reg = "mask" /\ Head(Disabling).set = TRUE
  /\ Tail(Disabling) = ToClear
  /\ ToClear # <<>> /\ Head(ToClear).reg = "inten" /\ Head(ToClear).set = FALSE
  /\ Tail(ToClear) = <<>>
  /\ ToSet # <<>> /\ Head(ToSet).reg = "inten" /\ Head(ToSet).set = TRUE
  /\ Tail(ToSet) = <<>>
  /\ \A t \in EnablingLists : /\ t # <<>> /\ Head(t).reg = "mask" /\ Head(t).set = FALSE
                              /\ Tail(t) \in PolLists
  /\ \A t \in PolLists : /\ t # <<>> /\ Head(t).reg = "pol" /\ Head(t).set \in BOOLEAN
                         /\ Tail(t) = ToSet
<1>1. \A a : <<a>> # <<>> /\ Head(<<a>>) = a /\ Tail(<<a>>) = <<>>
  OBVIOUS
<1>2. \A a, b : <<a, b>> # <<>> /\ Head(<<a, b>>) = a /\ Tail(<<a, b>>) = <<b>>
  OBVIOUS
<1>3. \A a, b, c : /\ <<a, b, c>> # <<>> /\ Head(<<a, b, c>>) = a
                  /\ Tail(<<a, b, c>>) = <<b, c>>
  OBVIOUS
<1>4. \A on \in BOOLEAN : /\ Mask(on).reg = "mask" /\ Mask(on).set = on
                         /\ Pol(on).reg = "pol" /\ Pol(on).set = on
                         /\ Inten(on).reg = "inten" /\ Inten(on).set = on
  BY Zenon DEF Mask, Pol, Inten
<1>5. /\ Disabling # <<>> /\ Head(Disabling).reg = "mask" /\ Head(Disabling).set = TRUE
      /\ Tail(Disabling) = ToClear
  <2>1. Disabling = <<Mask(TRUE), Inten(FALSE)>>
    BY Zenon DEF Disabling, Mask, Inten
  <2>2. Disabling # <<>> /\ Head(Disabling) = Mask(TRUE) /\ Tail(Disabling) = ToClear
    BY <1>2, <2>1, Zenon DEF ToClear
  <2>3. QED
    BY <1>4, <2>2, Zenon
<1>6. /\ ToClear # <<>> /\ Head(ToClear).reg = "inten" /\ Head(ToClear).set = FALSE
      /\ Tail(ToClear) = <<>>
  <2>1. ToClear # <<>> /\ Head(ToClear) = Inten(FALSE) /\ Tail(ToClear) = <<>>
    BY <1>1, Zenon DEF ToClear
  <2>2. QED
    BY <1>4, <2>1, Zenon
<1>7. /\ ToSet # <<>> /\ Head(ToSet).reg = "inten" /\ Head(ToSet).set = TRUE
      /\ Tail(ToSet) = <<>>
  <2>1. ToSet # <<>> /\ Head(ToSet) = Inten(TRUE) /\ Tail(ToSet) = <<>>
    BY <1>1, Zenon DEF ToSet
  <2>2. QED
    BY <1>4, <2>1, Zenon
<1>8. ASSUME NEW t \in EnablingLists
      PROVE  /\ t # <<>> /\ Head(t).reg = "mask" /\ Head(t).set = FALSE
             /\ Tail(t) \in PolLists
  <2>1. PICK rising \in BOOLEAN : t = Enabling(rising)
    BY DEF EnablingLists
  <2>2. t = <<Mask(FALSE), Pol(rising), Inten(TRUE)>>
    BY <2>1, Zenon DEF Enabling, Mask, Pol, Inten
  <2>3. t # <<>> /\ Head(t) = Mask(FALSE) /\ Tail(t) = ToPol(rising)
    BY <1>3, <2>2, Zenon DEF ToPol
  <2>4. QED
    BY <1>4, <2>3, Zenon DEF PolLists
<1>9. ASSUME NEW t \in PolLists
      PROVE  /\ t # <<>> /\ Head(t).reg = "pol" /\ Head(t).set \in BOOLEAN
             /\ Tail(t) = ToSet
  <2>1. PICK rising \in BOOLEAN : t = ToPol(rising)
    BY DEF PolLists
  <2>2. t # <<>> /\ Head(t) = Pol(rising) /\ Tail(t) = ToSet
    BY <1>2, <2>1, Zenon DEF ToPol, ToSet
  <2>3. QED
    BY <1>4, <2>2, Zenon
<1>10. QED
  BY <1>5, <1>6, <1>7, <1>8, <1>9, Zenon

(* No two lists are the same: their first steps differ.                    *)
LEMMA Distinct ==
  /\ Disabling \notin {<<>>, ToClear, ToSet} \cup EnablingLists \cup PolLists
  /\ ToClear \notin {<<>>, ToSet} \cup EnablingLists \cup PolLists
  /\ ToSet \notin {<<>>} \cup EnablingLists \cup PolLists
  /\ <<>> \notin EnablingLists \cup PolLists
  /\ \A t \in PolLists : t \notin EnablingLists
<1>1. "mask" # "inten" /\ "mask" # "pol" /\ "inten" # "pol" /\ TRUE # FALSE
  OBVIOUS
<1>2. QED
  BY <1>1, Lists, Zenon

LEMMA Written ==
  ASSUME NEW r \in [Registers -> SUBSET Pins],
         NEW a \in Registers, NEW S \in SUBSET Pins
  PROVE  [r EXCEPT ![a] = S] \in [Registers -> SUBSET Pins]
OBVIOUS

LEMMA TypeOfArmed ==
  ASSUME NEW p \in Pins, NEW rising, regs \in [Registers -> SUBSET Pins]
  PROVE  /\ Armed(p, rising) \in [Registers -> SUBSET Pins]
         /\ Armed(p, rising).mask = regs.mask \ {p}
         /\ Armed(p, rising).inten = regs.inten \cup {p}
         /\ Armed(p, rising).pol = With(regs.pol, p, rising)
         /\ \A r \in {"ddr", "dr", "status"} : Armed(p, rising)[r] = regs[r]
BY DEF Armed, With, Registers

(* Writing one field of a call with a value of its type.                   *)
LEMMA CallFields ==
  ASSUME NEW c \in Calls
  PROVE  /\ \A o \in Ops : [c EXCEPT !.op = o] \in Calls
         /\ \A p \in 0 .. NUMBER_OF_PINS : [c EXCEPT !.pin = p] \in Calls
         /\ \A h \in SUBSET Edges : [c EXCEPT !.hdl = h] \in Calls
         /\ \A v \in 0 .. 1 : [c EXCEPT !.val = v] \in Calls
         /\ \A t \in Todos : [c EXCEPT !.todo = t] \in Calls
         /\ \A b \in BOOLEAN : [c EXCEPT !.loaded = b] \in Calls
         /\ \A s \in SUBSET Pins : [c EXCEPT !.tmp = s] \in Calls
         /\ \A s \in SUBSET Pins : [c EXCEPT !.moved = s] \in Calls
         /\ \A b \in BOOLEAN : [c EXCEPT !.away = b] \in Calls
BY DEF Calls

LEMMA IdleRecord ==
  /\ Idle \in Calls
  /\ Idle.op = "none" /\ Idle.pin = 0 /\ Idle.todo = <<>> /\ ~Idle.loaded
BY GpioAssumption DEF Idle, Calls, Todos, Ops

LEMMA GoToRecord ==
  ASSUME NEW o \in Ops, NEW p \in 0 .. NUMBER_OF_PINS
  PROVE  /\ GoTo(o, p) \in Calls
         /\ GoTo(o, p).op = o /\ GoTo(o, p).pin = p /\ GoTo(o, p).todo = <<>>
         /\ ~GoTo(o, p).loaded
<1>1. /\ GoTo(o, p).op = o /\ GoTo(o, p).pin = p /\ GoTo(o, p).todo = <<>>
      /\ ~GoTo(o, p).loaded
  BY DEF GoTo, Idle
<1>2. <<>> \in Todos
  BY DEF Todos
<1>3. GoTo(o, p) \in Calls
  <2> DEFINE c == [Idle EXCEPT !.op = o]
  <2>1. c \in Calls
    BY IdleRecord, CallFields
  <2>2. [c EXCEPT !.pin = p] \in Calls
    BY <2>1, CallFields
  <2>3. QED
    BY <2>2 DEF GoTo
<1>4. QED
  BY <1>1, <1>3

LEMMA GoOnRecord ==
  ASSUME main \in Calls, NEW o \in Ops, NEW p \in 0 .. NUMBER_OF_PINS
  PROVE  /\ GoOn(o, p) \in Calls
         /\ GoOn(o, p).op = o /\ GoOn(o, p).pin = p /\ GoOn(o, p).todo = main.todo
         /\ GoOn(o, p).loaded = main.loaded /\ GoOn(o, p).moved = main.moved
<1>1. [main EXCEPT !.op = o] \in Calls
  BY CallFields
<1>2. [[main EXCEPT !.op = o] EXCEPT !.pin = p] \in Calls
  BY <1>1, CallFields
<1>3. GoOn(o, p) \in Calls
  BY <1>2 DEF GoOn
<1>4. QED
  BY <1>3 DEF GoOn, Calls

LEMMA DisableRecord ==
  ASSUME NEW p \in Pins,
         NEW c, c = [Idle EXCEPT !.op = "disable", !.pin = p, !.todo = Disabling]
  PROVE  c \in Calls /\ c.op = "disable" /\ c.pin = p /\ c.todo = Disabling /\ ~c.loaded
<1>1. c.op = "disable" /\ c.pin = p /\ c.todo = Disabling /\ ~c.loaded
  BY DEF Idle
<1>2. Disabling \in Todos /\ p \in 0 .. NUMBER_OF_PINS /\ "disable" \in Ops
  BY GpioAssumption DEF Todos, Pins, Ops
<1>3. c \in Calls
  <2> DEFINE c1 == [Idle EXCEPT !.op = "disable"]
             c2 == [c1 EXCEPT !.pin = p]
  <2>1. c1 \in Calls
    BY <1>2, IdleRecord, CallFields
  <2>2. c2 \in Calls
    BY <1>2, <2>1, CallFields
  <2>3. [c2 EXCEPT !.todo = Disabling] \in Calls
    BY <1>2, <2>2, CallFields
  <2>4. QED
    BY <2>3
<1>4. QED
  BY <1>1, <1>3

-----------------------------------------------------------------------------
(* The invariant holds initially.                                          *)
LEMMA InitInvariant == Init => IInv
<1> SUFFICES ASSUME Init PROVE IInv
  OBVIOUS
<1>1. Types
  BY IdleRecord, GpioAssumption
     DEF Init, Types, Retentions, Services, Off, Reset, Registers, Pins
<1>2. /\ main = Idle /\ isr.at = "off" /\ isr.st = {} /\ regs.inten = {} /\ regs.ddr = {}
      /\ aon.ret = {}
  BY DEF Init, Reset, Off
<1>3. MainInv /\ IsrInv /\ EnableInv
  BY <1>2, IdleRecord, GpioAssumption DEF Init, MainInv, IsrInv, EnableInv, Looped, Pins,
     Disablers, Awake
<1>4. SettledInv /\ DisableInv /\ EnablingInv /\ WakingInv
  BY <1>2, IdleRecord DEF Init, SettledInv, ArmedPins, DisableInv, EnablingInv, NotUnmasked,
     WakingInv, Waking, Disablers
<1>5. LoadInv /\ PadInv /\ WakeInv /\ ResumeInv
  BY <1>2, IdleRecord DEF Init, LoadInv, PadInv, Driven, Awake, WakeInv, ResumeInv
<1>6. QED
  BY <1>1, <1>3, <1>4, <1>5 DEF IInv

(* The steps that change nothing but the main program's place.             *)
LEMMA LoadStep ==
  ASSUME IInv, Load
  PROVE  IInv'
<1> DEFINE r == Head(main.todo).reg
<1>1. /\ main' = [main EXCEPT !.loaded = TRUE, !.tmp = regs[r]]
      /\ main.todo # <<>> /\ isr.at = "off"
      /\ UNCHANGED <<level, ctx, pin_state, regs, aon, isr>>
  BY DEF Load, MainRuns
<1>2. r \in Registers
  BY <1>1, Lists DEF IInv, Types, Calls, Todos, Registers
<1>3. /\ main' \in Calls
      /\ main'.op = main.op /\ main'.pin = main.pin /\ main'.todo = main.todo
      /\ main'.tmp = regs[r] /\ main'.val = main.val /\ main'.away = main.away
  BY <1>1, <1>2 DEF IInv, Types, Calls
<1>4. main.op \in Disablers \cup {"enable"}
  BY <1>1 DEF IInv, MainInv
<1>5. Types' /\ MainInv' /\ IsrInv' /\ EnableInv'
  BY <1>1, <1>3, <1>4 DEF IInv, Types, MainInv, IsrInv, EnableInv, Awake, Looped, Disablers,
     Current, ctx
<1>6. SettledInv' /\ DisableInv' /\ EnablingInv' /\ WakingInv'
  BY <1>1, <1>3 DEF IInv, SettledInv, DisableInv, EnablingInv, WakingInv, Awake, NotUnmasked,
     ArmedPins, ctx
<1>7. LoadInv'
  BY <1>1, <1>3, <1>4 DEF IInv, SettledInv, LoadInv, ArmedPins, Awake, Disablers, ctx
<1>8. PadInv' /\ WakeInv' /\ (main.pin \in Pins => ResumeInv)'
  BY <1>1, <1>3, <1>4 DEF IInv, PadInv, Driven, Retained, WakeInv, ResumeInv, Awake, Bit,
     Disablers, Both, ctx
<1>9. QED
  BY <1>5, <1>6, <1>7, <1>8 DEF IInv

(* A store writes what was loaded, which is right for the other pins, and  *)
(* the bit of its own.                                                     *)
LEMMA StoreStep ==
  ASSUME IInv, Store
  PROVE  IInv'
<1> DEFINE m == Head(main.todo)
           new == With(main.tmp, main.pin, m.set)
<1>1. /\ regs' = [regs EXCEPT ![m.reg] = new]
      /\ main' = [main EXCEPT !.todo = Tail(@), !.loaded = FALSE, !.tmp = {}]
      /\ main.todo # <<>> /\ main.loaded /\ isr.at = "off"
      /\ UNCHANGED <<level, ctx, pin_state, aon, isr>>
  BY DEF Store, MainRuns
<1>2. /\ m.reg \in {"mask", "pol", "inten"} /\ m.set \in BOOLEAN
      /\ Tail(main.todo) \in Todos
  BY <1>1, Lists DEF IInv, Types, Calls, Todos
<1>3. main.op \in Disablers \cup {"enable"} /\ main.pin \in Pins
  BY <1>1 DEF IInv, MainInv, Looped, Disablers
<1>4. /\ main'.op = main.op /\ main'.pin = main.pin /\ main'.todo = Tail(main.todo)
      /\ ~main'.loaded /\ main'.away = main.away /\ main'.val = main.val
  BY <1>1 DEF IInv, Types, Calls
<1>5. main' \in Calls
  <2> DEFINE c1 == [main EXCEPT !.todo = Tail(main.todo)]
             c2 == [c1 EXCEPT !.loaded = FALSE]
  <2>1. c1 \in Calls
    BY <1>2, CallFields DEF IInv, Types
  <2>2. c2 \in Calls
    BY <2>1, CallFields
  <2>3. [c2 EXCEPT !.tmp = {}] \in Calls
    BY <2>2, CallFields
  <2>4. QED
    BY <1>1, <2>3
<1>6. /\ new \in SUBSET Pins /\ regs' \in [Registers -> SUBSET Pins]
      /\ regs'[m.reg] = new
      /\ \A r \in Registers \ {m.reg} : regs'[r] = regs[r]
  BY <1>1, <1>2, <1>3 DEF IInv, Types, Calls, With, Registers
<1>7. Types' /\ IsrInv' /\ EnableInv' /\ LoadInv' /\ WakingInv'
  BY <1>1, <1>3, <1>4, <1>5, <1>6 DEF IInv, Types, IsrInv, EnableInv, LoadInv, WakingInv,
     Waking, Awake, Disablers, ctx
<1>8. PadInv' /\ WakeInv' /\ (main.pin \in Pins => ResumeInv)'
  <2>1. regs'.ddr = regs.ddr /\ regs'.dr = regs.dr
    BY <1>2, <1>6 DEF Registers
  <2>2. main'.op = main.op /\ main'.op \in Disablers \cup {"enable"}
    BY <1>3, <1>4
  <2>3. PadInv'
    BY <1>1, <2>1, <2>2 DEF IInv, PadInv, Driven, Retained, Awake, Disablers, ctx
  <2>4. WakeInv' /\ (main.pin \in Pins => ResumeInv)'
    BY <2>2 DEF WakeInv, ResumeInv, Disablers
  <2>5. QED
    BY <2>3, <2>4
<1>9. /\ \A p \in Pins \ {main.pin} : (p \in enable) = (p \in ArmedPins)
      /\ \A p \in Pins \ {main.pin} :
           /\ m.reg = "mask" =>
                IF p \in enable THEN p \notin main.tmp
                ELSE p \in main.tmp \/ p \notin regs.inten
           /\ m.reg = "inten" =>
                IF p \in enable THEN p \in main.tmp
                ELSE p \in regs.mask \/ p \notin main.tmp
  BY <1>1, <1>3 DEF IInv, SettledInv, LoadInv, Awake, Disablers
<1>10. MainInv' /\ SettledInv' /\ DisableInv' /\ EnablingInv'
  <2> SUFFICES /\ main'.todo \in (IF main.op = "enable" THEN PolLists \cup {ToSet, <<>>}
                                  ELSE {ToClear, <<>>})
               /\ \A p \in Pins \ {main.pin} : (p \in enable) = (p \in ArmedPins')
               /\ main.op \in Disablers => main.pin \notin enable /\ main.pin \in regs'.mask
               /\ main.op = "enable" => (main.pin \in enable) = (main.pin \notin regs'.mask)
               /\ main.op = "enable" /\ main'.todo = <<>> => main.pin \in regs'.inten
    <3>1. MainInv'
      BY <1>3, <1>4 DEF MainInv, Looped, Disablers
    <3>2. SettledInv'
      BY <1>1, <1>3, <1>4 DEF SettledInv, Awake, Disablers, ctx
    <3>3. DisableInv'
      <4>1. main.op # "enable" => main'.todo # Disabling
        BY Distinct
      <4>2. QED
          BY <1>1, <1>3, <1>4, <4>1 DEF DisableInv, Disablers, ctx
    <3>4. EnablingInv'
      <4>1. main.op = "enable" => main'.todo \notin EnablingLists
        BY Distinct, Lists DEF PolLists
      <4>2. QED
        BY <1>1, <1>3, <1>4, <4>1 DEF EnablingInv, NotUnmasked, Disablers, ctx
    <3>5. QED
      BY <3>1, <3>2, <3>3, <3>4
  <2>1. CASE main.todo = Disabling
    <3>1. /\ main.op \in Disablers /\ main'.todo = ToClear
          /\ regs'.mask = main.tmp \cup {main.pin} /\ regs'.inten = regs.inten
          /\ m.reg = "mask" /\ main.pin \notin enable
      BY <1>1, <1>3, <1>4, <1>6, <2>1, Lists, Distinct
         DEF IInv, MainInv, DisableInv, With, Registers
    <3>2. QED
      BY <1>9, <3>1 DEF ArmedPins, Disablers
  <2>2. CASE main.todo = ToClear
    <3>1. /\ main.op \in Disablers /\ main'.todo = <<>>
          /\ regs'.inten = main.tmp \ {main.pin} /\ regs'.mask = regs.mask
          /\ m.reg = "inten" /\ main.pin \notin enable /\ main.pin \in regs.mask
      BY <1>1, <1>3, <1>4, <1>6, <2>2, Lists, Distinct
         DEF IInv, MainInv, DisableInv, With, Registers
    <3>2. QED
      BY <1>9, <3>1 DEF ArmedPins, Disablers
  <2>3. CASE main.todo \in EnablingLists
    <3>1. /\ main.op = "enable" /\ main'.todo \in PolLists
          /\ regs'.mask = main.tmp \ {main.pin} /\ regs'.inten = regs.inten
          /\ m.reg = "mask"
      BY <1>1, <1>3, <1>4, <1>6, <2>3, Lists, Distinct
         DEF IInv, MainInv, With, Registers
    <3>2. main.pin \in enable /\ main'.todo # <<>>
      BY <2>3, <3>1, Distinct, Lists DEF IInv, EnablingInv, NotUnmasked, PolLists
    <3>3. QED
      BY <1>9, <3>1, <3>2 DEF ArmedPins, Disablers
  <2>4. CASE main.todo \in PolLists
    <3>1. m.reg = "pol" /\ Tail(main.todo) = ToSet
      BY <2>4, Lists
    <3>2. main.todo \notin EnablingLists \cup {Disabling, ToClear, <<>>}
      BY <2>4, Distinct
    <3>3. main.op = "enable" /\ (main.pin \in enable) = (main.pin \notin regs.mask)
      BY <1>3, <3>2 DEF IInv, MainInv, EnablingInv, NotUnmasked
    <3>4. regs'.mask = regs.mask /\ regs'.inten = regs.inten /\ main'.todo = ToSet
      BY <1>4, <1>6, <3>1 DEF Registers
    <3>5. QED
      BY <1>9, <3>3, <3>4, Distinct DEF ArmedPins, Disablers
  <2>5. CASE main.todo = ToSet
    <3>1. /\ main'.todo = <<>> /\ regs'.inten = main.tmp \cup {main.pin}
          /\ regs'.mask = regs.mask /\ m.reg = "inten"
      BY <1>1, <1>3, <1>4, <1>6, <2>5, Lists, Distinct
         DEF IInv, MainInv, With, Registers
    <3>2. main.op = "enable" /\ (main.pin \in enable) = (main.pin \notin regs.mask)
      BY <1>3, <2>5, Lists, Distinct DEF IInv, MainInv, EnablingInv, NotUnmasked
    <3>3. QED
      BY <1>9, <3>1, <3>2 DEF ArmedPins, Disablers
  <2>6. QED
    BY <1>1, <2>1, <2>2, <2>3, <2>4, <2>5 DEF IInv, Types, Calls, Todos
<1>11. QED
  BY <1>7, <1>8, <1>10 DEF IInv

(* The main program starts a call.                                         *)
LEMMA CallStep ==
  ASSUME IInv, NEW o \in Disablers, NEW p \in Pins, NEW h \in SUBSET Edges, Call(o, p, h)
  PROVE  IInv'
<1>1. /\ enable' = enable \ {p} /\ pin_assign' = [pin_assign EXCEPT ![p] = "IN"]
      /\ regs' = [regs EXCEPT !.ddr = @ \ {p}]
      /\ main' = [Idle EXCEPT !.op = o, !.pin = p, !.hdl = h, !.todo = Disabling]
      /\ main.op = "none" /\ isr.at = "off"
      /\ UNCHANGED <<level, hdl, pin_state, aon, isr>>
  BY DEF Call, Release, At, MainRuns
<1>2. /\ main' \in Calls /\ main'.op = o /\ main'.pin = p /\ main'.todo = Disabling
      /\ ~main'.loaded
  <2> DEFINE c1 == [Idle EXCEPT !.op = o]
             c2 == [c1 EXCEPT !.pin = p]
             c3 == [c2 EXCEPT !.hdl = h]
  <2>1. o \in Ops /\ p \in 0 .. NUMBER_OF_PINS /\ Disabling \in Todos
    BY GpioAssumption DEF Disablers, Ops, Pins, Todos
  <2>2. c1 \in Calls
    BY <2>1, IdleRecord, CallFields
  <2>3. c2 \in Calls
    BY <2>1, <2>2, CallFields
  <2>4. c3 \in Calls
    BY <2>3, CallFields
  <2>5. main' \in Calls
    BY <1>1, <2>1, <2>4, CallFields
  <2>6. main'.op = o /\ main'.pin = p /\ main'.todo = Disabling /\ ~main'.loaded
    BY <1>1 DEF Idle
  <2>7. QED
    BY <2>5, <2>6
<1>3. /\ regs' \in [Registers -> SUBSET Pins] /\ regs'.ddr = regs.ddr \ {p}
      /\ \A r \in Registers \ {"ddr"} : regs'[r] = regs[r]
  BY <1>1 DEF IInv, Types, Registers
<1>4. Types' /\ MainInv' /\ IsrInv' /\ EnableInv' /\ LoadInv' /\ WakingInv' /\ EnablingInv'
  BY <1>1, <1>2, <1>3, Distinct DEF IInv, Types, MainInv, IsrInv, EnableInv, LoadInv,
     WakingInv, EnablingInv, NotUnmasked, Waking, Awake, Looped, Disablers
<1>5. SettledInv' /\ DisableInv'
  BY <1>1, <1>2, <1>3 DEF IInv, EnableInv, SettledInv, DisableInv, ArmedPins, Awake,
     Disablers, Registers
<1>6. PadInv' /\ WakeInv' /\ (main.pin \in Pins => ResumeInv)'
  BY <1>1, <1>2, <1>3 DEF IInv, Types, PadInv, Driven, Retained, WakeInv, ResumeInv, Awake,
     Disablers
<1>7. QED
  BY <1>4, <1>5, <1>6 DEF IInv

(* hal_gpioin_enable on a pin with a handler.                              *)
LEMMA EnableStep ==
  ASSUME IInv, NEW p \in Pins, Enable(p)
  PROVE  IInv'
<1>1. /\ enable' = enable \cup {p} /\ pin_assign' = [pin_assign EXCEPT ![p] = "IN"]
      /\ regs' = [regs EXCEPT !.ddr = @ \ {p}]
      /\ main' = GoTo("arm", p)
      /\ main.op = "none" /\ isr.at = "off" /\ p \notin enable /\ hdl[p] # {}
      /\ UNCHANGED <<level, hdl, pin_state, aon, isr>>
  BY DEF Enable, Claim, At, MainRuns, GoTo
<1>2. /\ main' \in Calls /\ main'.op = "arm" /\ main'.pin = p /\ main'.todo = <<>>
      /\ ~main'.loaded
  BY <1>1, GoToRecord, GpioAssumption DEF Ops, Pins
<1>3. /\ regs' \in [Registers -> SUBSET Pins] /\ regs'.ddr = regs.ddr \ {p}
      /\ \A r \in Registers \ {"ddr"} : regs'[r] = regs[r]
  BY <1>1 DEF IInv, Types, Registers
<1>4. Types' /\ MainInv' /\ IsrInv' /\ EnableInv' /\ LoadInv' /\ WakingInv' /\ DisableInv'
  BY <1>1, <1>2, <1>3 DEF IInv, Types, MainInv, IsrInv, EnableInv, LoadInv,
     WakingInv, DisableInv, Waking, Awake, Looped, Disablers
<1>5. SettledInv' /\ EnablingInv'
  BY <1>1, <1>2, <1>3 DEF IInv, SettledInv, EnablingInv, NotUnmasked, ArmedPins, Awake,
     Registers
<1>6. PadInv' /\ WakeInv' /\ (main.pin \in Pins => ResumeInv)'
  BY <1>1, <1>2, <1>3 DEF IInv, Types, PadInv, Driven, Retained, WakeInv, ResumeInv, Awake
<1>7. QED
  BY <1>4, <1>5, <1>6 DEF IInv

(* A registration goes on with the enabling of the pin, or without a       *)
(* handler with its disabling.                                             *)
LEMMA SetHandlersStep ==
  ASSUME IInv, SetHandlers
  PROVE  IInv'
<1> DEFINE p == main.pin
<1>1. /\ main.op = "register" /\ main.todo = <<>> /\ isr.at = "off"
      /\ hdl' = [hdl EXCEPT ![p] = main.hdl]
      /\ pin_assign' = [pin_assign EXCEPT ![p] = "IN"]
      /\ regs' = [regs EXCEPT !.ddr = @ \ {p}]
      /\ IF main.hdl # {} THEN enable' = enable \cup {p} /\ main' = GoTo("arm", p)
         ELSE /\ enable' = enable \ {p}
              /\ main' = [Idle EXCEPT !.op = "disable", !.pin = p, !.todo = Disabling]
      /\ UNCHANGED <<level, pin_state, aon, isr>>
  BY DEF SetHandlers, Claim, Release, At, MainRuns, GoTo
<1>2. p \in Pins /\ p \notin enable /\ p \in regs.mask /\ main.hdl \in SUBSET Edges
  BY <1>1, Lists DEF IInv, Types, Calls, MainInv, DisableInv, Looped, Disablers
<1>3. /\ main' \in Calls /\ main'.pin = p /\ ~main'.loaded
      /\ main.hdl # {} => main'.op = "arm" /\ main'.todo = <<>>
      /\ main.hdl = {} => main'.op = "disable" /\ main'.todo = Disabling
  <2>1. CASE main.hdl # {}
    BY <1>1, <1>2, <2>1, GoToRecord, GpioAssumption DEF Ops, Pins
  <2>2. CASE main.hdl = {}
    <3>1. main' = [Idle EXCEPT !.op = "disable", !.pin = p, !.todo = Disabling]
      BY <1>1, <2>2, Zenon
    <3>2. QED
      BY <1>2, <2>2, <3>1, DisableRecord, Zenon
  <2>3. QED
    BY <2>1, <2>2
<1>4. /\ regs' \in [Registers -> SUBSET Pins] /\ regs'.ddr = regs.ddr \ {p}
      /\ \A r \in Registers \ {"ddr"} : regs'[r] = regs[r]
  BY <1>1 DEF IInv, Types, Registers
<1>5. Types' /\ MainInv' /\ IsrInv' /\ EnableInv' /\ LoadInv' /\ WakingInv'
  BY <1>1, <1>2, <1>3, <1>4 DEF IInv, Types, MainInv, IsrInv, EnableInv, LoadInv,
     WakingInv, Waking, Awake, Looped, Disablers
<1>6. SettledInv' /\ DisableInv' /\ EnablingInv'
  BY <1>1, <1>2, <1>3, <1>4 DEF IInv, SettledInv, DisableInv, EnablingInv, NotUnmasked,
     ArmedPins, Awake, Disablers, Registers
<1>7. PadInv' /\ WakeInv' /\ (main.pin \in Pins => ResumeInv)'
  BY <1>1, <1>2, <1>3, <1>4 DEF IInv, Types, PadInv, Driven, Retained, WakeInv, ResumeInv,
     Awake
<1>8. QED
  BY <1>5, <1>6, <1>7 DEF IInv

LEMMA ArmStep ==
  ASSUME IInv, Arm
  PROVE  IInv'
<1> DEFINE t == Enabling(Rising(main.pin))
<1>1. /\ main.op = "arm" /\ isr.at = "off"
      /\ main' = [main EXCEPT !.op = "enable", !.todo = t]
      /\ UNCHANGED <<level, ctx, pin_state, regs, aon, isr>>
  BY DEF Arm, At, MainRuns
<1>2. t \in EnablingLists
  <2>1. Rising(main.pin) \in BOOLEAN
    <3>1. CASE Both(main.pin)
      BY <3>1, Zenon DEF Rising
    <3>2. CASE ~Both(main.pin)
      BY <3>2 DEF Rising
    <3>3. QED
      BY <3>1, <3>2
  <2>2. QED
    BY <2>1, Zenon DEF EnablingLists
<1>3. main.pin \in Pins /\ ~main.loaded
  BY <1>1 DEF IInv, MainInv, Looped, Disablers
<1>4. /\ main'.op = "enable" /\ main'.pin = main.pin /\ main'.todo = t
      /\ main'.loaded = main.loaded
  BY <1>1 DEF IInv, Types, Calls
<1>5. main' \in Calls
  <2> DEFINE c == [main EXCEPT !.op = "enable"]
  <2>1. c \in Calls
    BY CallFields DEF IInv, Types, Ops
  <2>2. [c EXCEPT !.todo = t] \in Calls
    BY <1>2, <2>1, CallFields DEF Todos
  <2>3. QED
    BY <1>1, <2>2
<1>6. Types' /\ MainInv' /\ IsrInv' /\ EnableInv' /\ LoadInv' /\ WakingInv' /\ DisableInv'
  BY <1>1, <1>2, <1>3, <1>4, <1>5 DEF IInv, Types, MainInv, IsrInv, EnableInv, LoadInv,
     WakingInv, DisableInv, Waking, Awake, Looped, Disablers, ctx
<1>7. SettledInv' /\ EnablingInv'
  BY <1>1, <1>2, <1>3, <1>4, Distinct DEF IInv, SettledInv, EnablingInv, NotUnmasked,
     ArmedPins, Awake, ctx
<1>8. PadInv' /\ WakeInv' /\ (main.pin \in Pins => ResumeInv)'
  BY <1>1, <1>3, <1>4 DEF IInv, PadInv, Driven, Retained, WakeInv, ResumeInv, Awake, ctx
<1>9. QED
  BY <1>6, <1>7, <1>8 DEF IInv

LEMMA DoneStep ==
  ASSUME IInv, Done
  PROVE  IInv'
<1> DEFINE p == main.pin
<1>1. /\ main.op \in {"disable", "unregister", "enable"} /\ main.todo = <<>> /\ isr.at = "off"
      /\ hdl' = IF main.op = "unregister" THEN [hdl EXCEPT ![p] = {}] ELSE hdl
      /\ main' = Idle
      /\ UNCHANGED <<level, pin_assign, enable, pin_state, regs, aon, isr>>
  BY DEF Done, MainRuns
<1>2. p \in Pins /\ (p \in enable) = (p \in ArmedPins)
  BY <1>1, Lists, Distinct DEF IInv, MainInv, DisableInv, EnablingInv, NotUnmasked, Looped,
     Disablers, ArmedPins
<1>3. main.op = "unregister" => p \notin enable
  BY <1>1 DEF IInv, DisableInv, Disablers
<1>4. Types' /\ MainInv' /\ IsrInv' /\ EnableInv' /\ LoadInv' /\ WakingInv'
  BY <1>1, <1>2, <1>3, IdleRecord, GpioAssumption DEF IInv, Types, MainInv, IsrInv, EnableInv,
     LoadInv, WakingInv, Waking, Awake, Looped, Disablers, Pins
<1>5. SettledInv' /\ DisableInv' /\ EnablingInv'
  BY <1>1, <1>2, IdleRecord DEF IInv, SettledInv, DisableInv, EnablingInv, NotUnmasked,
     ArmedPins, Awake, Disablers
<1>6. PadInv' /\ WakeInv' /\ (main.pin \in Pins => ResumeInv)'
  BY <1>1, IdleRecord DEF IInv, PadInv, Driven, Retained, WakeInv, ResumeInv, Awake
<1>7. QED
  BY <1>4, <1>5, <1>6 DEF IInv

(* The outputs change between two calls.                                   *)
LEMMA OutputStep ==
  ASSUME IInv, NEW p \in Pins,
         \/ RetentionRegister(p) \/ RetentionUnregister(p)
         \/ \E on \in BOOLEAN : Write(p, on)
  PROVE  IInv'
<1>1. /\ main.op = "none" /\ isr.at = "off" /\ pin_assign[p] # "IN"
      /\ UNCHANGED <<level, enable, hdl, pin_state, aon, main, isr>>
      /\ \/ /\ pin_assign' = [pin_assign EXCEPT ![p] = "OUT"]
            /\ regs' = [regs EXCEPT !.ddr = @ \cup {p}]
         \/ /\ pin_assign' = [pin_assign EXCEPT ![p] = "IN"]
            /\ regs' = [regs EXCEPT !.ddr = @ \ {p}]
         \/ /\ pin_assign' = pin_assign /\ pin_assign[p] = "OUT"
            /\ \E on \in BOOLEAN :
                 regs' = [regs EXCEPT !.dr = With(@, p, on), !.ddr = @ \cup {p}]
  BY DEF RetentionRegister, RetentionUnregister, Write, At, MainRuns, ctx
<1>2. /\ regs' \in [Registers -> SUBSET Pins]
      /\ \A r \in Registers \ {"dr", "ddr"} : regs'[r] = regs[r]
      /\ IF pin_assign'[p] = "OUT" THEN regs'.ddr = regs.ddr \cup {p}
         ELSE regs'.ddr = regs.ddr \ {p}
      /\ pin_assign'[p] \in {"OUT", "IN"}
      /\ pin_assign' \in [Pins -> {"NONE", "OUT", "IN"}]
      /\ \A q \in Pins \ {p} : pin_assign'[q] = pin_assign[q]
  <2>1. CASE \E on \in BOOLEAN :
               /\ regs' = [regs EXCEPT !.dr = With(@, p, on), !.ddr = @ \cup {p}]
               /\ pin_assign' = pin_assign /\ pin_assign[p] = "OUT"
    <3>1. PICK on \in BOOLEAN :
            regs' = [regs EXCEPT !.dr = With(@, p, on), !.ddr = @ \cup {p}]
      BY <2>1
    <3>2. With(regs.dr, p, on) \in SUBSET Pins
      BY DEF IInv, Types, With, Registers
    <3>3. QED
      BY <2>1, <3>1, <3>2 DEF IInv, Types, Registers
  <2>2. CASE /\ pin_assign' = [pin_assign EXCEPT ![p] = "OUT"]
             /\ regs' = [regs EXCEPT !.ddr = @ \cup {p}]
    BY <2>2 DEF IInv, Types, Registers
  <2>3. CASE /\ pin_assign' = [pin_assign EXCEPT ![p] = "IN"]
             /\ regs' = [regs EXCEPT !.ddr = @ \ {p}]
    BY <2>3 DEF IInv, Types, Registers
  <2>4. QED
    BY <1>1, <2>1, <2>2, <2>3
<1>3. p \notin enable /\ main.pin \in Pins
  BY <1>1 DEF IInv, EnableInv, MainInv, Looped
<1>4. Types' /\ MainInv' /\ IsrInv' /\ EnableInv' /\ LoadInv' /\ WakingInv' /\ DisableInv'
  BY <1>1, <1>2, <1>3 DEF IInv, Types, MainInv, IsrInv, EnableInv, LoadInv, WakingInv,
     DisableInv, Waking, Awake, Looped, Disablers, Idle
<1>5. SettledInv' /\ EnablingInv'
  BY <1>1, <1>2 DEF IInv, SettledInv, EnablingInv, NotUnmasked, ArmedPins, Awake, Registers
<1>6. PadInv'
  <2>1. ASSUME NEW q \in Pins PROVE q \notin aon.ret
    BY <1>1 DEF IInv, PadInv, Driven, Awake
  <2>2. ASSUME NEW q \in Pins PROVE q \in regs'.ddr <=> pin_assign'[q] = "OUT"
    <3>1. CASE q = p
      BY <1>2, <3>1
    <3>2. CASE q # p
      <4>1. (q \in regs'.ddr <=> q \in regs.ddr) /\ pin_assign'[q] = pin_assign[q]
        BY <1>2, <3>2
      <4>2. q \in regs.ddr <=> pin_assign[q] = "OUT"
        BY <1>1 DEF IInv, PadInv, Driven, Awake
      <4>3. QED
        BY <4>1, <4>2
    <3>3. QED
      BY <3>1, <3>2
  <2>3. QED
    BY <1>1, <2>1, <2>2 DEF PadInv, Driven, Awake
<1>7. WakeInv' /\ (main.pin \in Pins => ResumeInv)'
  BY <1>1 DEF WakeInv, ResumeInv
<1>8. QED
  BY <1>4, <1>5, <1>6, <1>7 DEF IInv

-----------------------------------------------------------------------------
(* The interrupt handler.                                                  *)

LEMMA PinsAreNaturals == Pins \subseteq Nat
BY GpioAssumption DEF Pins

(* Of the pins before the next one, all but the current are before it.     *)
LEMMA PinOrder ==
  ASSUME NEW p \in Nat, NEW q \in Nat
  PROVE  /\ q < p + 1 <=> (q < p \/ q = p)
         /\ q <= p <=> (q < p \/ q = p)
         /\ ~(q < p /\ q = p) /\ ~(q < p /\ q > p) /\ (q # p => q < p \/ q > p)
         /\ q > p + 1 => q > p
         /\ ~(q > p /\ q < p + 1)
OBVIOUS

(* A pin without a handler is silent: it is not enabled, or it is the one  *)
(* the main program is about, and that one is masked.                      *)
LEMMA Silent ==
  ASSUME IInv, NEW p \in Pins, hdl[p] = {}
  PROVE  p \notin ArmedPins
<1>1. p \notin enable
  BY DEF IInv, EnableInv
<1>2. CASE Awake \/ main.op \in {"sleep", "note"}
  BY <1>1, <1>2 DEF IInv, SettledInv, DisableInv, EnablingInv, NotUnmasked, MainInv, Idle,
     Awake, Disablers, ArmedPins
<1>3. CASE main.op \in {"asleep"} \cup Waking
  BY <1>1, <1>3, PinsAreNaturals, GpioAssumption
     DEF IInv, Types, Calls, WakingInv, Waking, ArmedPins, Pins
<1>4. QED
  BY <1>2, <1>3 DEF IInv, Types, Calls, Ops, Awake, Waking

LEMMA IsrEnterStep ==
  ASSUME IInv, IsrEnter
  PROVE  IInv'
<1> DEFINE st == (regs.status \cap regs.inten) \ regs.mask
<1>1. /\ isr.at = "off" /\ Awake /\ st # {}
      /\ isr' = [at |-> "event", st |-> st, pol |-> regs.pol]
      /\ regs' = [regs EXCEPT !.status = @ \ st]
      /\ UNCHANGED <<level, ctx, pin_state, aon, main>>
  BY DEF IsrEnter
<1>2. /\ regs' \in [Registers -> SUBSET Pins] /\ st \in SUBSET Pins
      /\ \A r \in Registers \ {"status"} : regs'[r] = regs[r]
  BY <1>1 DEF IInv, Types, Registers
<1>3. \A p \in st : hdl[p] # {} /\ p \in ArmedPins
  BY <1>2, Silent DEF ArmedPins
<1>4. isr' \in Services
  BY <1>1, <1>2 DEF IInv, Types, Registers, Services
<1>5. IsrInv'
  BY <1>1, <1>2, <1>3 DEF IsrInv, Awake, ArmedPins, ctx, Registers
<1>6. Types' /\ MainInv' /\ EnableInv' /\ LoadInv' /\ WakingInv' /\ DisableInv'
  BY <1>1, <1>2, <1>4 DEF IInv, Types, MainInv, EnableInv, LoadInv, WakingInv, DisableInv,
     ArmedPins, Registers, ctx
<1>7. SettledInv' /\ EnablingInv'
  BY <1>1, <1>2 DEF IInv, SettledInv, EnablingInv, NotUnmasked, ArmedPins, Awake, Registers,
     ctx
<1>8. PadInv' /\ WakeInv' /\ (main.pin \in Pins => ResumeInv)'
  BY <1>1, <1>2 DEF IInv, PadInv, Driven, Retained, WakeInv, ResumeInv, Awake, Bit, Registers,
     ctx
<1>9. QED
  BY <1>5, <1>6, <1>7, <1>8 DEF IInv

(* A callback that unregisters its pin leaves it silent, and out of the    *)
(* reach of what the main program may have loaded before.                  *)
LEMMA IsrEventStep ==
  ASSUME IInv, IsrEvent
  PROVE  IInv'
<1> DEFINE p == Current
<1>1. /\ isr.at = "event" /\ Callback(p, p \in isr.pol)
      /\ isr' = [isr EXCEPT !.at = "arm"]
      /\ UNCHANGED <<level, pin_state, aon, main>>
  BY DEF IsrEvent
<1>2. isr.st \in SUBSET Pins /\ p \in isr.st /\ p \in Pins
  BY <1>1, CurrentIsServed, PinsAreNaturals DEF IInv, Types, Services, IsrInv, Current
<1>3. Awake /\ main.pin \in Pins
  BY <1>1 DEF IInv, IsrInv, MainInv, Awake, Looped
<1>4. /\ isr'.at = "arm" /\ isr'.st = isr.st /\ isr' \in Services
      /\ Current' = p
  BY <1>1 DEF IInv, Types, Services, Current
<1>5. CASE UNCHANGED <<ctx, regs>>
  <2>1. IsrInv'
    BY <1>1, <1>3, <1>4, <1>5 DEF IInv, IsrInv, Awake, ctx
  <2>2. Types' /\ MainInv' /\ EnableInv' /\ LoadInv' /\ WakingInv' /\ DisableInv'
    BY <1>1, <1>4, <1>5 DEF IInv, Types, MainInv, EnableInv, LoadInv, WakingInv, DisableInv,
       ArmedPins, ctx
  <2>3. SettledInv' /\ EnablingInv'
    BY <1>1, <1>5 DEF IInv, SettledInv, EnablingInv, NotUnmasked, ArmedPins, Awake, ctx
  <2>4. PadInv' /\ WakeInv' /\ (main.pin \in Pins => ResumeInv)'
    BY <1>1, <1>3, <1>5 DEF IInv, PadInv, Driven, Retained, WakeInv, ResumeInv, Awake, Bit, ctx
  <2>5. QED
    BY <2>1, <2>2, <2>3, <2>4 DEF IInv
<1>6. CASE Unregistered(p)
  <2>1. /\ enable' = enable \ {p} /\ pin_assign' = [pin_assign EXCEPT ![p] = "IN"]
        /\ hdl' = [hdl EXCEPT ![p] = {}]
        /\ regs' = [regs EXCEPT !.ddr = @ \ {p}, !.mask = @ \cup {p}, !.inten = @ \ {p}]
    BY <1>6 DEF Unregistered, Release
  <2>2. /\ regs' \in [Registers -> SUBSET Pins]
        /\ regs'.ddr = regs.ddr \ {p} /\ regs'.mask = regs.mask \cup {p}
        /\ regs'.inten = regs.inten \ {p}
        /\ \A r \in {"dr", "pol", "status"} : regs'[r] = regs[r]
    BY <1>2, <2>1 DEF IInv, Types, Registers
  <2>3. p \in regs.inten /\ p \notin regs.mask
    BY <1>1, <1>2 DEF IInv, IsrInv
  <2>4. Types' /\ MainInv' /\ EnableInv' /\ WakingInv'
    BY <1>1, <1>2, <1>3, <1>4, <2>1, <2>2 DEF IInv, Types, MainInv, EnableInv, WakingInv,
       Waking, Awake
  <2>5. IsrInv'
    BY <1>1, <1>2, <1>3, <1>4, <2>1, <2>2 DEF IInv, Types, IsrInv, Awake
  <2>6. LoadInv'
    BY <1>1, <1>2, <2>1, <2>2 DEF IInv, LoadInv
  <2>7. SettledInv' /\ DisableInv' /\ EnablingInv'
    BY <1>1, <1>2, <1>3, <2>1, <2>2, <2>3 DEF IInv, Types, SettledInv, DisableInv, EnablingInv,
       NotUnmasked, ArmedPins, Awake
  <2>8. PadInv' /\ WakeInv' /\ (main.pin \in Pins => ResumeInv)'
    BY <1>1, <1>2, <1>3, <2>1, <2>2 DEF IInv, Types, PadInv, Driven, Retained, WakeInv,
       ResumeInv, Awake
  <2>9. QED
    BY <2>4, <2>5, <2>6, <2>7, <2>8 DEF IInv
<1>7. QED
  BY <1>1, <1>5, <1>6 DEF Callback

(* The pins that are served are armed already: re-arming one only changes  *)
(* its polarity.                                                           *)
LEMMA IsrArmStep ==
  ASSUME IInv, IsrArm
  PROVE  IInv'
<1> DEFINE p == Current
<1>1. /\ isr.at = "arm" /\ isr' = NextPin
      /\ UNCHANGED <<level, ctx, pin_state, aon, main>>
      /\ \/ hdl[p] = {} /\ regs' = regs
         \/ hdl[p] # {} /\ \E rising : regs' = Armed(p, rising)
  BY DEF IsrArm
<1>2. isr.st \in SUBSET Pins /\ p \in isr.st /\ p \in Pins
  BY <1>1, CurrentIsServed, PinsAreNaturals DEF IInv, Types, Services, IsrInv, Current
<1>3. hdl[p] # {} => p \in regs.inten /\ p \notin regs.mask
  BY <1>2 DEF IInv, IsrInv
<1>4. /\ regs' \in [Registers -> SUBSET Pins]
      /\ \A r \in Registers \ {"pol"} : regs'[r] = regs[r]
  <2>1. CASE regs' = regs
    BY <2>1 DEF IInv, Types
  <2>2. CASE hdl[p] # {} /\ \E rising : regs' = Armed(p, rising)
    <3>1. PICK rising : regs' = Armed(p, rising)
      BY <2>2
    <3>2. /\ regs' \in [Registers -> SUBSET Pins]
          /\ regs'.mask = regs.mask \ {p} /\ regs'.inten = regs.inten \cup {p}
          /\ \A r \in {"ddr", "dr", "status"} : regs'[r] = regs[r]
      BY <1>2, <3>1, TypeOfArmed DEF IInv, Types
    <3>3. regs'.mask = regs.mask /\ regs'.inten = regs.inten
      BY <1>3, <2>2, <3>2 DEF IInv, Types, Registers
    <3>4. QED
      BY <3>2, <3>3 DEF Registers
  <2>3. QED
    BY <1>1, <2>1, <2>2
<1>5. Awake /\ main.pin \in Pins
  BY <1>1 DEF IInv, IsrInv, MainInv, Awake, Looped
<1>6. IsrInv' /\ isr' \in Services
  <2>1. CASE isr.st = {p}
    BY <1>1, <1>5, <2>1 DEF NextPin, Off, IsrInv, Services
  <2>2. CASE isr.st # {p}
    <3>1. isr' = [isr EXCEPT !.at = "event", !.st = @ \ {p}]
      BY <1>1, <2>2 DEF NextPin
    <3>2. /\ isr'.at = "event" /\ isr'.st = isr.st \ {p} /\ isr' \in Services
      BY <3>1 DEF IInv, Types, Services
    <3>3. QED
      BY <1>1, <1>2, <1>4, <1>5, <2>2, <3>2 DEF IInv, IsrInv, Awake, Registers, ctx
  <2>3. QED
    BY <2>1, <2>2
<1>7. Types' /\ MainInv' /\ EnableInv' /\ LoadInv' /\ WakingInv' /\ DisableInv'
  BY <1>1, <1>4, <1>6 DEF IInv, Types, MainInv, EnableInv, LoadInv, WakingInv, DisableInv,
     ArmedPins, Registers, ctx
<1>8. SettledInv' /\ EnablingInv'
  BY <1>1, <1>4 DEF IInv, SettledInv, EnablingInv, NotUnmasked, ArmedPins, Awake, Registers,
     ctx
<1>9. PadInv' /\ WakeInv' /\ (main.pin \in Pins => ResumeInv)'
  BY <1>1, <1>4, <1>5 DEF IInv, PadInv, Driven, Retained, WakeInv, ResumeInv, Awake, Bit,
     Registers, ctx
<1>10. QED
  BY <1>6, <1>7, <1>8, <1>9 DEF IInv

-----------------------------------------------------------------------------
(* The way into a sleep.                                                   *)

LEMMA SleepStep ==
  ASSUME IInv, Sleep
  PROVE  IInv'
<1>1. /\ main.op = "none" /\ isr.at = "off" /\ main' = GoTo("sleep", 0)
      /\ UNCHANGED <<level, ctx, pin_state, regs, aon, isr>>
  BY DEF Sleep, At, MainRuns
<1>2. /\ main' \in Calls /\ main'.op = "sleep" /\ main'.pin = 0 /\ main'.todo = <<>>
      /\ ~main'.loaded
  BY <1>1, GoToRecord, GpioAssumption DEF Ops
<1>3. Types' /\ MainInv' /\ IsrInv' /\ EnableInv' /\ LoadInv'
  BY <1>1, <1>2 DEF IInv, Types, MainInv, IsrInv, EnableInv, LoadInv, Looped, Disablers, ctx
<1>4. SettledInv' /\ DisableInv' /\ EnablingInv' /\ WakingInv'
  BY <1>1, <1>2 DEF IInv, SettledInv, DisableInv, EnablingInv, NotUnmasked, WakingInv, Waking,
     Disablers, ArmedPins, Awake, ctx
<1>5. PadInv' /\ (main.pin \in Pins => ResumeInv)'
  BY <1>1, <1>2, PinsAreNaturals DEF IInv, Types, PadInv, Driven, Retained, ResumeInv, Awake, ctx
<1>6. WakeInv'
  <2>1. \A q \in enable : ~(q < 0)
    BY GpioAssumption DEF IInv, Types, Pins
  <2>2. QED
    BY <1>1, <1>2, <2>1 DEF WakeInv, ctx
<1>7. QED
  BY <1>3, <1>4, <1>5, <1>6 DEF IInv

(* An enabled pin is read as what the world drives it to.                  *)
LEMMA EnabledReads ==
  ASSUME IInv, NEW p \in enable
  PROVE  /\ Read(p) = level[p] /\ level[p] \in 0 .. 1
         /\ pin_assign[p] = "IN" /\ p \notin regs.ddr /\ p \notin aon.ret
<1>1. p \in Pins /\ pin_assign[p] = "IN"
  BY DEF IInv, Types, EnableInv
<1>2. p \notin regs.ddr /\ p \notin aon.ret
  BY <1>1 DEF IInv, PadInv
<1>3. QED
  BY <1>1, <1>2 DEF IInv, Types, Read, Pad

(* The turn of one pin, in the sleep handler.                              *)
LEMMA SleepPinStep ==
  ASSUME IInv, \/ SleepOut \/ SleepIn \/ Note
               \/ Turn("sleep") /\ pin_assign[main.pin] = "NONE" /\ Skip
  PROVE  IInv'
<1> DEFINE p == main.pin
<1>1. /\ main.op \in {"sleep", "note"} /\ isr.at = "off" /\ p \in Pins /\ p + 1 \in 0 .. NUMBER_OF_PINS
      /\ UNCHANGED <<level, ctx, regs, isr>>
  BY GpioAssumption DEF SleepOut, SleepIn, Note, Skip, Turn, At, MainRuns, IInv, Types, Calls,
     MainInv, Looped, Pins
<1>2. pin_state' \in [Pins -> 0 .. 1]
  <2>1. CASE Note
    <3>1. Read(p) \in 0 .. 1
      BY <1>1 DEF Read, Pad, Bit, IInv, Types, Retentions
    <3>2. QED
      BY <1>1, <2>1, <3>1 DEF Note, IInv, Types
  <2>2. CASE ~Note
    BY <2>2 DEF SleepOut, SleepIn, Skip, IInv, Types
  <2>3. QED
    BY <2>1, <2>2
<1>3. /\ main' \in Calls /\ main'.todo = <<>> /\ ~main'.loaded
      /\ IF SleepIn THEN main'.op = "note" /\ main'.pin = p
         ELSE main'.op = "sleep" /\ main'.pin = p + 1
      /\ main'.moved = IF SleepIn THEN main.moved \ {p} ELSE main.moved
  <2>1. main \in Calls /\ main.todo = <<>> /\ ~main.loaded
    BY <1>1 DEF IInv, Types, MainInv, Disablers
  <2>2. CASE SleepIn
    <3>1. main' = [GoOn("note", p) EXCEPT !.moved = @ \ {p}]
      BY <2>2 DEF SleepIn
    <3>2. /\ GoOn("note", p) \in Calls /\ GoOn("note", p).op = "note" /\ GoOn("note", p).pin = p
          /\ GoOn("note", p).todo = <<>> /\ ~GoOn("note", p).loaded
          /\ GoOn("note", p).moved = main.moved
      BY <1>1, <2>1, GoOnRecord, GpioAssumption DEF Ops, Pins
    <3>3. main.moved \ {p} \in SUBSET Pins
      BY <2>1 DEF Calls
    <3>4. main' \in Calls
      BY <3>1, <3>2, <3>3, CallFields
    <3>5. QED
      BY <2>2, <3>1, <3>2, <3>4 DEF Calls
  <2>3. CASE ~SleepIn
    <3>1. main' = GoOn("sleep", p + 1)
      BY <2>3 DEF SleepOut, Note, Skip, Turn, At
    <3>2. QED
      BY <1>1, <2>1, <2>3, <3>1, GoOnRecord DEF Ops
  <2>4. QED
    BY <2>2, <2>3
<1>4. /\ aon' \in Retentions
      /\ aon'.ret = IF SleepOut THEN aon.ret \cup {p} ELSE aon.ret
      /\ aon'.wake = IF SleepIn THEN aon.wake \cup {p} ELSE aon.wake
      /\ aon'.rise = IF SleepIn THEN With(aon.rise, p, Read(p) = 0) ELSE aon.rise
  <2>1. CASE SleepOut
    <3>1. aon' = [aon EXCEPT !.ret = @ \cup {p}, !.held[p] = Pad(p)] /\ ~SleepIn
      BY <2>1 DEF SleepOut, SleepIn
    <3>2. Pad(p) \in 0 .. 1
      BY <1>1 DEF Pad, Bit, IInv, Types, Retentions
    <3>3. QED
      BY <1>1, <2>1, <3>1, <3>2 DEF IInv, Types, Retentions
  <2>2. CASE SleepIn
    <3>1. /\ aon' = [aon EXCEPT !.wake = @ \cup {p}, !.rise = With(@, p, Read(p) = 0)]
          /\ ~SleepOut
      BY <2>2 DEF SleepOut, SleepIn
    <3>2. With(aon.rise, p, Read(p) = 0) \in SUBSET Pins
      BY <1>1 DEF With, IInv, Types, Retentions
    <3>3. QED
      BY <1>1, <2>2, <3>1, <3>2 DEF IInv, Types, Retentions
  <2>3. CASE ~SleepOut /\ ~SleepIn
    BY <2>3 DEF Note, Skip, IInv, Types
  <2>4. QED
    BY <2>1, <2>2, <2>3
<1>5. /\ SleepOut <=> pin_assign[p] = "OUT"
      /\ SleepIn => pin_assign[p] = "IN"
      /\ ~SleepOut /\ ~SleepIn => pin_assign[p] = "NONE" \/ main.op = "note"
  <2>1. main.op = "note" => pin_assign[p] = "IN"
    BY DEF IInv, WakeInv
  <2>2. /\ SleepOut => pin_assign[p] = "OUT"
        /\ SleepIn => pin_assign[p] = "IN"
        /\ Note => main.op = "note"
    BY DEF SleepOut, SleepIn, Note, At
  <2>3. QED
    BY <2>1, <2>2
<1>6. Types' /\ MainInv' /\ IsrInv' /\ EnableInv' /\ LoadInv'
  BY <1>1, <1>2, <1>3, <1>4 DEF IInv, Types, MainInv, IsrInv, EnableInv, LoadInv, Looped,
     Disablers, ctx
<1>7. SettledInv' /\ DisableInv' /\ EnablingInv' /\ WakingInv'
  BY <1>1, <1>3 DEF IInv, SettledInv, DisableInv, EnablingInv, NotUnmasked, WakingInv, Waking,
     Disablers, ArmedPins, Awake, ctx
<1>8. p \in Nat /\ \A q \in Pins : q \in Nat
  BY <1>1, PinsAreNaturals
<1>9. ASSUME NEW q \in Pins
      PROVE  /\ q \in aon'.ret => pin_assign[q] = "OUT"
             /\ q \in regs.ddr => pin_assign[q] = "OUT"
             /\ pin_assign[q] = "OUT" =>
                  IF q < main'.pin THEN q \in aon'.ret
                  ELSE q \in regs.ddr /\ q \notin aon'.ret
  <2>1. /\ q \in aon.ret => pin_assign[q] = "OUT"
        /\ q \in regs.ddr => pin_assign[q] = "OUT"
        /\ pin_assign[q] = "OUT" =>
             IF q < p THEN q \in aon.ret ELSE q \in regs.ddr /\ q \notin aon.ret
    BY <1>1 DEF IInv, PadInv, Driven
  <2>2. CASE q = p
    BY <1>3, <1>4, <1>5, <1>8, PinOrder, <2>1, <2>2
  <2>3. CASE q # p
    <3>1. q < p + 1 <=> q < p
      BY <1>8, PinOrder, <2>3
    <3>2. (q < main'.pin <=> q < p) /\ (q \in aon'.ret <=> q \in aon.ret)
      BY <1>3, <1>4, <2>3, <3>1
    <3>3. QED
      BY <2>1, <3>2
  <2>4. QED
    BY <2>2, <2>3
<1>10. PadInv'
  BY <1>1, <1>3, <1>9 DEF PadInv, Driven, Awake, ctx
<1>11. WakeInv'
  <2>1. ASSUME NEW q \in enable, q < p
        PROVE  EndsSleep(q)'
    <3>1. q \in Pins
      BY DEF IInv, Types
    <3>2. q <= p /\ q # p
      BY <1>8, PinOrder, <2>1, <3>1
    <3>3. EndsSleep(q)
      BY <1>1, <2>1, <3>2 DEF IInv, WakeInv
    <3>4. /\ q \in aon'.wake <=> q \in aon.wake
          /\ q \in aon'.rise <=> q \in aon.rise
          /\ q \in main'.moved <=> q \in main.moved
          /\ level' = level
      BY <1>1, <1>3, <1>4, <3>2 DEF With
    <3>5. QED
      BY <3>3, <3>4 DEF EndsSleep
  <2>2. p \in enable => SleepIn \/ (main.op = "note" /\ EndsSleep(p))
    BY <1>1, <1>5, <1>8 DEF IInv, EnableInv, WakeInv
  <2>3. ASSUME NEW q \in enable, q = p PROVE EndsSleep(q)'
    <3>1. CASE SleepIn
      <4>1. Read(q) = level[q]
        BY EnabledReads
      <4>2. q \in With(aon.rise, q, Read(q) = 0) <=> level[q] = 0
        BY <4>1 DEF With
      <4>3. q \in aon'.wake /\ (q \in aon'.rise <=> level'[q] = 0)
        BY <1>1, <1>4, <2>3, <3>1, <4>2
      <4>4. QED
        BY <4>3 DEF EndsSleep
    <3>2. CASE ~SleepIn
      <4>1. EndsSleep(q)
        BY <2>2, <2>3, <3>2
      <4>2. /\ aon'.wake = aon.wake /\ aon'.rise = aon.rise /\ main'.moved = main.moved
            /\ level' = level
        BY <1>1, <1>3, <1>4, <3>2
      <4>3. QED
        BY <4>1, <4>2 DEF EndsSleep
    <3>3. QED
      BY <3>1, <3>2
  <2>4. ASSUME NEW q \in enable, q < p + 1 \/ q <= p
        PROVE  EndsSleep(q)'
    <3>1. q \in Pins
      BY DEF IInv, Types
    <3>2. q < p \/ q = p
      BY <1>8, <2>4, <3>1
    <3>3. QED
      BY <2>1, <2>3, <3>2
  <2>5. /\ \A q \in enable : q < p + 1 => EndsSleep(q)'
        /\ \A q \in enable : q <= p => EndsSleep(q)'
    BY <2>4
  <2>6. SleepIn => pin_assign'[p] = "IN"
    BY <1>1, <1>5 DEF ctx
  <2>7. QED
    BY <1>1, <1>3, <2>5, <2>6 DEF WakeInv, ctx
<1>12. (main.pin \in Pins => ResumeInv)'
  BY <1>3 DEF ResumeInv
<1>13. QED
  BY <1>6, <1>7, <1>10, <1>11, <1>12 DEF IInv

LEMMA PowerDownStep ==
  ASSUME IInv, PowerDown \/ WakeUp
  PROVE  IInv'
<1>1. /\ isr.at = "off" /\ UNCHANGED <<level, ctx, pin_state, isr>>
      /\ \/ /\ main.op = "sleep" /\ main.pin = NUMBER_OF_PINS
            /\ regs' = Reset /\ main' = GoOn("asleep", 0) /\ aon' = aon
         \/ /\ main.op = "asleep" /\ regs' = regs /\ main' = GoTo("wake", 0)
            /\ aon' = [aon EXCEPT !.rise = {}]
  BY DEF PowerDown, WakeUp, At, MainRuns
<1>2. /\ main' \in Calls /\ main'.pin = 0 /\ main'.todo = <<>> /\ ~main'.loaded
      /\ main'.op = IF main.op = "sleep" THEN "asleep" ELSE "wake"
      /\ main.op = "sleep" => main'.moved = main.moved
  <2>1. main \in Calls /\ main.todo = <<>> /\ ~main.loaded
    BY <1>1 DEF IInv, Types, MainInv, Disablers
  <2>2. CASE main.op = "sleep"
    BY <1>1, <2>1, <2>2, GoOnRecord, GpioAssumption DEF Ops
  <2>3. CASE main.op # "sleep"
    BY <1>1, <2>3, GoToRecord, GpioAssumption DEF Ops
  <2>4. QED
    BY <2>2, <2>3
<1>3. /\ regs' \in [Registers -> SUBSET Pins]
      /\ main.op = "sleep" => regs'.inten = {} /\ regs'.ddr = {}
      /\ main.op # "sleep" => regs' = regs
  BY <1>1 DEF Reset, Registers, IInv, Types
<1>9. /\ aon' \in Retentions /\ aon'.ret = aon.ret /\ aon'.held = aon.held
      /\ main.op = "sleep" => aon' = aon
  BY <1>1 DEF IInv, Types, Retentions
<1>4. Types' /\ MainInv' /\ IsrInv' /\ EnableInv' /\ LoadInv'
  BY <1>1, <1>2, <1>3, <1>9, GpioAssumption DEF IInv, Types, MainInv, IsrInv, EnableInv, LoadInv,
     Looped, Disablers, Pins, ctx
<1>5. SettledInv' /\ DisableInv' /\ EnablingInv' /\ WakingInv'
  BY <1>1, <1>2, <1>3, PinsAreNaturals DEF IInv, SettledInv, DisableInv, EnablingInv,
     NotUnmasked, WakingInv, Waking, Disablers, ArmedPins, Awake, ctx
<1>6. \A p \in Pins : p < NUMBER_OF_PINS /\ ~(p < 0)
  BY GpioAssumption DEF Pins
<1>7. PadInv' /\ (main.pin \in Pins => ResumeInv)'
  BY <1>1, <1>2, <1>3, <1>6, <1>9 DEF IInv, Types, PadInv, Driven, Retained, ResumeInv,
     Awake, ctx
<1>8. WakeInv'
  <2>1. CASE main.op = "sleep"
    <3>1. \A q \in enable : EndsSleep(q)
      BY <1>1, <1>6, <2>1 DEF IInv, Types, WakeInv
    <3>2. \A q \in enable : EndsSleep(q)'
      BY <1>1, <1>2, <1>9, <2>1, <3>1 DEF EndsSleep
    <3>3. QED
      BY <1>1, <1>2, <2>1, <3>2 DEF WakeInv, ctx
  <2>2. CASE main.op # "sleep"
    BY <1>2, <2>2 DEF WakeInv
  <2>3. QED
    BY <2>1, <2>2
<1>10. QED
  BY <1>4, <1>5, <1>7, <1>8 DEF IInv

-----------------------------------------------------------------------------
(* The way out of it: the wake-up handler is done with one pin.            *)
LEMMA NextPinStep ==
  ASSUME IInv, main.op \in {"wake", "release", "call"}, main.pin \in Pins, isr' = isr,
         Types', main'.op = "wake", main'.pin = main.pin + 1, main'.todo = <<>>, ~main'.loaded,
         NEW p, p = main.pin,
         \A q \in Pins \ {p} :
           /\ q \in enable' <=> q \in enable
           /\ pin_assign'[q] = pin_assign[q] /\ hdl'[q] = hdl[q]
           /\ q \in regs'.inten <=> q \in regs.inten
           /\ q \in regs'.mask <=> q \in regs.mask
           /\ q \in regs'.ddr <=> q \in regs.ddr
           /\ q \in aon'.ret <=> q \in aon.ret,
         p \in enable' <=> p \in ArmedPins',
         p \in enable' => hdl'[p] # {} /\ pin_assign'[p] = "IN",
         p \in regs'.ddr <=> pin_assign'[p] = "OUT",
         p \notin aon'.ret
  PROVE  IInv'
<1>1. /\ p \in Pins /\ p \in Nat /\ p + 1 \in 0 .. NUMBER_OF_PINS
      /\ \A q \in Pins : q \in Nat
  BY PinsAreNaturals, GpioAssumption DEF Pins
<1>2. /\ main' \in Calls /\ main'.op = "wake" /\ main'.pin = p + 1 /\ main'.todo = <<>>
      /\ ~main'.loaded
  BY DEF Types
<1>3. isr.at = "off"
  BY DEF IInv, IsrInv, Awake
<1>4. EnableInv'
  BY DEF IInv, Types, EnableInv
<1>5. MainInv' /\ IsrInv' /\ LoadInv' /\ WakeInv' /\ (main.pin \in Pins => ResumeInv)'
  BY <1>2, <1>3 DEF IInv, MainInv, IsrInv, LoadInv, WakeInv, ResumeInv, Looped, Disablers
<1>6. SettledInv' /\ DisableInv' /\ EnablingInv'
  BY <1>2 DEF SettledInv, DisableInv, EnablingInv, NotUnmasked, Disablers, Awake
<1>7. ASSUME NEW q \in Pins, q < p + 1
      PROVE  /\ (q \in enable') = (q \in ArmedPins')
             /\ q \in regs'.ddr <=> pin_assign'[q] = "OUT"
             /\ q \notin aon'.ret
  <2>1. CASE q = p
    BY <2>1
  <2>2. CASE q # p
    <3>1. q < p
      BY <1>1, <1>7, <2>2, PinOrder
    <3>2. (q \in enable) = (q \in ArmedPins)
      BY <3>1 DEF IInv, WakingInv, Waking
    <3>3. (q \in regs.ddr <=> pin_assign[q] = "OUT") /\ q \notin aon.ret
      BY <3>1 DEF IInv, PadInv, Driven
    <3>4. QED
      BY <2>2, <3>2, <3>3 DEF ArmedPins
  <2>3. QED
    BY <2>1, <2>2
<1>8. ASSUME NEW q \in Pins, ~(q < p + 1)
      PROVE  /\ q \notin regs'.inten
             /\ q \notin regs'.ddr
             /\ q \in aon'.ret <=> pin_assign'[q] = "OUT"
  <2>1. q # p /\ q > p /\ ~(q < p)
    BY <1>1, <1>8, PinOrder
  <2>2. q \notin regs.inten
    BY <2>1 DEF IInv, WakingInv, Waking
  <2>3. q \notin regs.ddr /\ (q \in aon.ret <=> pin_assign[q] = "OUT")
    BY <2>1 DEF IInv, PadInv, Retained
  <2>4. QED
    BY <2>1, <2>2, <2>3
<1>9. WakingInv'
  <2>1. ASSUME NEW q \in Pins, q > p + 1
        PROVE  q \notin regs'.inten
    BY <1>1, <1>8, <2>1
  <2>2. p + 1 \notin regs'.inten
    <3>1. CASE p + 1 \in Pins
      <4>1. ~(p + 1 < p + 1)
        BY <1>1
      <4>2. QED
        BY <1>8, <3>1, <4>1
    <3>2. CASE p + 1 \notin Pins
      BY <3>2 DEF Types, Registers
    <3>3. QED
      BY <3>1, <3>2
  <2>3. QED
    BY <1>2, <1>7, <2>1, <2>2 DEF WakingInv
<1>10. PadInv'
  <2>1. ASSUME NEW q \in Pins
        PROVE  /\ q \in aon'.ret => pin_assign'[q] = "OUT"
               /\ q \in regs'.ddr => pin_assign'[q] = "OUT"
               /\ pin_assign'[q] = "OUT" => IF q < p + 1 THEN Driven(q)' ELSE Retained(q)'
    BY <1>7, <1>8 DEF Driven, Retained
  <2>2. QED
    BY <1>2, <2>1 DEF PadInv, Awake
<1>11. QED
  BY <1>4, <1>5, <1>6, <1>9, <1>10 DEF IInv

LEMMA WakeSkipStep ==
  ASSUME IInv, Turn("wake") /\ pin_assign[main.pin] # "OUT" /\ main.pin \notin enable, Skip
  PROVE  IInv'
<1>1. /\ main.op = "wake" /\ main.pin \in Pins /\ main' = GoOn("wake", main.pin + 1)
      /\ UNCHANGED <<level, ctx, pin_state, regs, aon, isr>>
  BY GpioAssumption DEF Skip, Turn, At, IInv, Types, Calls, Pins
<1>2. /\ main'.op = "wake" /\ main'.pin = main.pin + 1 /\ main'.todo = <<>> /\ ~main'.loaded
      /\ Types'
  <2>1. main \in Calls /\ main.todo = <<>> /\ ~main.loaded
    BY <1>1 DEF IInv, Types, MainInv, Disablers
  <2>2. /\ main' \in Calls /\ main'.op = "wake" /\ main'.pin = main.pin + 1
        /\ main'.todo = <<>> /\ ~main'.loaded
    BY <1>1, <2>1, GoOnRecord, GpioAssumption DEF Ops, Pins
  <2>3. QED
    BY <1>1, <2>2 DEF IInv, Types, ctx
<1>3. main.pin \notin ArmedPins /\ main.pin \notin regs.ddr /\ main.pin \notin aon.ret
  BY <1>1 DEF IInv, WakingInv, PadInv, ArmedPins
<1>4. QED
  BY <1>1, <1>2, <1>3, NextPinStep DEF ctx, ArmedPins

(* An output is driven with the retained level before its retention ends.  *)
LEMMA WakeOutStep ==
  ASSUME IInv, WakeOut
  PROVE  IInv'
<1> DEFINE p == main.pin
<1>1. /\ main.op = "wake" /\ isr.at = "off" /\ p \in Pins /\ pin_assign[p] = "OUT"
      /\ regs' = [regs EXCEPT !.dr = With(@, p, Read(p) = 1), !.ddr = @ \cup {p}]
      /\ main' = GoTo("release", p)
      /\ UNCHANGED <<level, ctx, pin_state, aon, isr>>
  BY GpioAssumption DEF WakeOut, Turn, At, MainRuns, IInv, Types, Calls, Pins
<1>2. /\ main' \in Calls /\ main'.op = "release" /\ main'.pin = p /\ main'.todo = <<>>
      /\ ~main'.loaded
  BY <1>1, GoToRecord, GpioAssumption DEF Ops, Pins
<1>3. p \in aon.ret /\ p \notin regs.ddr /\ aon.held[p] \in 0 .. 1
  <2>1. ~(p < p)
    BY <1>1, PinsAreNaturals, PinOrder
  <2>2. QED
    BY <1>1, <2>1 DEF IInv, Types, Retentions, PadInv, Retained
<1>4. /\ regs' \in [Registers -> SUBSET Pins]
      /\ regs'.ddr = regs.ddr \cup {p}
      /\ p \in regs'.dr <=> aon.held[p] = 1
      /\ \A q \in Pins \ {p} : q \in regs'.dr <=> q \in regs.dr
      /\ \A r \in {"pol", "mask", "inten", "status"} : regs'[r] = regs[r]
  <2>1. Read(p) = aon.held[p]
    BY <1>3 DEF Read, Pad
  <2>2. With(regs.dr, p, Read(p) = 1) \in SUBSET Pins
    BY <1>1 DEF IInv, Types, With, Registers
  <2>3. /\ regs' \in [Registers -> SUBSET Pins] /\ regs'.ddr = regs.ddr \cup {p}
        /\ regs'.dr = With(regs.dr, p, Read(p) = 1)
        /\ \A r \in {"pol", "mask", "inten", "status"} : regs'[r] = regs[r]
    BY <1>1, <2>2 DEF IInv, Types, Registers
  <2>4. QED
    BY <2>1, <2>3 DEF With
<1>5. Types' /\ MainInv' /\ IsrInv' /\ EnableInv' /\ LoadInv' /\ WakeInv'
  BY <1>1, <1>2, <1>4 DEF IInv, Types, MainInv, IsrInv, EnableInv, LoadInv, WakeInv, Looped,
     Disablers, ctx
<1>6. SettledInv' /\ DisableInv' /\ EnablingInv' /\ WakingInv' /\ ResumeInv'
  BY <1>1, <1>2, <1>4 DEF IInv, SettledInv, DisableInv, EnablingInv, NotUnmasked, WakingInv,
     Waking, Disablers, ArmedPins, Awake, ResumeInv, ctx
<1>7. PadInv'
  <2>1. /\ p \in regs'.ddr /\ p \in aon'.ret /\ aon'.held[p] = Bit(regs'.dr, p)
        /\ pin_assign'[p] = "OUT"
    BY <1>1, <1>3, <1>4 DEF Bit, ctx
  <2>2. ASSUME NEW q \in Pins, q # p
        PROVE  /\ q \in aon'.ret => pin_assign'[q] = "OUT"
               /\ q \in regs'.ddr => pin_assign'[q] = "OUT"
               /\ pin_assign'[q] = "OUT" => IF q < p THEN Driven(q)' ELSE Retained(q)'
    BY <1>1, <1>4, <2>2 DEF IInv, PadInv, Driven, Retained, ctx
  <2>3. ~(p < p) /\ ~(p > p)
    BY <1>1, PinsAreNaturals, PinOrder
  <2>4. QED
    BY <1>2, <2>1, <2>2, <2>3 DEF PadInv, Awake
<1>8. QED
  BY <1>5, <1>6, <1>7 DEF IInv

LEMMA EndRetentionStep ==
  ASSUME IInv, EndRetention
  PROVE  IInv'
<1> DEFINE p == main.pin
<1>1. /\ main.op = "release" /\ main' = GoTo("wake", p + 1)
      /\ aon' = [aon EXCEPT !.ret = @ \ {p}, !.held[p] = 0]
      /\ UNCHANGED <<level, ctx, pin_state, regs, isr>>
  BY DEF EndRetention, At
<1>2. p \in Pins
  BY <1>1 DEF IInv, MainInv, Looped
<1>3. aon' \in Retentions /\ aon'.ret = aon.ret \ {p}
  <2> DEFINE h == [aon.held EXCEPT ![p] = 0]
             r == aon.ret \ {p}
  <2>1. h \in [Pins -> 0 .. 1] /\ r \in SUBSET Pins
    BY <1>2 DEF IInv, Types, Retentions
  <2>2. aon' = [aon EXCEPT !.ret = r, !.held = h]
    BY <1>1, Zenon
  <2> HIDE DEF h, r
  <2>3. aon' \in Retentions /\ aon'.ret = r
    BY <2>1, <2>2 DEF IInv, Types, Retentions
  <2>4. QED
    BY <2>3 DEF r
<1>4. /\ main'.op = "wake" /\ main'.pin = p + 1 /\ main'.todo = <<>> /\ ~main'.loaded
      /\ Types'
  <2>1. main' = GoTo("wake", p + 1) /\ p + 1 \in 0 .. NUMBER_OF_PINS /\ "wake" \in Ops
    BY <1>1, <1>2, GpioAssumption DEF Ops, Pins
  <2>2. /\ main' \in Calls /\ main'.op = "wake" /\ main'.pin = p + 1 /\ main'.todo = <<>>
        /\ ~main'.loaded
    BY <2>1, GoToRecord
  <2>3. QED
    BY <1>1, <1>3, <2>2 DEF IInv, Types, ctx
<1>5. p \in regs.ddr /\ pin_assign[p] = "OUT" /\ p \notin enable /\ p \notin ArmedPins
  BY <1>1, <1>2 DEF IInv, PadInv, EnableInv, WakingInv, ArmedPins
<1>6. QED
  BY <1>1, <1>2, <1>3, <1>4, <1>5, NextPinStep DEF ctx, ArmedPins

(* The edge that is chosen leaves the level the pin has.                   *)
LEMMA WakeInStep ==
  ASSUME IInv, WakeIn
  PROVE  IInv'
<1> DEFINE p == main.pin
           v == IF Rising(p) THEN 1 ELSE 0
<1>1. /\ main.op = "wake" /\ isr.at = "off" /\ p \in enable
      /\ pin_assign' = [pin_assign EXCEPT ![p] = "IN"] /\ enable' = enable \cup {p}
      /\ regs' = [regs EXCEPT !.ddr = @ \ {p}]
      /\ main' = [main EXCEPT !.op = "resume", !.val = v, !.away = level[p] # pin_state[p]]
      /\ UNCHANGED <<level, hdl, pin_state, aon, isr>>
  BY DEF WakeIn, Claim, Turn, At, MainRuns
<1>2. p \in Pins /\ Read(p) = level[p] /\ pin_assign[p] = "IN" /\ p \notin regs.ddr
  BY <1>1, EnabledReads DEF IInv, Types
<1>3. pin_assign' = pin_assign /\ enable' = enable /\ regs' = regs
  BY <1>1, <1>2 DEF IInv, Types, Registers
<1>4. main.todo = <<>> /\ ~main.loaded
  BY <1>1 DEF IInv, MainInv, Disablers
<1>5. /\ main' \in Calls /\ main'.op = "resume" /\ main'.pin = p /\ main'.todo = <<>>
      /\ ~main'.loaded /\ main'.val = v /\ (main'.away <=> level[p] # pin_state[p])
  <2> DEFINE b == level[p] # pin_state[p]
             c == [[main EXCEPT !.op = "resume"] EXCEPT !.val = v]
  <2>1. [main EXCEPT !.op = "resume"] \in Calls
    BY CallFields DEF IInv, Types, Ops
  <2>2. v \in 0 .. 1 /\ b \in BOOLEAN
    OBVIOUS
  <2>3. c \in Calls
    BY <2>1, <2>2, CallFields
  <2>4. main' = [c EXCEPT !.away = b]
    BY <1>1
  <2>5. main' \in Calls
    BY <2>2, <2>3, <2>4, CallFields
  <2>6. c.pin = p /\ c.todo = main.todo /\ c.loaded = main.loaded /\ c.val = v /\ c.op = "resume"
    BY DEF IInv, Types, Calls
  <2> HIDE DEF b, c
  <2>7. /\ main'.op = "resume" /\ main'.pin = p /\ main'.todo = <<>>
        /\ ~main'.loaded /\ main'.val = v /\ (main'.away <=> b)
    BY <1>4, <2>2, <2>3, <2>4, <2>6 DEF Calls
  <2>8. QED
    BY <2>5, <2>7 DEF b
<1>6. Types' /\ MainInv' /\ IsrInv' /\ EnableInv' /\ LoadInv' /\ WakeInv'
  BY <1>1, <1>2, <1>3, <1>5 DEF IInv, Types, MainInv, IsrInv, EnableInv, LoadInv, WakeInv,
     Looped, Disablers
<1>7. SettledInv' /\ DisableInv' /\ EnablingInv' /\ WakingInv'
  BY <1>1, <1>3, <1>5 DEF IInv, SettledInv, DisableInv, EnablingInv, NotUnmasked, WakingInv,
     Waking, Disablers, ArmedPins, Awake
<1>8. PadInv'
  BY <1>1, <1>3, <1>5 DEF IInv, PadInv, Driven, Retained, Awake
<1>9. ResumeInv'
  <2>1. Both(p) => (v = 1 <=> level[p] = 0)
    BY <1>2 DEF Rising
  <2>2. Both(p)' <=> Both(p)
    BY <1>1 DEF Both
  <2>3. level[p] \in 0 .. 1 /\ pin_state[p] \in 0 .. 1
    BY <1>2 DEF IInv, Types
  <2>4. level[p] = 0 <=> (level[p] # pin_state[p] <=> pin_state[p] = 1)
    BY <2>3
  <2>5. Both(p) => (v = 1 <=> (main'.away <=> pin_state'[p] = 1))
    BY <1>1, <1>5, <2>1, <2>4
  <2> HIDE DEF v
  <2>6. QED
    BY <1>1, <1>5, <2>2, <2>5 DEF ResumeInv, Both
<1>10. QED
  BY <1>6, <1>7, <1>8, <1>9 DEF IInv

LEMMA ResumeStep ==
  ASSUME IInv, Resume
  PROVE  IInv'
<1> DEFINE p == main.pin
<1>1. /\ main.op = "resume" /\ isr.at = "off"
      /\ regs' = Armed(p, main.val = 1)
      /\ main' = [main EXCEPT !.op = "look", !.away = @ /\ level[p] = pin_state[p]]
      /\ UNCHANGED <<level, ctx, pin_state, aon, isr>>
  BY DEF Resume, At, MainRuns
<1>2. p \in Pins /\ p \in enable /\ main.todo = <<>> /\ ~main.loaded
  BY <1>1 DEF IInv, MainInv, WakingInv, Looped, Disablers
<1>3. /\ main' \in Calls /\ main'.op = "look" /\ main'.pin = p /\ main'.todo = <<>>
      /\ ~main'.loaded /\ (main'.away <=> main.away /\ level[p] = pin_state[p])
  <2> DEFINE b == main.away /\ level[p] = pin_state[p]
             c == [main EXCEPT !.op = "look"]
  <2>1. c \in Calls
    BY CallFields DEF IInv, Types, Ops
  <2>2. main' = [c EXCEPT !.away = b] /\ b \in BOOLEAN
    BY <1>1 DEF IInv, Types, Calls
  <2>3. main' \in Calls
    BY <2>1, <2>2, CallFields
  <2>4. c.pin = p /\ c.todo = main.todo /\ c.loaded = main.loaded /\ c.op = "look"
    BY DEF IInv, Types, Calls
  <2> HIDE DEF b, c
  <2>5. /\ main'.op = "look" /\ main'.pin = p /\ main'.todo = <<>>
        /\ ~main'.loaded /\ (main'.away <=> b)
    BY <1>2, <2>1, <2>2, <2>4 DEF Calls
  <2>6. QED
    BY <2>3, <2>5 DEF b
<1>4. /\ regs' \in [Registers -> SUBSET Pins]
      /\ regs'.mask = regs.mask \ {p} /\ regs'.inten = regs.inten \cup {p}
      /\ regs'.pol = With(regs.pol, p, main.val = 1)
      /\ regs'.ddr = regs.ddr /\ regs'.dr = regs.dr
  BY <1>1, <1>2, TypeOfArmed DEF IInv, Types
<1>5. Types' /\ MainInv' /\ IsrInv' /\ EnableInv' /\ LoadInv' /\ WakeInv'
  BY <1>1, <1>2, <1>3, <1>4 DEF IInv, Types, MainInv, IsrInv, EnableInv, LoadInv, WakeInv,
     Looped, Disablers, ctx
<1>6. SettledInv' /\ DisableInv' /\ EnablingInv'
  BY <1>3 DEF SettledInv, DisableInv, EnablingInv, NotUnmasked, Disablers, Awake
<1>7. WakingInv'
  <2>1. ASSUME NEW q \in Pins
        PROVE  /\ q < p => (q \in enable') = (q \in ArmedPins')
               /\ q > p => q \notin regs'.inten
    <3>1. q < p \/ q > p => q # p
      BY <1>2, PinsAreNaturals, PinOrder
    <3>2. QED
      BY <1>1, <1>4, <3>1 DEF IInv, WakingInv, Waking, ArmedPins, ctx
  <2>2. QED
    BY <1>1, <1>2, <1>3, <1>4, <2>1 DEF WakingInv, ArmedPins, ctx
<1>8. PadInv'
  BY <1>1, <1>3, <1>4 DEF IInv, PadInv, Driven, Retained, Awake, ctx
<1>9. ResumeInv'
  <2>1. p \in regs'.pol <=> main.val = 1
    BY <1>4 DEF With
  <2>2. (Both(p)' <=> Both(p)) /\ level' = level
    BY <1>1 DEF Both, ctx
  <2>3. Both(p) => (main.val = 1 <=> (main.away <=> pin_state[p] = 1))
    BY <1>1, <1>2 DEF IInv, ResumeInv
  <2>4. pin_state'[p] = pin_state[p] /\ pin_state[p] \in 0 .. 1
    BY <1>1, <1>2 DEF IInv, Types
  <2>5. Both(p) /\ ~main'.away => Leaves(p)' \/ level'[p] # pin_state'[p]
    BY <1>3, <2>1, <2>2, <2>3, <2>4 DEF Leaves
  <2>6. QED
    BY <1>3, <2>2, <2>5 DEF ResumeInv, Both
<1>10. QED
  BY <1>5, <1>6, <1>7, <1>8, <1>9 DEF IInv

LEMMA LookStep ==
  ASSUME IInv, Look
  PROVE  IInv'
<1> DEFINE p == main.pin
<1>1. /\ main.op = "look" /\ isr.at = "off"
      /\ main' = [main EXCEPT !.op = "call", !.val = Read(p)]
      /\ UNCHANGED <<level, ctx, pin_state, regs, aon, isr>>
  BY DEF Look, At, MainRuns
<1>2. p \in Pins /\ p \in enable /\ main.todo = <<>> /\ ~main.loaded
  BY <1>1 DEF IInv, MainInv, WakingInv, Looped, Disablers
<1>3. Read(p) = level[p] /\ level[p] \in 0 .. 1
  BY <1>2, EnabledReads
<1>4. /\ main' \in Calls /\ main'.op = "call" /\ main'.pin = p /\ main'.todo = <<>>
      /\ ~main'.loaded /\ main'.away = main.away /\ main'.val = level[p]
  <2>1. [main EXCEPT !.op = "call"] \in Calls
    BY CallFields DEF IInv, Types, Ops
  <2>2. main' \in Calls
    BY <1>1, <1>3, <2>1, CallFields
  <2>3. QED
    BY <1>1, <1>2, <1>3, <2>2 DEF IInv, Types, Calls
<1>5. Types' /\ MainInv' /\ IsrInv' /\ EnableInv' /\ LoadInv' /\ WakeInv'
  BY <1>1, <1>2, <1>4 DEF IInv, Types, MainInv, IsrInv, EnableInv, LoadInv, WakeInv,
     Looped, Disablers, ctx
<1>6. SettledInv' /\ DisableInv' /\ EnablingInv' /\ WakingInv'
  BY <1>1, <1>4 DEF IInv, SettledInv, DisableInv, EnablingInv, NotUnmasked, WakingInv,
     Waking, Disablers, ArmedPins, Awake, ctx
<1>7. PadInv'
  BY <1>1, <1>4 DEF IInv, PadInv, Driven, Retained, Awake, ctx
<1>8. ResumeInv'
  <2>1. (Both(p)' <=> Both(p)) /\ level' = level /\ regs' = regs
    BY <1>1 DEF Both, ctx
  <2>2. Both(p) /\ ~main.away => p \in regs.status \/ Leaves(p) \/ level[p] # pin_state[p]
    BY <1>1, <1>2 DEF IInv, ResumeInv
  <2>3. (Leaves(p)' <=> Leaves(p)) /\ pin_state'[p] = pin_state[p]
    BY <1>1 DEF Leaves
  <2>4. QED
    BY <1>4, <2>1, <2>2, <2>3 DEF ResumeInv, Both
<1>9. QED
  BY <1>5, <1>6, <1>7, <1>8 DEF IInv

(* hal_gpioin_wakeup_trigger: the callback may unregister the pin.         *)
LEMMA TriggerStep ==
  ASSUME IInv, Trigger
  PROVE  IInv'
<1> DEFINE p == main.pin
<1>1. /\ main.op = "call" /\ main' = GoTo("wake", p + 1)
      /\ UNCHANGED <<ctx, regs>> \/ Unregistered(p)
      /\ UNCHANGED <<level, pin_state, aon, isr>>
  BY DEF Trigger, Callback, At
<1>2. p \in Pins /\ p \in enable /\ p \in ArmedPins
  BY <1>1 DEF IInv, MainInv, WakingInv, Looped
<1>3. pin_assign[p] = "IN" /\ p \notin regs.ddr /\ p \notin aon.ret /\ hdl[p] # {}
  BY <1>2, EnabledReads DEF IInv, EnableInv
<1>4. /\ main' \in Calls /\ main'.op = "wake" /\ main'.pin = p + 1 /\ main'.todo = <<>>
      /\ ~main'.loaded
  BY <1>1, <1>2, GoToRecord, GpioAssumption DEF Ops, Pins
<1>5. CASE UNCHANGED <<ctx, regs>>
  <2>1. Types'
    BY <1>1, <1>4, <1>5 DEF IInv, Types, ctx
  <2>2. QED
    BY <1>1, <1>2, <1>3, <1>4, <1>5, <2>1, NextPinStep DEF ctx, ArmedPins
<1>6. CASE Unregistered(p)
  <2>1. /\ enable' = enable \ {p} /\ pin_assign' = [pin_assign EXCEPT ![p] = "IN"]
        /\ hdl' = [hdl EXCEPT ![p] = {}]
        /\ regs' = [regs EXCEPT !.ddr = @ \ {p}, !.mask = @ \cup {p}, !.inten = @ \ {p}]
    BY <1>6 DEF Unregistered, Release
  <2>2. /\ regs' \in [Registers -> SUBSET Pins]
        /\ regs'.ddr = regs.ddr \ {p} /\ regs'.mask = regs.mask \cup {p}
        /\ regs'.inten = regs.inten \ {p}
    BY <1>2, <2>1 DEF IInv, Types, Registers
  <2>3. Types'
    BY <1>1, <1>4, <2>1, <2>2 DEF IInv, Types
  <2>4. pin_assign'[p] = "IN" /\ p \notin enable' /\ p \notin ArmedPins' /\ p \notin regs'.ddr
    BY <1>2, <2>1, <2>2 DEF IInv, Types, ArmedPins
  <2>5. \A q \in Pins \ {p} :
           /\ q \in enable' <=> q \in enable
           /\ pin_assign'[q] = pin_assign[q] /\ hdl'[q] = hdl[q]
           /\ q \in regs'.inten <=> q \in regs.inten
           /\ q \in regs'.mask <=> q \in regs.mask
           /\ q \in regs'.ddr <=> q \in regs.ddr
           /\ q \in aon'.ret <=> q \in aon.ret
    BY <1>1, <2>1, <2>2 DEF IInv, Types
  <2>6. QED
    BY <1>1, <1>2, <1>3, <1>4, <2>3, <2>4, <2>5, NextPinStep
<1>7. QED
  BY <1>1, <1>5, <1>6

LEMMA AwokenStep ==
  ASSUME IInv, Awoken
  PROVE  IInv'
<1>1. /\ main.op = "wake" /\ isr.at = "off" /\ main.pin = NUMBER_OF_PINS
      /\ pin_state' = [p \in Pins |-> 0] /\ main' = Idle
      /\ UNCHANGED <<level, ctx, regs, aon, isr>>
  BY DEF Awoken, At, MainRuns
<1>2. /\ main' \in Calls /\ main'.op = "none" /\ main'.pin = 0 /\ main'.todo = <<>>
      /\ ~main'.loaded
  BY <1>1, IdleRecord
<1>3. \A p \in Pins : p < main.pin
  BY <1>1, GpioAssumption DEF Pins
<1>4. Types' /\ MainInv' /\ IsrInv' /\ EnableInv' /\ LoadInv' /\ WakeInv'
  BY <1>1, <1>2, GpioAssumption DEF IInv, Types, MainInv, IsrInv, EnableInv, LoadInv, WakeInv,
     Disablers, Pins, ctx
<1>5. SettledInv' /\ DisableInv' /\ EnablingInv' /\ WakingInv'
  BY <1>1, <1>2, <1>3 DEF IInv, SettledInv, DisableInv, EnablingInv, NotUnmasked, WakingInv,
     Waking, Disablers, ArmedPins, Awake, ctx
<1>6. PadInv' /\ ResumeInv'
  BY <1>1, <1>2, <1>3 DEF IInv, PadInv, Driven, ResumeInv, Awake, ctx
<1>7. QED
  BY <1>4, <1>5, <1>6 DEF IInv

(* An edge that is waited for is latched.                                  *)
LEMMA MoveStep ==
  ASSUME IInv, NEW p \in Pins, Move(p)
  PROVE  IInv'
<1>1. /\ pin_assign[p] # "OUT" /\ level' = [level EXCEPT ![p] = 1 - @]
      /\ regs' = IF p \in regs.inten /\ (p \in regs.pol) = (level'[p] = 1)
                 THEN [regs EXCEPT !.status = @ \cup {p}] ELSE regs
      /\ main' = IF main.op \in {"sleep", "note", "asleep"}
                 THEN [main EXCEPT !.moved = @ \cup {p}] ELSE main
      /\ UNCHANGED <<ctx, pin_state, aon, isr>>
  BY DEF Move
<1>2. /\ level' \in [Pins -> 0 .. 1] /\ level'[p] = 1 - level[p] /\ level[p] \in 0 .. 1
      /\ \A q \in Pins \ {p} : level'[q] = level[q]
  BY <1>1 DEF IInv, Types
<1>3. /\ regs' \in [Registers -> SUBSET Pins]
      /\ \A r \in Registers \ {"status"} : regs'[r] = regs[r]
      /\ \A q \in regs.status : q \in regs'.status
      /\ p \in regs.inten /\ (p \in regs.pol <=> level'[p] = 1) => p \in regs'.status
  <2>1. CASE p \in regs.inten /\ (p \in regs.pol) = (level'[p] = 1)
    <3>1. regs' = [regs EXCEPT !.status = @ \cup {p}]
      BY <1>1, <2>1
    <3>2. QED
      BY <3>1 DEF IInv, Types, Registers
  <2>2. CASE ~(p \in regs.inten /\ (p \in regs.pol) = (level'[p] = 1))
    BY <1>1, <2>2 DEF IInv, Types
  <2>3. QED
    BY <2>1, <2>2
<1>4. /\ main' \in Calls /\ main'.op = main.op /\ main'.pin = main.pin
      /\ main'.todo = main.todo /\ main'.tmp = main.tmp /\ main'.val = main.val
      /\ main'.loaded <=> main.loaded
      /\ main'.away <=> main.away
      /\ main.op \in {"sleep", "note", "asleep"} => main'.moved = main.moved \cup {p}
  <2>1. CASE main.op \in {"sleep", "note", "asleep"}
    <3>1. main' = [main EXCEPT !.moved = @ \cup {p}] /\ main.moved \cup {p} \in SUBSET Pins
      BY <1>1, <2>1 DEF IInv, Types, Calls
    <3>2. main' \in Calls
      BY <3>1, CallFields DEF IInv, Types
    <3>3. QED
      BY <3>1, <3>2 DEF IInv, Types, Calls
  <2>2. CASE main.op \notin {"sleep", "note", "asleep"}
    BY <1>1, <2>2 DEF IInv, Types
  <2>3. QED
    BY <2>1, <2>2
<1>5. main.op = "none" => main' = Idle
  BY <1>1 DEF IInv, MainInv
<1>6. Types' /\ IsrInv' /\ EnableInv' /\ LoadInv'
  BY <1>1, <1>2, <1>3, <1>4 DEF IInv, Types, IsrInv, EnableInv, LoadInv, Awake,
     Current, Registers, ctx
<1>11. WakeInv'
  <2>1. ASSUME main.op \in {"sleep", "note", "asleep"}, NEW q \in enable, EndsSleep(q)
        PROVE  EndsSleep(q)'
    <3>1. q \in Pins
      BY DEF IInv, Types
    <3>2. CASE q = p
      BY <1>1, <1>4, <2>1, <3>2 DEF EndsSleep
    <3>3. CASE q # p
      BY <1>1, <1>2, <1>4, <2>1, <3>1, <3>3 DEF EndsSleep
    <3>4. QED
      BY <3>2, <3>3
  <2>2. enable' = enable /\ pin_assign' = pin_assign /\ main'.op = main.op /\ main'.pin = main.pin
    BY <1>1, <1>4 DEF ctx
  <2>3. QED
    BY <2>1, <2>2 DEF IInv, WakeInv
<1>7. MainInv'
  BY <1>4, <1>5 DEF IInv, MainInv
<1>8. SettledInv' /\ DisableInv' /\ EnablingInv' /\ WakingInv'
  BY <1>1, <1>3, <1>4 DEF IInv, SettledInv, DisableInv, EnablingInv, NotUnmasked, WakingInv,
     Disablers, ArmedPins, Awake, Registers, ctx
<1>9. PadInv'
  BY <1>1, <1>3, <1>4 DEF IInv, PadInv, Driven, Retained, Awake, Bit, Registers, ctx
<1>10. (main.pin \in Pins => ResumeInv)'
  <2> SUFFICES ASSUME main.pin \in Pins, Both(main.pin)
               PROVE  ResumeInv'
    BY <1>1, <1>4 DEF ResumeInv, Both, ctx
  <2> DEFINE q == main.pin
  <2>1. /\ main'.op = main.op /\ main'.pin = q /\ main'.val = main.val
        /\ main'.away <=> main.away
        /\ pin_state' = pin_state /\ pin_state[q] \in 0 .. 1
        /\ (Both(q)' <=> Both(q)) /\ (Leaves(q)' <=> Leaves(q))
        /\ q \in regs.status => q \in regs'.status
    BY <1>1, <1>3, <1>4 DEF IInv, Types, Both, Leaves, Registers, ctx
  <2>2. /\ main.op = "resume" => (main.val = 1 <=> (main.away <=> pin_state[q] = 1))
        /\ main.op = "look" /\ ~main.away =>
             q \in regs.status \/ Leaves(q) \/ level[q] # pin_state[q]
        /\ main.op = "call" /\ ~main.away /\ main.val = pin_state[q] =>
             q \in regs.status \/ (Leaves(q) /\ level[q] = pin_state[q])
    BY DEF IInv, ResumeInv
  <2>3. main.op \in {"look", "call"} => q \in regs.inten
    BY DEF IInv, WakingInv, ArmedPins
  <2>4. CASE q # p
    <3>1. level'[q] = level[q]
      BY <1>2, <2>4
    <3>2. QED
      BY <2>1, <2>2, <3>1 DEF ResumeInv
  <2>5. CASE q = p
    <3>1. q \in regs.inten /\ ~Leaves(q) /\ level[q] # pin_state[q] => q \in regs'.status
      BY <1>2, <1>3, <2>1, <2>5 DEF Leaves
    <3>2. q \in regs.inten /\ Leaves(q) /\ level[q] = pin_state[q] => q \in regs'.status
      BY <1>2, <1>3, <2>1, <2>5 DEF Leaves
    <3>3. QED
      BY <2>1, <2>2, <2>3, <3>1, <3>2 DEF ResumeInv
  <2>6. QED
    BY <2>4, <2>5
<1>12. QED
  BY <1>6, <1>7, <1>8, <1>9, <1>10, <1>11 DEF IInv

-----------------------------------------------------------------------------
LEMMA NextInvariant ==
  ASSUME IInv, [Next]_vars
  PROVE  IInv'
<1>1. CASE UNCHANGED vars
  <2>1. UNCHANGED <<level, pin_assign, enable, hdl, pin_state, regs, aon, main, isr>>
    BY <1>1 DEF vars, ctx
  <2>2. Types' /\ MainInv' /\ IsrInv' /\ EnableInv' /\ SettledInv' /\ DisableInv'
    BY <2>1 DEF IInv, Types, MainInv, IsrInv, EnableInv, SettledInv, DisableInv, ArmedPins,
       Awake, Current
  <2>3. EnablingInv' /\ WakingInv' /\ LoadInv' /\ PadInv' /\ WakeInv'
    BY <2>1 DEF IInv, EnablingInv, NotUnmasked, WakingInv, LoadInv, PadInv, Driven, Retained,
       WakeInv, EndsSleep, ArmedPins, Awake, Bit
  <2>4. (main.pin \in Pins => ResumeInv)'
    BY <2>1 DEF IInv, ResumeInv, Both, Leaves
  <2>5. QED
    BY <2>2, <2>3, <2>4 DEF IInv
<1>2. CASE Main
  <2>1. CASE \E p \in Pins : \/ \E h \in Handlers : Call("register", p, h)
                             \/ Call("unregister", p, {}) \/ Call("disable", p, {})
    <3>1. PICK o \in Disablers, p \in Pins, h \in SUBSET Edges : Call(o, p, h)
      BY <2>1, GpioAssumption DEF Disablers
    <3>2. QED
      BY <3>1, CallStep
  <2>2. CASE \E p \in Pins : Enable(p)
    BY <2>2, EnableStep
  <2>3. CASE \E p \in Outputs : \/ RetentionRegister(p) \/ RetentionUnregister(p)
                                \/ \E on \in BOOLEAN : Write(p, on)
    BY <2>3, OutputStep, GpioAssumption
  <2>4. QED
    BY <1>2, <2>1, <2>2, <2>3, LoadStep, StoreStep, SetHandlersStep, ArmStep, DoneStep DEF Main
<1>3. CASE Rom
  <2>1. CASE Skip
    BY <2>1, SleepPinStep, WakeSkipStep DEF Skip
  <2>2. QED
    BY <1>3, <2>1, SleepStep, SleepPinStep, PowerDownStep, WakeOutStep, EndRetentionStep,
       WakeInStep, ResumeStep, LookStep, TriggerStep, AwokenStep DEF Rom
<1>4. CASE Isr
  BY <1>4, IsrEnterStep, IsrEventStep, IsrArmStep DEF Isr
<1>5. CASE \E p \in Pins : Move(p)
  BY <1>5, MoveStep
<1>6. QED
  BY <1>1, <1>2, <1>3, <1>4, <1>5 DEF Next

(* The inductive invariant holds in every reachable state, whatever the    *)
(* number of pins, the outputs and the handlers.                           *)
THEOREM Invariance == Spec => []IInv
<1>1. Init => IInv
  BY InitInvariant
<1>2. IInv /\ [Next]_vars => IInv'
  BY NextInvariant
<1>3. QED
  BY <1>1, <1>2, PTL DEF Spec

LEMMA TodosAreSteps ==
  \A t \in Todos : t \in Seq(Rmw) /\ Len(t) <= 3
<1>1. \A on \in BOOLEAN : Mask(on) \in Rmw /\ Pol(on) \in Rmw /\ Inten(on) \in Rmw
  BY DEF Mask, Pol, Inten, Rmw
<1>2. ASSUME NEW t \in Todos
      PROVE  \/ t = <<>>
             \/ \E a \in Rmw : t = <<a>>
             \/ \E a, b \in Rmw : t = <<a, b>>
             \/ \E a, b, c \in Rmw : t = <<a, b, c>>
  <2>1. CASE t = Disabling
    <3>1. t = <<Mask(TRUE), Inten(FALSE)>>
      BY <2>1, Zenon DEF Disabling, Mask, Inten
    <3>2. QED
      BY <1>1, <3>1, Zenon
  <2>2. CASE t = ToClear
    BY <1>1, <2>2, Zenon DEF ToClear
  <2>3. CASE t = ToSet
    BY <1>1, <2>3, Zenon DEF ToSet
  <2>4. CASE t \in EnablingLists
    <3>1. PICK rising \in BOOLEAN : t = Enabling(rising)
      BY <2>4 DEF EnablingLists
    <3>2. t = <<Mask(FALSE), Pol(rising), Inten(TRUE)>>
      BY <3>1, Zenon DEF Enabling, Mask, Pol, Inten
    <3>3. QED
      BY <1>1, <3>2, Zenon
  <2>5. CASE t \in PolLists
    <3>1. PICK rising \in BOOLEAN : t = ToPol(rising)
      BY <2>5 DEF PolLists
    <3>2. QED
      BY <1>1, <3>1, Zenon DEF ToPol
  <2>6. QED
    BY <2>1, <2>2, <2>3, <2>4, <2>5 DEF Todos
<1>3. ASSUME NEW t \in Todos
      PROVE  t \in Seq(Rmw) /\ Len(t) <= 3
  <2>1. CASE t = <<>>
    BY <2>1
  <2>2. CASE \E a \in Rmw : t = <<a>>
    BY <2>2
  <2>3. CASE \E a, b \in Rmw : t = <<a, b>>
    BY <2>3
  <2>4. CASE \E a, b, c \in Rmw : t = <<a, b, c>>
    BY <2>4
  <2>5. QED
    BY <1>2, <2>1, <2>2, <2>3, <2>4
<1>4. QED
  BY <1>3

(* Every variable keeps to its type, and no call has more than three       *)
(* registers left to change.                                               *)
THEOREM TypeCorrect == Spec => []TypeOK
<1>1. IInv => TypeOK
  <2> SUFFICES ASSUME IInv PROVE TypeOK
    OBVIOUS
  <2>1. main.todo \in Seq(Rmw) /\ Len(main.todo) <= 3
    BY TodosAreSteps DEF IInv, Types, Calls
  <2>2. QED
    BY <2>1 DEF IInv, Types, Registers, Retentions, Calls, Services, TypeOK
<1>2. QED
  BY <1>1, Invariance, PTL

(* A pin without a handler raises no interrupt: what the callback of an    *)
(* interrupt undoes of a call it preempted, the other register makes up.   *)
THEOREM NoHandlerNoInterrupt == Spec => []UnregisteredIsSilent
<1>1. IInv => UnregisteredIsSilent
  BY Silent DEF UnregisteredIsSilent, ArmedPins
<1>2. QED
  BY <1>1, Invariance, PTL

(* An enabled pin raises interrupts, except while its own call runs.       *)
THEOREM EnabledStaysArmed == Spec => []EnabledIsArmed
<1>1. IInv => EnabledIsArmed
  BY DEF IInv, SettledInv, ArmedPins, EnabledIsArmed, Settled
<1>2. QED
  BY <1>1, Invariance, PTL

(* When the chip sleeps, each enabled pin can wake it.                     *)
THEOREM EnabledPinsWake == Spec => []EnabledEndsSleep
<1>1. IInv => EnabledEndsSleep
  BY DEF IInv, WakeInv, EnabledEndsSleep
<1>2. QED
  BY <1>1, Invariance, PTL

-----------------------------------------------------------------------------
(* A pad that is an output shows what is retained or what is driven.       *)
OutputPads ==
  \A p \in Pins : pin_assign[p] = "OUT" =>
    Pad(p) = IF p \in aon.ret THEN aon.held[p] ELSE Bit(regs.dr, p)

LEMMA OutputPad == IInv => OutputPads
<1> SUFFICES ASSUME IInv, NEW p \in Pins, pin_assign[p] = "OUT"
             PROVE  Pad(p) = IF p \in aon.ret THEN aon.held[p] ELSE Bit(regs.dr, p)
  BY DEF OutputPads
<1>1. p \in regs.ddr \/ p \in aon.ret
  <2>1. CASE Awake \/ main.op \in {"sleep", "note", "asleep", "wake", "resume", "look", "call"}
    BY <2>1 DEF IInv, PadInv, Driven, Retained
  <2>2. CASE main.op = "release" /\ p # main.pin
    <3>1. main.pin \in Nat /\ p \in Nat
      BY <2>2, PinsAreNaturals DEF IInv, MainInv, Looped
    <3>2. p < main.pin \/ p > main.pin
      BY <2>2, <3>1, PinOrder
    <3>3. QED
      BY <2>2, <3>2 DEF IInv, PadInv, Driven, Retained
  <2>3. CASE main.op = "release" /\ p = main.pin
    BY <2>3 DEF IInv, PadInv
  <2>4. QED
    BY <2>1, <2>2, <2>3 DEF IInv, Types, Calls, Ops, Awake
<1>2. QED
  BY <1>1 DEF Pad

LEMMA OutputPadNext == IInv' => OutputPads'
BY OutputPad, PTL

(* Which steps write the levels that are driven or retained.               *)
Quiet == regs'.dr = regs.dr /\ aon'.ret = aon.ret /\ aon'.held = aon.held

LEMMA QuietSteps ==
  ASSUME IInv, Next
  PROVE  \/ Quiet
         \/ \E p \in Outputs, on \in BOOLEAN : Write(p, on)
         \/ SleepOut \/ PowerDown \/ WakeOut \/ EndRetention
<1>1. CASE Main
  <2>1. CASE Load \/ SetHandlers \/ Arm \/ Done
    BY <2>1 DEF Load, SetHandlers, Arm, Done, Claim, IInv, Types, Registers, Quiet
  <2>2. CASE Store
    <3>1. /\ aon' = aon /\ main.todo # <<>>
          /\ regs' = [regs EXCEPT ![Head(main.todo).reg]
                        = With(main.tmp, main.pin, Head(main.todo).set)]
      BY <2>2 DEF Store
    <3>2. Head(main.todo).reg \in {"mask", "pol", "inten"}
      BY <3>1, Lists DEF IInv, Types, Calls, Todos
    <3>3. QED
      BY <3>1, <3>2 DEF IInv, Types, Registers, Quiet
  <2>3. CASE \E p \in Pins : \/ \E h \in Handlers : Call("register", p, h)
                             \/ Call("unregister", p, {}) \/ Call("disable", p, {})
                             \/ Enable(p)
    BY <2>3 DEF Call, Enable, Claim, IInv, Types, Registers, Quiet
  <2>4. CASE \E p \in Outputs : RetentionRegister(p) \/ RetentionUnregister(p)
    BY <2>4 DEF RetentionRegister, RetentionUnregister, IInv, Types, Registers, Quiet
  <2>5. QED
    BY <1>1, <2>1, <2>2, <2>3, <2>4 DEF Main
<1>2. CASE Rom
  <2>1. CASE Sleep \/ Note \/ Skip \/ Look \/ Awoken
    BY <2>1 DEF Sleep, Note, Skip, Look, Awoken, Quiet
  <2>2. CASE SleepIn \/ WakeUp
    BY <2>2 DEF SleepIn, WakeUp, IInv, Types, Retentions, Quiet
  <2>3. CASE WakeIn
    BY <2>3 DEF WakeIn, Claim, IInv, Types, Registers, Quiet
  <2>4. CASE Resume
    <3>1. main.pin \in Pins
      BY <2>4 DEF Resume, At, IInv, MainInv, Looped
    <3>2. QED
      BY <2>4, <3>1, TypeOfArmed DEF Resume, IInv, Types, Quiet
  <2>5. CASE Trigger
    BY <2>5 DEF Trigger, Callback, Unregistered, IInv, Types, Registers, Quiet
  <2>6. QED
    BY <1>2, <2>1, <2>2, <2>3, <2>4, <2>5 DEF Rom
<1>3. CASE Isr
  <2>1. CASE IsrEnter
    BY <2>1 DEF IsrEnter, IInv, Types, Registers, Quiet
  <2>2. CASE IsrEvent
    BY <2>2 DEF IsrEvent, Callback, Unregistered, IInv, Types, Registers, Quiet
  <2>3. CASE IsrArm
    <3>1. Current \in Pins
      BY <2>3, CurrentIsServed, PinsAreNaturals
         DEF IsrArm, IInv, Types, Services, IsrInv, Current
    <3>2. regs' = regs \/ \E rising : regs' = Armed(Current, rising)
      BY <2>3 DEF IsrArm
    <3>3. regs'.dr = regs.dr
      BY <3>1, <3>2, TypeOfArmed DEF IInv, Types
    <3>4. QED
      BY <2>3, <3>3 DEF IsrArm, Quiet
  <2>4. QED
    BY <1>3, <2>1, <2>2, <2>3 DEF Isr
<1>4. CASE \E p \in Pins : Move(p)
  BY <1>4 DEF Move, IInv, Types, Registers, Quiet
<1>5. QED
  BY <1>1, <1>2, <1>3, <1>4 DEF Next


LEMMA OutputStaysPut ==
  ASSUME IInv, Next, NEW p \in Pins, pin_assign[p] = "OUT", pin_assign'[p] = "OUT",
         ~(main = Idle /\ main' = Idle /\ regs'.dr # regs.dr)
  PROVE  Pad(p)' = Pad(p)
<1>1. Pad(p) = IF p \in aon.ret THEN aon.held[p] ELSE Bit(regs.dr, p)
  BY OutputPad DEF OutputPads
<1>2. Pad(p)' = IF p \in aon'.ret THEN aon'.held[p] ELSE Bit(regs'.dr, p)
  BY NextInvariant, OutputPadNext DEF OutputPads
<1>3. CASE Quiet
  BY <1>1, <1>2, <1>3 DEF Quiet, Bit
<1>4. CASE \E q \in Outputs, on \in BOOLEAN : Write(q, on)
  <2>1. main.op = "none" /\ main' = main /\ aon' = aon
    BY <1>4 DEF Write, At
  <2>2. main = Idle
    BY <2>1 DEF IInv, MainInv
  <2>3. QED
    BY <1>1, <1>2, <2>1, <2>2 DEF Bit
<1>5. CASE SleepOut
  <2> DEFINE h == [aon.held EXCEPT ![main.pin] = Pad(main.pin)]
             r == aon.ret \cup {main.pin}
  <2>1. /\ aon' = [aon EXCEPT !.ret = r, !.held = h]
        /\ main.pin \in Pins /\ regs' = regs
    BY <1>5, GpioAssumption DEF SleepOut, Turn, Pins, IInv, Types, Calls
  <2>2. aon'.ret = aon.ret \cup {main.pin} /\ aon'.held = h
    BY <2>1 DEF IInv, Types, Retentions
  <2>3. aon'.held[p] = IF p = main.pin THEN Pad(p) ELSE aon.held[p]
    BY <2>1, <2>2 DEF IInv, Types, Retentions
  <2>4. CASE p = main.pin
    BY <1>2, <2>2, <2>3, <2>4
  <2>5. CASE p # main.pin
    BY <1>1, <1>2, <2>1, <2>2, <2>3, <2>5
  <2>6. QED
    BY <2>4, <2>5
<1>6. CASE PowerDown
  <2>1. main.op = "sleep" /\ main.pin = NUMBER_OF_PINS /\ aon' = aon
    BY <1>6 DEF PowerDown, At
  <2>2. p < main.pin
    BY <2>1, GpioAssumption DEF Pins
  <2>3. p \in aon.ret
    BY <2>1, <2>2 DEF IInv, PadInv
  <2>4. QED
    BY <1>1, <1>2, <2>1, <2>3
<1>7. CASE WakeOut
  <2> DEFINE new == With(regs.dr, main.pin, Read(main.pin) = 1)
  <2>1. /\ main.op = "wake" /\ main.pin \in Pins /\ aon' = aon
        /\ regs' = [regs EXCEPT !.dr = new, !.ddr = @ \cup {main.pin}]
        /\ pin_assign[main.pin] = "OUT"
    BY <1>7, GpioAssumption DEF WakeOut, Turn, At, Pins, IInv, Types, Calls
  <2>2. CASE p = main.pin
    <3>1. ~(p < main.pin)
      BY <2>1, <2>2, PinsAreNaturals, PinOrder
    <3>2. p \in aon.ret
      BY <2>1, <2>2, <3>1 DEF IInv, PadInv, Retained
    <3>3. QED
      BY <1>1, <1>2, <2>1, <3>2
  <2>3. CASE p # main.pin
    <3>1. regs'.dr = new
      BY <2>1 DEF IInv, Types, Registers
    <3>2. p \in regs'.dr <=> p \in regs.dr
      BY <2>3, <3>1 DEF With
    <3>3. QED
      BY <1>1, <1>2, <2>1, <3>2 DEF Bit
  <2>4. QED
    BY <2>2, <2>3
<1>8. CASE EndRetention
  <2> DEFINE h == [aon.held EXCEPT ![main.pin] = 0]
             r == aon.ret \ {main.pin}
  <2>1. /\ main.op = "release" /\ main.pin \in Pins /\ regs' = regs
        /\ aon' = [aon EXCEPT !.ret = r, !.held = h]
    BY <1>8 DEF EndRetention, At, IInv, MainInv, Looped
  <2>2. aon'.ret = r /\ aon'.held = h
    BY <2>1 DEF IInv, Types, Retentions
  <2>3. CASE p = main.pin
    <3>1. p \in aon.ret /\ aon.held[p] = Bit(regs.dr, p)
      BY <2>1, <2>3 DEF IInv, PadInv
    <3>2. QED
      BY <1>1, <1>2, <2>1, <2>2, <2>3, <3>1
  <2>4. CASE p # main.pin
    <3>1. (p \in aon'.ret <=> p \in aon.ret) /\ aon'.held[p] = aon.held[p]
      BY <2>1, <2>2, <2>4 DEF IInv, Types, Retentions
    <3>2. QED
      BY <1>1, <1>2, <2>1, <3>1
  <2>5. QED
    BY <2>3, <2>4
<1>9. QED
  BY <1>3, <1>4, <1>5, <1>6, <1>7, <1>8, QuietSteps

(* An output keeps its level, whatever the program, the interrupts and     *)
(* the sleeps do: only hal_gpio_write changes it.                          *)
THEOREM OutputsKeepTheirLevel == Spec => OutputsHold
<1>1. IInv /\ [Next]_vars =>
        [\A p \in Pins :
           pin_assign[p] = "OUT" /\ pin_assign'[p] = "OUT" /\ Pad(p)' # Pad(p)
             => main = Idle /\ main' = Idle /\ regs'.dr # regs.dr]_vars
  BY OutputStaysPut
<1>2. QED
  BY <1>1, Invariance, PTL DEF Spec, OutputsHold

(* An input that reports both edges and is not, at the end of its wake-up, *)
(* at the level the sleep handler remembered is reported then or latched   *)
(* for the interrupt handler, unless it was away from that level when its  *)
(* edge was chosen and back when the edge was waited for.                  *)
THEOREM OnlyPulsesAreMissed == Spec => SleepMissesNothing
<1> DEFINE Reported(p) ==
      main.op = "call" /\ main'.op = "wake" /\ main.pin = p /\ hdl'[p] = Edges /\ ~main.away
        => ~Misses(p)
<1>1. IInv /\ Next => \A p \in Pins : Reported(p)
  <2> SUFFICES ASSUME IInv, Next, NEW p \in Pins,
                      main.op = "call", main'.op = "wake", main.pin = p, hdl'[p] = Edges,
                      ~main.away
               PROVE  ~Misses(p)
    OBVIOUS
  <2>1. main.todo = <<>> /\ isr.at = "off" /\ main.op \notin {"none", "wake", "sleep"}
    BY DEF IInv, MainInv, IsrInv, Disablers, Awake
  <2>2. Trigger
    <3>1. ~Main
      BY <2>1 DEF Main, Load, Store, SetHandlers, Arm, Done, Call, Enable, RetentionRegister,
         RetentionUnregister, Write, At
    <3>2. ~Isr
      BY <2>1 DEF Isr, IsrEnter, IsrEvent, IsrArm, Awake
    <3>3. ~\E q \in Pins : Move(q)
      BY DEF Move, IInv, Types, Calls
    <3>4. Rom => Trigger
      BY <2>1 DEF Rom, Sleep, SleepOut, SleepIn, Note, PowerDown, Skip, WakeUp, WakeOut,
         EndRetention, WakeIn, Resume, Look, Awoken, Turn, At
    <3>5. QED
      BY <3>1, <3>2, <3>3, <3>4 DEF Next
  <2>3. hdl[p] = Edges
    <3>1. hdl' = hdl \/ hdl' = [hdl EXCEPT ![p] = {}]
      BY <2>2 DEF Trigger, Callback, Unregistered, ctx
    <3>2. Edges # {}
      BY DEF Edges
    <3>3. QED
      BY <3>1, <3>2 DEF IInv, Types
  <2>4. QED
    BY <2>3 DEF IInv, ResumeInv, Both, Misses
<1>2. IInv /\ [Next]_vars => [\A p \in Pins : Reported(p)]_vars
  BY <1>1
<1>3. QED
  BY <1>2, Invariance, PTL DEF Spec, SleepMissesNothing
=============================================================================
