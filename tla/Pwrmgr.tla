------------------------------- MODULE Pwrmgr -------------------------------
(***************************************************************************)
(* The table of components/pwrmgr.c: the modules that are registered, the  *)
(* locks they hold, and the gate that lets the ROM put the chip to sleep.  *)
(*                                                                         *)
(* Registering and unregistering run in the main program and search the    *)
(* table outside the critical section; locking and unlocking are atomic    *)
(* and may come from an interrupt handler between any two of their steps.  *)
(***************************************************************************)
EXTENDS Integers, FiniteSets

CONSTANTS
  Module,     \* the modules that use the power manager
  MOD_NONE,   \* what an unused entry holds
  Max,        \* HAL_PWRMGR_TASK_MAX_NUM
  NoSleep     \* the build never sleeps: mPwrMode is one of the NO_SLEEP modes

ASSUME PwrmgrAssumption ==
  /\ MOD_NONE \notin Module
  /\ Max \in Nat \ {0}
  /\ NoSleep \in BOOLEAN

VARIABLES
  mCtx,       \* the table
  sleep,      \* the ROM's gate: what enableSleep and disableSleep set
  call,       \* the registration or removal that is under way
  held        \* the modules whose last lock succeeded: the callers' view

vars == <<mCtx, sleep, call, held>>

Slots == 0 .. Max - 1
Free == [mod |-> MOD_NONE, lock |-> FALSE]
NoCall == [op |-> "none", mod |-> MOD_NONE, at |-> 0]

TypeOK ==
  /\ mCtx \in [Slots -> [mod : Module \cup {MOD_NONE}, lock : BOOLEAN]]
  /\ sleep \in BOOLEAN
  /\ call \in [op : {"none", "register", "name", "unregister"},
               mod : Module \cup {MOD_NONE}, at : Slots]
  /\ held \subseteq Module

-----------------------------------------------------------------------------
(* The searches.  Each stops at the first entry that holds m or none.      *)

Reached(i, m) == \A j \in 0 .. i - 1 : mCtx[j].mod \notin {MOD_NONE, m}
Found(m) == {i \in Slots : mCtx[i].mod = m /\ Reached(i, m)}

(* Slip: the entry the loop stops at, without the test for a full table.   *)
FirstFreeUnchecked(m) ==
  IF \A i \in Slots : mCtx[i].mod \notin {MOD_NONE, m}
  THEN {Max}
  ELSE {i \in Slots : mCtx[i].mod = MOD_NONE /\ Reached(i, m)}

FirstFree(m) == {i \in Slots : mCtx[i].mod = MOD_NONE /\ Reached(i, m)}

InUse == {i \in Slots : \A j \in 0 .. i : mCtx[j].mod # MOD_NONE}

IsLocked(m) == NoSleep \/ \E i \in Found(m) : mCtx[i].lock

-----------------------------------------------------------------------------
Init ==
  /\ mCtx = [i \in Slots |-> Free]
  /\ sleep = ~NoSleep
  /\ call = NoCall
  /\ held = {}

(* hal_pwrmgr_lock: the first entry only.                                  *)
Lock(m) ==
  /\ IF NoSleep
     THEN /\ sleep' = FALSE
          /\ UNCHANGED <<mCtx, held>>
     ELSE \E i \in Found(m) :
            /\ mCtx' = [mCtx EXCEPT ![i].lock = TRUE]
            /\ sleep' = FALSE
            /\ held' = held \cup {m}
  /\ UNCHANGED call

(* Slip: the locks of all modules are cleared.                             *)
ClearedAll(m) ==
  [i \in Slots |-> IF i \in InUse THEN [mCtx[i] EXCEPT !.lock = FALSE] ELSE mCtx[i]]

(* The table as hal_pwrmgr_unlock leaves it: every entry of m is cleared.  *)
Cleared(m) ==
  [i \in Slots |->
     IF i \in InUse /\ mCtx[i].mod = m THEN [mCtx[i] EXCEPT !.lock = FALSE]
                                       ELSE mCtx[i]]

(* Slip: the loop ends at the module's own entry, as hal_pwrmgr_lock's does. *)
UnlockStops(m) ==
  /\ mCtx' = Cleared(m)
  /\ sleep' = \A i \in InUse :
                (\A k \in Found(m) : i <= k) => ~Cleared(m)[i].lock
  /\ held' = held \ {m}
  /\ UNCHANGED call

(* Slip: the locks are counted before the module's own is cleared.         *)
UnlockCountsOwn(m) ==
  /\ mCtx' = Cleared(m)
  /\ sleep' = \A i \in InUse : ~mCtx[i].lock
  /\ held' = held \ {m}
  /\ UNCHANGED call

(* hal_pwrmgr_unlock: the gate opens when no lock is left.                 *)
Unlock(m) ==
  /\ IF NoSleep
     THEN /\ sleep' = FALSE
          /\ UNCHANGED <<mCtx, held>>
     ELSE /\ mCtx' = Cleared(m)
          /\ sleep' = \A i \in InUse : ~Cleared(m)[i].lock
          /\ held' = held \ {m}
  /\ UNCHANGED call

(* hal_pwrmgr_register, step by step: find the entry, clear its lock, name *)
(* it.  A module that is there already, or a full table, is refused.       *)
Register(m) ==
  /\ call = NoCall
  /\ \E i \in FirstFree(m) : call' = [op |-> "register", mod |-> m, at |-> i]
  /\ UNCHANGED <<mCtx, sleep, held>>

ClearLock ==
  /\ call.op = "register"
  /\ mCtx' = [mCtx EXCEPT ![call.at].lock = FALSE]
  /\ call' = [call EXCEPT !.op = "name"]
  /\ UNCHANGED <<sleep, held>>

Name ==
  /\ call.op = "name"
  /\ mCtx' = [mCtx EXCEPT ![call.at].mod = call.mod]
  /\ call' = NoCall
  /\ UNCHANGED <<sleep, held>>

(* hal_pwrmgr_unregister: find the entry, then move the ones behind it up. *)
(* The last entry keeps what it held, and the gate is left alone.          *)
Unregister(m) ==
  /\ call = NoCall
  /\ \E i \in Found(m) : call' = [op |-> "unregister", mod |-> m, at |-> i]
  /\ UNCHANGED <<mCtx, sleep, held>>

(* Slip: the entry is emptied where it is.                                 *)
Emptied(at) == [mCtx EXCEPT ![at] = Free]

(* Slip: one entry too few is moved.                                       *)
MovedShort(at) ==
  [i \in Slots |-> IF i >= at /\ i < Max - 2 THEN mCtx[i + 1] ELSE mCtx[i]]

Moved(at) ==
  [i \in Slots |-> IF i >= at /\ i < Max - 1 THEN mCtx[i + 1] ELSE mCtx[i]]

Close ==
  /\ call.op = "unregister"
  /\ mCtx' = Moved(call.at)
  /\ call' = NoCall
  /\ held' = held \ {call.mod}
  /\ UNCHANGED sleep

Next ==
  \/ \E m \in Module : Lock(m) \/ Unlock(m) \/ Register(m) \/ Unregister(m)
  \/ ClearLock \/ Name \/ Close

Spec == Init /\ [][Next]_vars
-----------------------------------------------------------------------------
(* The gate is only open when no module's lock is set: not one taken by an *)
(* interrupt handler in the middle of a registration, nor one of an entry  *)
(* that was moved (pwrmgr.c:100, 131, 162).                                *)
GateRespectsLocks == sleep => \A m \in Module : ~IsLocked(m)

(* A lock that was granted is there until its own module gives it back or  *)
(* leaves: removing or registering another one does not lose it            *)
(* (pwrmgr.c:209, 247).                                                    *)
HeldIsLocked == \A m \in held : IsLocked(m)

(* Every loop over the table stops at the first free entry, so there is    *)
(* nothing in it or behind it, and no lock (pwrmgr.c:114, 145, 178, 270).  *)
Compact ==
  \A i, j \in Slots : i <= j /\ mCtx[i].mod = MOD_NONE => mCtx[j] = Free

(* While the last entry is free, each module has at most one entry: its    *)
(* handlers run once, and a module that was removed is gone (pwrmgr.c:204, *)
(* 247).  A table that was full once keeps its last entry for ever.        *)
NoDuplicates ==
  mCtx[Max - 1] = Free =>
    \A i, j \in Slots : mCtx[i].mod = mCtx[j].mod /\ i # j => mCtx[i] = Free

(* When the last lock is given back the gate opens, whatever else was      *)
(* registered or removed meanwhile (pwrmgr.c:187), while the last entry is *)
(* free.                                                                   *)
LastUnlockOpens ==
  [][mCtx[Max - 1] = Free /\ held # {} /\ held' = {} /\ UNCHANGED call => sleep']_vars

(* What the main program has found out about the table still holds when it *)
(* acts on it.                                                             *)
CallInv ==
  /\ call.op \in {"register", "name"} =>
       call.mod \in Module /\ call.at \in FirstFree(call.mod)
  /\ call.op = "name" => ~mCtx[call.at].lock
  /\ call.op = "unregister" => call.mod \in Module /\ call.at \in Found(call.mod)

(* The gate is only open when no entry at all is locked, and a granted     *)
(* lock is on the entry that is found first.                               *)
GateInv == sleep => ~NoSleep /\ \A i \in Slots : ~mCtx[i].lock
HeldInv == \A m \in held : \E i \in Found(m) : mCtx[i].lock

(* GateRespectsLocks and HeldIsLocked with what makes them inductive.      *)
IInv == TypeOK /\ Compact /\ CallInv /\ GateInv /\ HeldInv
=============================================================================
