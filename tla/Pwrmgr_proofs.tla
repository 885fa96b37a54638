---------------------------- MODULE Pwrmgr_proofs ----------------------------
(***************************************************************************)
(* Proofs about Pwrmgr, for any set of modules and any size of the table.  *)
(***************************************************************************)
EXTENDS Pwrmgr, TLAPS

LEMMA InitInvariant == Init => IInv
<1> SUFFICES ASSUME Init PROVE IInv
  OBVIOUS
<1>1. TypeOK
  BY PwrmgrAssumption DEF Init, TypeOK, NoCall, Free, Slots
<1>2. Compact
  BY DEF Init, Compact
<1>3. CallInv
  BY DEF Init, CallInv, NoCall
<1>4. \A i \in Slots : ~mCtx[i].lock
  BY DEF Init, Free
<1>5. GateInv
  <2>1. sleep = ~NoSleep
    BY DEF Init
  <2>2. QED
    BY <1>4, <2>1, Zenon DEF GateInv
<1>6. HeldInv
  BY DEF Init, HeldInv
<1>7. QED
  BY <1>1, <1>2, <1>3, <1>5, <1>6 DEF IInv

(* Where a module is found does not depend on the locks.                   *)
LEMMA SameNames ==
  ASSUME NEW m, \A i \in Slots : mCtx'[i].mod = mCtx[i].mod
  PROVE  Found(m)' = Found(m) /\ FirstFree(m)' = FirstFree(m)
BY PwrmgrAssumption DEF Found, FirstFree, Reached, Slots

(* A locked entry is one the loops reach.                                  *)
LEMMA LockedInUse ==
  ASSUME TypeOK, Compact, NEW i \in Slots, mCtx[i].lock
  PROVE  i \in InUse
BY PwrmgrAssumption DEF TypeOK, Compact, InUse, Free, Slots

LEMMA LockStep ==
  ASSUME IInv, NEW m \in Module, Lock(m)
  PROVE  IInv'
<1>1. CASE NoSleep
  BY <1>1 DEF Lock, IInv, TypeOK, Compact, CallInv, GateInv, HeldInv, Found, FirstFree,
              Reached
<1>2. CASE ~NoSleep
  <2>1. PICK k \in Found(m) : /\ mCtx' = [mCtx EXCEPT ![k].lock = TRUE]
                              /\ sleep' = FALSE
                              /\ held' = held \cup {m}
    BY <1>2 DEF Lock
  <2>2. k \in Slots /\ mCtx[k].mod = m /\ UNCHANGED call
    BY <2>1 DEF Found, Lock
  <2>3. TypeOK'
    BY <2>1, <2>2 DEF IInv, TypeOK
  <2>4. /\ \A i \in Slots : mCtx'[i].mod = mCtx[i].mod
        /\ \A i \in Slots : i # k => mCtx'[i] = mCtx[i]
        /\ mCtx'[k].lock
    BY <2>1, <2>2 DEF IInv, TypeOK
  <2>5. Compact'
    <3>1. ASSUME NEW i \in Slots, NEW j \in Slots, i <= j, mCtx'[i].mod = MOD_NONE
          PROVE  mCtx'[j] = Free
      <4>1. mCtx[j] = Free
        BY <2>4, <3>1 DEF IInv, Compact
      <4>2. j # k
        BY <2>2, <4>1, PwrmgrAssumption DEF Free
      <4>3. QED
        BY <2>4, <4>1, <4>2
    <3>2. QED
      BY <3>1 DEF Compact
  <2>6. CallInv'
    <3>1. call.op = "name" => call.at # k
      BY <2>2, PwrmgrAssumption DEF IInv, CallInv, FirstFree
    <3>2. QED
      BY <2>2, <2>4, <3>1, SameNames DEF IInv, CallInv, TypeOK
  <2>7. GateInv'
    BY <2>1 DEF GateInv
  <2>8. HeldInv'
    <3>1. ASSUME NEW n \in held' PROVE \E i \in Found(n) : mCtx'[i].lock
      <4>1. CASE n = m
        BY <2>1, <2>4, <4>1
      <4>2. CASE n # m
        <5>1. PICK i \in Found(n) : mCtx[i].lock
          BY <2>1, <3>1, <4>2 DEF IInv, HeldInv
        <5>2. i # k /\ i \in Slots
          BY <2>2, <4>2, <5>1 DEF Found
        <5>3. QED
          BY <2>4, <5>1, <5>2
      <4>3. QED
        BY <4>1, <4>2
    <3>2. QED
      BY <2>4, <3>1, SameNames DEF HeldInv
  <2>9. QED
    BY <2>3, <2>5, <2>6, <2>7, <2>8 DEF IInv
<1>3. QED
  BY <1>1, <1>2

LEMMA UnlockStep ==
  ASSUME IInv, NEW m \in Module, Unlock(m)
  PROVE  IInv'
<1>1. CASE NoSleep
  BY <1>1 DEF Unlock, IInv, TypeOK, Compact, CallInv, GateInv, HeldInv, Found, FirstFree,
              Reached
<1>2. CASE ~NoSleep
  <2>1. /\ mCtx' = Cleared(m)
        /\ sleep' = \A i \in InUse : ~Cleared(m)[i].lock
        /\ held' = held \ {m}
        /\ UNCHANGED call
    BY <1>2 DEF Unlock
  <2>2. mCtx' \in [Slots -> [mod : Module \cup {MOD_NONE}, lock : BOOLEAN]]
    BY <2>1 DEF IInv, TypeOK, Cleared
  <2>3. TypeOK'
    <3>1. sleep' \in BOOLEAN
      BY <2>1, Zenon
    <3>2. QED
      BY <2>1, <2>2, <3>1 DEF IInv, TypeOK
  <2>4. /\ \A i \in Slots : mCtx'[i].mod = mCtx[i].mod
        /\ \A i \in Slots : mCtx[i].mod # m => mCtx'[i] = mCtx[i]
        /\ \A i \in Slots : mCtx'[i].lock => mCtx[i].lock
    BY <2>1 DEF IInv, TypeOK, Cleared
  <2>5. Compact'
    <3>1. ASSUME NEW i \in Slots, NEW j \in Slots, i <= j, mCtx'[i].mod = MOD_NONE
          PROVE  mCtx'[j] = Free
      <4>1. mCtx[j] = Free
        BY <2>4, <3>1 DEF IInv, Compact
      <4>2. mCtx[j].mod # m
        BY <4>1, PwrmgrAssumption DEF Free
      <4>3. QED
        BY <2>4, <4>1, <4>2
    <3>2. QED
      BY <3>1 DEF Compact
  <2>6. CallInv'
    BY <2>1, <2>4, SameNames DEF IInv, CallInv, TypeOK, FirstFree
  <2>7. GateInv'
    <3>1. SUFFICES ASSUME sleep', NEW i \in Slots
                   PROVE  ~mCtx'[i].lock
      BY <1>2 DEF GateInv
    <3>2. CASE mCtx[i].lock
      <4>1. i \in InUse
        BY <3>2, LockedInUse DEF IInv
      <4>2. QED
        BY <2>1, <3>1, <4>1, Zenon
    <3>3. CASE ~mCtx[i].lock
      BY <2>4, <3>3
    <3>4. QED
      BY <3>2, <3>3
  <2>8. HeldInv'
    <3>1. ASSUME NEW n \in held' PROVE \E i \in Found(n) : mCtx'[i].lock
      <4>1. PICK i \in Found(n) : mCtx[i].lock
        BY <2>1, <3>1 DEF IInv, HeldInv
      <4>2. i \in Slots /\ mCtx[i].mod # m
        BY <2>1, <3>1, <4>1 DEF Found
      <4>3. QED
        BY <2>4, <4>1, <4>2
    <3>2. QED
      BY <2>4, <3>1, SameNames DEF HeldInv
  <2>9. QED
    BY <2>3, <2>5, <2>6, <2>7, <2>8 DEF IInv
<1>3. QED
  BY <1>1, <1>2

(* Finding an entry changes nothing but call.                              *)
LEMMA SearchStep ==
  ASSUME IInv, NEW m \in Module, Register(m) \/ Unregister(m)
  PROVE  IInv'
<1>1. UNCHANGED <<mCtx, sleep, held>>
  BY DEF Register, Unregister
<1>2. CASE Register(m)
  BY <1>1, <1>2 DEF Register, IInv, TypeOK, Compact, CallInv, GateInv, HeldInv, Found,
                    FirstFree, Reached
<1>3. CASE Unregister(m)
  BY <1>1, <1>3 DEF Unregister, IInv, TypeOK, Compact, CallInv, GateInv, HeldInv, Found,
                    FirstFree, Reached
<1>4. QED
  BY <1>2, <1>3

(* The lock that is cleared was clear already.                             *)
LEMMA ClearLockStep ==
  ASSUME IInv, ClearLock
  PROVE  IInv'
<1>1. call.at \in Slots /\ mCtx[call.at].mod = MOD_NONE /\ call.at <= call.at
  BY DEF IInv, TypeOK, CallInv, FirstFree, ClearLock, Slots
<1>2. mCtx[call.at] = Free
  BY <1>1 DEF IInv, Compact
<1>3. mCtx' = mCtx
  BY <1>1, <1>2 DEF ClearLock, IInv, TypeOK, Free
<1>4. ~mCtx[call.at].lock
  BY <1>2 DEF Free
<1>5. TypeOK' /\ CallInv'
  BY <1>3, <1>4 DEF ClearLock, IInv, TypeOK, CallInv, Found, FirstFree, Reached
<1>6. QED
  BY <1>3, <1>5 DEF ClearLock, IInv, Compact, GateInv, HeldInv, Found, Reached

(* The entry that is named is the first free one: the ones before it are   *)
(* of other modules, the ones behind it free.                              *)
LEMMA NameStep ==
  ASSUME IInv, Name
  PROVE  IInv'
<1> DEFINE k == call.at
<1> DEFINE m == call.mod
<1>1. /\ m \in Module /\ k \in Slots /\ mCtx[k].mod = MOD_NONE /\ ~mCtx[k].lock
      /\ \A j \in 0 .. k - 1 : mCtx[j].mod \notin {MOD_NONE, m}
      /\ mCtx' = [mCtx EXCEPT ![k].mod = m]
      /\ UNCHANGED <<sleep, held>> /\ call' = NoCall
  BY DEF Name, IInv, CallInv, FirstFree, Reached
<1>2. /\ \A i \in Slots : mCtx'[i].lock = mCtx[i].lock
      /\ \A i \in Slots : i # k => mCtx'[i] = mCtx[i]
      /\ mCtx'[k].mod = m
  BY <1>1 DEF IInv, TypeOK
<1>3. TypeOK'
  BY <1>1, PwrmgrAssumption DEF IInv, TypeOK, NoCall, Slots
<1>4. Compact'
  <2>1. ASSUME NEW i \in Slots, NEW j \in Slots, i <= j, mCtx'[i].mod = MOD_NONE
        PROVE  mCtx'[j] = Free
    <3>1. i # k /\ mCtx[i].mod = MOD_NONE
      BY <1>1, <1>2, <2>1, PwrmgrAssumption
    <3>2. ~(i < k)
      BY <1>1, <3>1, <2>1 DEF Slots
    <3>3. j # k
      BY <1>1, <2>1, <3>1, <3>2 DEF Slots
    <3>4. mCtx[j] = Free
      BY <2>1, <3>1 DEF IInv, Compact
    <3>5. QED
      BY <1>2, <3>3, <3>4
  <2>2. QED
    BY <2>1 DEF Compact
<1>5. CallInv'
  BY <1>1 DEF CallInv, NoCall
<1>6. GateInv'
  BY <1>1, <1>2 DEF IInv, GateInv
<1>7. HeldInv'
  <2>1. ASSUME NEW n \in held PROVE \E i \in Found(n)' : mCtx'[i].lock
    <3>1. PICK i \in Found(n) : mCtx[i].lock
      BY <2>1 DEF IInv, HeldInv
    <3>2. i \in Slots /\ mCtx[i].mod = n /\ n # MOD_NONE
      BY <2>1, <3>1, PwrmgrAssumption DEF Found, IInv, TypeOK
    <3>3. i < k
      <4>1. ~(k < i)
        BY <1>1, <3>1 DEF Found, Reached, Slots
      <4>2. i # k
        BY <1>1, <3>2
      <4>3. QED
        BY <1>1, <3>2, <4>1, <4>2 DEF Slots
    <3>4. i \in Found(n)'
      BY <1>1, <1>2, <3>1, <3>2, <3>3 DEF Found, Reached, Slots
    <3>5. QED
      BY <1>2, <3>1, <3>2, <3>4
  <2>2. QED
    BY <1>1, <2>1 DEF HeldInv
<1>8. QED
  BY <1>3, <1>4, <1>5, <1>6, <1>7 DEF IInv

(* Moving the entries up keeps their order, and with it every other        *)
(* module's first entry.                                                   *)
LEMMA CloseStep ==
  ASSUME IInv, Close
  PROVE  IInv'
<1> DEFINE k == call.at
<1> DEFINE m == call.mod
<1>1. /\ m \in Module /\ k \in Slots /\ mCtx[k].mod = m
      /\ mCtx' = Moved(k)
      /\ sleep' = sleep /\ held' = held \ {m} /\ call' = NoCall
  BY DEF Close, IInv, CallInv, Found
<1>2. /\ \A i \in Slots : i < k => mCtx'[i] = mCtx[i]
      /\ \A i \in Slots : i >= k /\ i < Max - 1 => i + 1 \in Slots /\ mCtx'[i] = mCtx[i + 1]
      /\ \A i \in Slots : ~(i < Max - 1) => mCtx'[i] = mCtx[i]
  BY <1>1, PwrmgrAssumption DEF Moved, Slots
<1>3. TypeOK'
  <2>1. mCtx' \in [Slots -> [mod : Module \cup {MOD_NONE}, lock : BOOLEAN]]
    BY <1>1, PwrmgrAssumption DEF IInv, TypeOK, Moved, Slots
  <2>2. QED
    BY <1>1, <2>1, PwrmgrAssumption DEF IInv, TypeOK, NoCall, Slots
<1>4. Compact'
  <2>1. ASSUME NEW i \in Slots, NEW j \in Slots, i <= j, mCtx'[i].mod = MOD_NONE
        PROVE  mCtx'[j] = Free
    <3>1. PICK p \in Slots : /\ p \in {i, i + 1} /\ mCtx'[i] = mCtx[p]
                             /\ p = i + 1 => i < Max - 1
                             /\ p = i => i < k \/ ~(i < Max - 1)
      BY <1>1, <1>2 DEF Slots
    <3>2. \A q \in Slots : p <= q => mCtx[q] = Free
      BY <2>1, <3>1 DEF IInv, Compact
    <3>3. PICK q \in Slots : p <= q /\ mCtx'[j] = mCtx[q]
      BY <1>1, <1>2, <2>1, <3>1, PwrmgrAssumption DEF Slots
    <3>4. QED
      BY <3>2, <3>3
  <2>2. QED
    BY <2>1 DEF Compact
<1>5. CallInv'
  BY <1>1 DEF CallInv, NoCall
<1>6. GateInv'
  BY <1>1, <1>2 DEF IInv, GateInv, Slots
<1>7. HeldInv'
  <2>1. ASSUME NEW n \in held \ {m} PROVE \E i \in Found(n)' : mCtx'[i].lock
    <3>1. PICK i \in Found(n) : mCtx[i].lock
      BY <2>1 DEF IInv, HeldInv
    <3>2. /\ i \in Slots /\ mCtx[i].mod = n /\ i # k
          /\ \A j \in 0 .. i - 1 : mCtx[j].mod \notin {MOD_NONE, n}
      BY <1>1, <2>1, <3>1 DEF Found, Reached
    <3>3. CASE i < k
      <4>1. i \in Found(n)'
        BY <1>1, <1>2, <3>2, <3>3, PwrmgrAssumption DEF Found, Reached, Slots
      <4>2. QED
        BY <1>2, <3>1, <3>2, <3>3, <4>1
    <3>4. CASE i > k
      <4>1. i - 1 \in Slots /\ i - 1 >= k /\ i - 1 < Max - 1 /\ mCtx'[i - 1] = mCtx[i]
        BY <1>1, <1>2, <3>2, <3>4, PwrmgrAssumption DEF Slots
      <4>2. i - 1 \in Found(n)'
        BY <1>1, <1>2, <3>2, <3>4, <4>1, PwrmgrAssumption DEF Found, Reached, Slots
      <4>3. QED
        BY <3>1, <4>1, <4>2
    <3>5. QED
      BY <1>1, <3>2, <3>3, <3>4 DEF Slots
  <2>2. QED
    BY <1>1, <2>1 DEF HeldInv
<1>8. QED
  BY <1>3, <1>4, <1>5, <1>6, <1>7 DEF IInv

LEMMA NextInvariant ==
  ASSUME IInv, [Next]_vars
  PROVE  IInv'
<1>1. CASE UNCHANGED vars
  BY <1>1 DEF vars, IInv, TypeOK, Compact, CallInv, GateInv, HeldInv, Found, FirstFree, Reached
<1>2. CASE Next
  BY <1>2, LockStep, UnlockStep, SearchStep, ClearLockStep, NameStep, CloseStep DEF Next
<1>3. QED
  BY <1>1, <1>2

(* IInv is an invariant of the power manager.                              *)
THEOREM Invariance == Spec => []IInv
<1>1. IInv /\ [Next]_vars => IInv'
  BY NextInvariant
<1>2. QED
  BY <1>1, InitInvariant, PTL DEF Spec

(* No module that the power manager calls locked can be asleep: the gate   *)
(* hal_pwrmgr_lock closes stays closed until hal_pwrmgr_unlock finds no    *)
(* lock, registrations and removals under way or not.                      *)
THEOREM GateSafe == Spec => []GateRespectsLocks
<1>1. IInv => GateRespectsLocks
  BY DEF IInv, GateInv, GateRespectsLocks, IsLocked, Found
<1>2. QED
  BY <1>1, Invariance, PTL

(* A lock that hal_pwrmgr_lock granted is not lost to another module's     *)
(* registration or removal.                                                *)
THEOREM LocksKept == Spec => []HeldIsLocked
<1>1. IInv => HeldIsLocked
  BY DEF IInv, HeldInv, HeldIsLocked, IsLocked
<1>2. QED
  BY <1>1, Invariance, PTL

(* The loops over the table may stop at the first free entry.              *)
THEOREM NoGaps == Spec => []Compact
<1>1. IInv => Compact
  BY DEF IInv
<1>2. QED
  BY <1>1, Invariance, PTL

(* Every variable keeps its type.                                          *)
THEOREM TypeCorrect == Spec => []TypeOK
<1>1. IInv => TypeOK
  BY DEF IInv
<1>2. QED
  BY <1>1, Invariance, PTL


-----------------------------------------------------------------------------
(* A table with room.                                                      *)

(* While the last entry is free, every module has one entry, and a lock is *)
(* one that was granted and not given back.                                *)
LocksAreHeld ==
  mCtx[Max - 1] = Free => \A i \in Slots : mCtx[i].lock => mCtx[i].mod \in held
RoomInv == NoDuplicates /\ LocksAreHeld

(* The last entry is never emptied.                                        *)
LEMMA RoomStays ==
  ASSUME IInv, [Next]_vars, mCtx'[Max - 1] = Free
  PROVE  mCtx[Max - 1] = Free
<1>1. Max - 1 \in Slots /\ Max - 1 <= Max - 1 /\ Free.mod = MOD_NONE /\ ~ Free.lock
  BY PwrmgrAssumption DEF Slots, Free
<1>2. SUFFICES mCtx[Max - 1].mod = MOD_NONE
  BY <1>1 DEF IInv, Compact
<1>3. ASSUME NEW m \in Module, Lock(m) PROVE mCtx[Max - 1].mod = MOD_NONE
  BY <1>1, <1>3 DEF Lock, Found, IInv, TypeOK
<1>4. ASSUME NEW m \in Module, Unlock(m) PROVE mCtx[Max - 1].mod = MOD_NONE
  <2>1. mCtx' = mCtx \/ mCtx' = Cleared(m)
    BY <1>4 DEF Unlock
  <2>2. mCtx'[Max - 1].mod = mCtx[Max - 1].mod
    BY <1>1, <2>1 DEF Cleared, IInv, TypeOK
  <2> QED
    BY <1>1, <2>2
<1>5. CASE ClearLock
  BY <1>1, <1>5 DEF ClearLock, IInv, TypeOK
<1>6. CASE Name
  BY <1>1, <1>6, PwrmgrAssumption DEF Name, IInv, TypeOK, CallInv
<1>7. CASE Close
  <2>1. mCtx'[Max - 1] = mCtx[Max - 1]
    BY <1>1, <1>7, PwrmgrAssumption DEF Close, Moved
  <2> QED
    BY <1>1, <2>1
<1>8. CASE UNCHANGED mCtx
  BY <1>1, <1>8
<1> QED
  BY <1>3, <1>4, <1>5, <1>6, <1>7, <1>8 DEF Next, Register, Unregister, vars

LEMMA RoomLock ==
  ASSUME IInv, RoomInv, NEW m \in Module, Lock(m), mCtx[Max - 1] = Free
  PROVE  RoomInv'
<1>1. CASE UNCHANGED <<mCtx, held>>
  BY <1>1 DEF RoomInv, NoDuplicates, LocksAreHeld
<1>2. ASSUME NEW k \in Found(m), mCtx' = [mCtx EXCEPT ![k].lock = TRUE], held' = held \cup {m}
      PROVE  RoomInv'
  <2>1. /\ k \in Slots /\ mCtx[k].mod = m /\ mCtx'[k].mod = m
        /\ \A i \in Slots : i # k => mCtx'[i] = mCtx[i]
    BY <1>2 DEF Found, IInv, TypeOK
  <2>2. Free.mod # m
    BY PwrmgrAssumption DEF Free
  <2>3. NoDuplicates'
    BY <2>1, <2>2 DEF RoomInv, NoDuplicates
  <2>4. LocksAreHeld'
    BY <1>2, <2>1 DEF RoomInv, LocksAreHeld
  <2> QED
    BY <2>3, <2>4 DEF RoomInv
<1> QED
  BY <1>1, <1>2 DEF Lock

LEMMA RoomUnlock ==
  ASSUME IInv, RoomInv, NEW m \in Module, Unlock(m), mCtx[Max - 1] = Free
  PROVE  RoomInv'
<1>1. CASE UNCHANGED <<mCtx, held>>
  BY <1>1 DEF RoomInv, NoDuplicates, LocksAreHeld
<1>2. CASE mCtx' = Cleared(m) /\ held' = held \ {m}
  <2>1. /\ \A i \in Slots : mCtx'[i].mod = mCtx[i].mod
        /\ \A i \in Slots : mCtx[i].mod # m => mCtx'[i] = mCtx[i]
        /\ \A i \in Slots : mCtx'[i].lock => mCtx[i].lock
        /\ \A i \in InUse : mCtx[i].mod = m => ~ mCtx'[i].lock
    BY <1>2 DEF IInv, TypeOK, Cleared, InUse
  <2>2. Free.mod # m
    BY PwrmgrAssumption DEF Free
  <2>3. NoDuplicates'
    BY <2>1, <2>2 DEF RoomInv, NoDuplicates
  <2>4. ASSUME NEW i \in Slots, mCtx'[i].lock PROVE mCtx'[i].mod \in held'
    <3>1. i \in InUse
      BY <2>1, <2>4, LockedInUse DEF IInv
    <3>2. mCtx[i].mod # m /\ mCtx[i].mod \in held
      BY <2>1, <2>4, <3>1 DEF RoomInv, LocksAreHeld
    <3> QED
      BY <1>2, <2>1, <3>2
  <2> QED
    BY <2>3, <2>4 DEF RoomInv, LocksAreHeld
<1> QED
  BY <1>1, <1>2 DEF Unlock

LEMMA RoomClearLock ==
  ASSUME IInv, RoomInv, ClearLock
  PROVE  RoomInv'
<1>1. call.at \in Slots /\ mCtx[call.at].mod = MOD_NONE /\ call.at <= call.at
  BY DEF IInv, TypeOK, CallInv, FirstFree, ClearLock, Slots
<1>2. mCtx[call.at] = Free
  BY <1>1 DEF IInv, Compact
<1>3. mCtx' = mCtx
  BY <1>1, <1>2 DEF ClearLock, IInv, TypeOK, Free
<1> QED
  BY <1>3 DEF ClearLock, RoomInv, NoDuplicates, LocksAreHeld

(* The module that is named is in no other entry: not before, where the    *)
(* search has looked, and not behind, where all is free.                   *)
LEMMA RoomName ==
  ASSUME IInv, RoomInv, Name, mCtx[Max - 1] = Free
  PROVE  RoomInv'
<1> DEFINE k == call.at
           m == call.mod
<1>1. /\ m \in Module /\ k \in Slots /\ mCtx[k].mod = MOD_NONE /\ ~ mCtx[k].lock
      /\ \A j \in 0 .. k - 1 : mCtx[j].mod \notin {MOD_NONE, m}
      /\ mCtx' = [mCtx EXCEPT ![k].mod = m] /\ UNCHANGED held
  BY DEF Name, IInv, CallInv, FirstFree, Reached
<1>2. /\ \A i \in Slots : i # k => mCtx'[i] = mCtx[i]
      /\ mCtx'[k].mod = m /\ ~ mCtx'[k].lock
  BY <1>1 DEF IInv, TypeOK
<1>3. ASSUME NEW i \in Slots, i # k PROVE mCtx[i].mod # m
  <2>1. CASE i < k
    BY <1>1, <2>1 DEF Slots
  <2>2. CASE k < i
    <3>1. k <= i
      BY <1>1, <2>2 DEF Slots
    <3>2. mCtx[i] = Free
      BY <1>1, <3>1 DEF IInv, Compact
    <3> QED
      BY <1>1, <3>2, PwrmgrAssumption DEF Free
  <2> QED
    BY <1>1, <1>3, <2>1, <2>2 DEF Slots
<1>4. NoDuplicates'
  BY <1>2, <1>3 DEF RoomInv, NoDuplicates
<1>5. LocksAreHeld'
  BY <1>1, <1>2 DEF RoomInv, LocksAreHeld
<1> QED
  BY <1>4, <1>5 DEF RoomInv

(* With the last entry free, no entry is there twice after the move.       *)
LEMMA RoomClose ==
  ASSUME IInv, RoomInv, Close, mCtx[Max - 1] = Free
  PROVE  RoomInv'
<1> DEFINE k == call.at
           m == call.mod
<1>1. /\ m \in Module /\ k \in Slots /\ mCtx[k].mod = m
      /\ mCtx' = Moved(k) /\ held' = held \ {m}
  BY DEF Close, IInv, CallInv, Found
<1>2. k < Max - 1
  <2>1. k # Max - 1
    BY <1>1, PwrmgrAssumption DEF Free
  <2> QED
    BY <1>1, <2>1, PwrmgrAssumption DEF Slots
<1> DEFINE from(i) == IF i >= k THEN i + 1 ELSE i
<1>3. ASSUME NEW i \in Slots
      PROVE  \/ mCtx'[i] = Free
             \/ from(i) \in Slots /\ from(i) # k /\ mCtx'[i] = mCtx[from(i)]
  BY <1>1, <1>2, PwrmgrAssumption DEF Moved, Slots
<1>4. Free.mod = MOD_NONE /\ ~ Free.lock
  BY DEF Free
<1>5. ASSUME NEW i \in Slots, NEW j \in Slots, mCtx'[i].mod = mCtx'[j].mod, i # j
      PROVE  mCtx'[i] = Free
  <2>1. CASE mCtx'[j] = Free
    <3>1. mCtx'[i].mod = MOD_NONE /\ i <= i
      BY <1>4, <1>5, <2>1 DEF Slots
    <3>2. mCtx'[i] = Free
      BY <3>1, CloseStep DEF IInv, Compact, Slots
    <3> QED
      BY <3>2
  <2>2. CASE mCtx'[i] # Free /\ mCtx'[j] # Free
    <3>1. /\ from(i) \in Slots /\ mCtx'[i] = mCtx[from(i)]
          /\ from(j) \in Slots /\ mCtx'[j] = mCtx[from(j)]
      BY <1>3, <2>2
    <3>2. from(i) # from(j)
      BY <1>1, <1>5 DEF Slots
    <3> QED
      BY <1>5, <3>1, <3>2 DEF RoomInv, NoDuplicates
  <2> QED
    BY <2>1, <2>2
<1>6. ASSUME NEW i \in Slots, mCtx'[i].lock PROVE mCtx'[i].mod \in held'
  <2>1. from(i) \in Slots /\ from(i) # k /\ mCtx'[i] = mCtx[from(i)]
    BY <1>3, <1>4, <1>6
  <2>2. mCtx[from(i)].mod \in held
    BY <1>6, <2>1 DEF RoomInv, LocksAreHeld
  <2>3. mCtx[from(i)].mod # m
    BY <1>1, <1>4, <2>1, PwrmgrAssumption DEF RoomInv, NoDuplicates
  <2> QED
    BY <1>1, <2>1, <2>2, <2>3
<1> QED
  BY <1>5, <1>6 DEF RoomInv, NoDuplicates, LocksAreHeld

LEMMA RoomStep ==
  ASSUME IInv, RoomInv, [Next]_vars
  PROVE  RoomInv'
<1>1. CASE mCtx'[Max - 1] # Free
  BY <1>1 DEF RoomInv, NoDuplicates, LocksAreHeld
<1>2. CASE mCtx'[Max - 1] = Free
  <2>1. mCtx[Max - 1] = Free
    BY <1>2, RoomStays
  <2>2. CASE UNCHANGED <<mCtx, held>>
    BY <2>2 DEF RoomInv, NoDuplicates, LocksAreHeld
  <2> QED
    BY <2>1, <2>2, RoomLock, RoomUnlock, RoomClearLock, RoomName, RoomClose
       DEF Next, Register, Unregister, vars
<1> QED
  BY <1>1, <1>2

LEMMA InitRoom == Init => RoomInv
<1> SUFFICES ASSUME Init PROVE RoomInv
  OBVIOUS
<1>1. (\A i \in Slots : mCtx[i] = Free) /\ ~ Free.lock
  BY DEF Init, Free
<1> QED
  BY <1>1 DEF RoomInv, NoDuplicates, LocksAreHeld

LEMMA RoomInvariance == Spec => []RoomInv
<1>1. Init => RoomInv
  BY InitRoom
<1>2. IInv /\ RoomInv /\ [Next]_vars => RoomInv'
  BY RoomStep
<1> QED
  BY <1>1, <1>2, Invariance, PTL DEF Spec

(* While the table has room, no module is entered twice, whatever          *)
(* hal_pwrmgr_register's unprotected search met.                           *)
THEOREM EnteredOnce == Spec => []NoDuplicates
<1>1. RoomInv => NoDuplicates
  BY DEF RoomInv
<1> QED
  BY <1>1, RoomInvariance, PTL

LEMMA LastUnlock ==
  ASSUME IInv, RoomInv, [Next]_vars,
         mCtx[Max - 1] = Free, held # {}, held' = {}, UNCHANGED call
  PROVE  sleep'
<1>1. PICK m \in Module : Unlock(m) /\ mCtx' = Cleared(m) /\ held' = held \ {m}
                          /\ sleep' = \A i \in InUse : ~ Cleared(m)[i].lock
  <2>1. ~ Close
    BY DEF Close, NoCall
  <2>2. ~ ClearLock /\ ~ Name /\ \A m \in Module : ~ Lock(m) /\ ~ Register(m) /\ ~ Unregister(m)
    BY DEF ClearLock, Name, Lock, Register, Unregister
  <2> QED
    BY <2>1, <2>2 DEF Next, Unlock, vars
<1>2. ASSUME NEW i \in InUse PROVE ~ Cleared(m)[i].lock
  <2>1. i \in Slots
    BY DEF InUse
  <2>2. CASE mCtx[i].mod = m
    BY <2>1, <2>2 DEF Cleared, IInv, TypeOK
  <2>3. CASE mCtx[i].mod # m
    <3>1. Cleared(m)[i] = mCtx[i]
      BY <2>1, <2>3 DEF Cleared
    <3>2. mCtx[i].mod \notin held
      BY <1>1, <2>3
    <3> QED
      BY <2>1, <3>1, <3>2 DEF RoomInv, LocksAreHeld
  <2> QED
    BY <2>2, <2>3
<1> QED
  BY <1>1, <1>2, Zenon

(* While the table has room, the unlock of the last lock opens the gate.   *)
THEOREM LastUnlockWakesGate == Spec => LastUnlockOpens
<1>1. IInv /\ RoomInv /\ [Next]_vars =>
        [mCtx[Max - 1] = Free /\ held # {} /\ held' = {} /\ UNCHANGED call => sleep']_vars
  BY LastUnlock
<1> QED
  BY <1>1, Invariance, RoomInvariance, PTL DEF Spec, LastUnlockOpens
=============================================================================
