--------------------------- MODULE Drivers_proofs ---------------------------
(***************************************************************************)
(* Proofs about Drivers, for any sectors, any items and any timers.        *)
(***************************************************************************)
EXTENDS Drivers, SequenceTheorems, TLAPS

-----------------------------------------------------------------------------
(* Where the thread is: what the running call has left to do.              *)

Is(s, step) == s # <<>> /\ Head(s) = step

SpifSteps ==
  {<<name>> : name \in {"lock", "map", "enter", "copy", "exit", "unmap", "unlock", "wait",
                        "program", "erase", "flush", "inform", "wakeup"}}

\* hal_flash_read, with the remap or without.
AtUnlock(s) == Is(s, <<"unlock">>) /\ Tail(s) = <<>>
AtUnmap(s) == Is(s, <<"unmap">>) /\ AtUnlock(Tail(s))
AtReadExit(m, s) == Is(s, <<"exit">>) /\ IF m THEN AtUnmap(Tail(s)) ELSE AtUnlock(Tail(s))
AtCopy(m, s) == Is(s, <<"copy">>) /\ AtReadExit(m, Tail(s))
AtReadEnter(m, s) == Is(s, <<"enter">>) /\ AtCopy(m, Tail(s))
AtMap(m, s) == Is(s, <<"map">>) /\ AtReadEnter(m, Tail(s))
AtReadLock(m, s) == Is(s, <<"lock">>) /\ IF m THEN AtMap(m, Tail(s)) ELSE AtReadEnter(m, Tail(s))

\* hal_flash_write and the erases, by what they have the chip do.
AtFlush(s) == Is(s, <<"flush">>) /\ AtUnlock(Tail(s))
AtOpExit(op, s) ==
  Is(s, <<"exit">>) /\ IF op = "erase" THEN AtFlush(Tail(s)) ELSE AtUnlock(Tail(s))
AtOpWait(op, s) == Is(s, <<"wait">>) /\ AtOpExit(op, Tail(s))
AtStart(op, s) == Is(s, <<op>>) /\ AtOpWait(op, Tail(s))
AtFirstWait(op, s) == Is(s, <<"wait">>) /\ AtStart(op, Tail(s))
AtOpEnter(op, s) == Is(s, <<"enter">>) /\ AtFirstWait(op, Tail(s))
AtOpLock(op, s) == Is(s, <<"lock">>) /\ AtOpEnter(op, Tail(s))

\* hw_spif_cache_config, with the identification of the chip or without.
AtWakeup(s) == Is(s, <<"wakeup">>) /\ Tail(s) = <<>>
Configured(s) == s = <<>> \/ AtWakeup(s)
AtInform(s) == Is(s, <<"inform">>) /\ Configured(Tail(s))
AtInfoUnlock(s) == Is(s, <<"unlock">>) /\ AtInform(Tail(s))
AtInfoWait(s) == Is(s, <<"wait">>) /\ AtInfoUnlock(Tail(s))
AtInfoFirstWait(s) == Is(s, <<"wait">>) /\ AtInfoWait(Tail(s))
AtInfoLock(s) == Is(s, <<"lock">>) /\ AtInfoFirstWait(Tail(s))
AtConfigExit(known, s) ==
  Is(s, <<"exit">>) /\ IF known THEN Configured(Tail(s)) ELSE AtInfoLock(Tail(s))
AtConfigFlush(known, s) == Is(s, <<"flush">>) /\ AtConfigExit(known, Tail(s))

\* hal_timer_set.
AtClock(t, s) == Is(s, <<"clock", t>>) /\ Tail(s) = <<>>
AtSetGates(t, s) == Is(s, <<"gates">>) /\ AtClock(t, Tail(s))
AtLoad(t, s) == (\E time \in {"none", "some"} : Is(s, <<"load", t, time>>)) /\ AtSetGates(t, Tail(s))
AtArm(t, s) == Is(s, <<"arm", t>>) /\ AtLoad(t, Tail(s))
AtHook(t, s) == Is(s, <<"hook", t>>) /\ AtArm(t, Tail(s))

\* hal_timer_stop, alone or called by hal_timer_init.
AtStop(s) == (\E ts \in (SUBSET Timers) \ {{}} : Is(s, <<"stop", ts>>)) /\ Tail(s) = <<>>
AtUnclock(t, s) == Is(s, <<"unclock", t>>) /\ (Tail(s) = <<>> \/ AtStop(Tail(s)))
AtStopGates(t, s) == Is(s, <<"gates">>) /\ AtUnclock(t, Tail(s))
AtDisarm(t, s) == Is(s, <<"disarm", t>>) /\ AtStopGates(t, Tail(s))
AtHalt(t, s) == Is(s, <<"halt", t>>) /\ AtDisarm(t, Tail(s))
AtUnhook(t, s) == Is(s, <<"unhook", t>>) /\ AtHalt(t, Tail(s))

\* hal_timer_mask_int.
AtMask(t, s) == (\E en \in BOOLEAN : Is(s, <<"mask", t, en>>)) /\ Tail(s) = <<>>
AtControl(t, s) == Is(s, <<"control", t>>) /\ AtMask(t, Tail(s))

Setting(t, s) == AtHook(t, s) \/ AtArm(t, s) \/ AtLoad(t, s) \/ AtSetGates(t, s) \/ AtClock(t, s)
Stopping(t, s) == \/ AtUnhook(t, s) \/ AtHalt(t, s) \/ AtDisarm(t, s) \/ AtStopGates(t, s)
                  \/ AtUnclock(t, s)
Masking(t, s) == AtControl(t, s) \/ AtMask(t, s)

InTimerCall(s) == AtStop(s) \/ \E t \in Timers : Setting(t, s) \/ Stopping(t, s) \/ Masking(t, s)

TodoInv == todo \in Seq(SpifSteps) \/ InTimerCall(todo)

-----------------------------------------------------------------------------
(* The timers.                                                             *)

ChipStates == [op : {"none", "program", "erase"}, on : SUBSET Sectors]
Requests == [op : {"none", "read", "write", "erase"}, on : SUBSET Sectors]

TypesInv ==
  /\ enabled \in SUBSET (Timers \cup RadioIrqs) /\ pending \in SUBSET Timers
  /\ hooked \in SUBSET Timers
  /\ flash \in [Sectors -> SUBSET Items]
  /\ cache \in [Sectors -> (SUBSET Items) \cup {Absent, Garbage}]
  /\ chip \in ChipStates /\ request \in Requests
  /\ bypass \in BOOLEAN /\ remap \in BOOLEAN /\ initFlag \in BOOLEAN
  /\ saved \in SUBSET (Timers \cup RadioIrqs)
  /\ value \in (SUBSET Items) \cup {Garbage}
  /\ ctrl \in [Timers -> SUBSET {"on", "masked"}]
  /\ status \in SUBSET Timers /\ clocked \in SUBSET Timers
  /\ loaded \in SUBSET (Timers \cup {"on", "masked"})
  /\ callback \in BOOLEAN /\ gaveUp \in BOOLEAN
  /\ live \in [Timers -> {"off", "setting", "on", "masked", "stray"}]

(* A timer that does not count can elapse no more.                         *)
Still(t) == t \notin clocked /\ t \notin status

(* What the application does not want is off, or masked, or does not       *)
(* count, or has no handler while it is being halted.                      *)
LiveInv ==
  \A t \in Timers :
    /\ live[t] = "off" /\ "on" \in ctrl[t] => Still(t) \/ (AtHalt(t, todo) /\ t \notin hooked)
    /\ live[t] = "masked" => "masked" \in ctrl[t]
    /\ live[t] = "setting" => /\ AtArm(t, todo) \/ AtLoad(t, todo)
                              /\ "on" \in ctrl[t] => "masked" \in ctrl[t] \/ Still(t)
    /\ AtHalt(t, todo) => live[t] = "off" /\ t \notin hooked
    /\ (AtSetGates(t, todo) \/ AtClock(t, todo)) /\ live[t] = "off" => "on" \notin ctrl[t]

(* What the thread has loaded of a register may be out of date, but only   *)
(* for a timer that its callback has stopped since.                        *)
LoadedInv ==
  \A t \in Timers :
    /\ AtMask(t, todo) =>
         /\ loaded \subseteq {"on", "masked"}
         /\ live[t] = "off" /\ "on" \in loaded => Still(t)
    /\ AtClock(t, todo) \/ AtUnclock(t, todo) =>
         /\ loaded \subseteq Timers
         /\ \A u \in loaded : live[u] = "off" => "on" \notin ctrl[u]

-----------------------------------------------------------------------------
(* The flash.                                                              *)

CacheGood == \A s \in Sectors : cache[s] = Absent \/ cache[s] \subseteq flash[s]

Resting ==
  /\ todo = <<>> \/ AtWakeup(todo) \/ InTimerCall(todo)
  /\ request = None /\ value = {} /\ chip = None
  /\ ~ remap /\ ~ bypass /\ initFlag /\ CacheGood

Reading(m) ==
  /\ \E s \in Sectors : request = [op |-> "read", on |-> {s}] /\ (s \in Far <=> m)
  /\ chip = None /\ initFlag /\ CacheGood
  /\ \/ AtReadLock(m, todo) /\ ~ remap /\ ~ bypass
     \/ AtMap(m, todo) /\ m /\ ~ bypass
     \/ AtReadEnter(m, todo) /\ (remap <=> m) /\ ~ bypass
     \/ AtCopy(m, todo) /\ (remap <=> m)
     \/ AtReadExit(m, todo) /\ (remap <=> m)
     \/ AtUnmap(todo) /\ ~ bypass

Operating(op) ==
  /\ request.op = (IF op = "program" THEN "write" ELSE "erase")
  /\ request.on # {} /\ (op = "program" => \E s \in Sectors : request.on = {s})
  /\ initFlag /\ ~ remap
  /\ \/ (AtOpLock(op, todo) \/ AtOpEnter(op, todo)) /\ chip = None /\ ~ bypass /\ CacheGood
     \/ (AtFirstWait(op, todo) \/ AtStart(op, todo)) /\ chip = None /\ CacheGood
     \/ /\ AtOpWait(op, todo)
        /\ chip = None \/ (chip.op = op /\ chip.on = request.on)
        /\ op = "erase" \/ CacheGood
     \/ AtOpExit(op, todo) /\ chip = None /\ (op = "erase" \/ CacheGood)
     \/ AtFlush(todo) /\ op = "erase" /\ chip = None /\ ~ bypass

Finishing ==
  AtUnlock(todo) /\ request # None /\ chip = None /\ ~ remap /\ ~ bypass /\ initFlag /\ CacheGood

Configuring ==
  /\ request = None /\ value = {} /\ chip = None /\ ~ remap
  /\ \/ AtConfigFlush(initFlag, todo)
     \/ AtConfigExit(initFlag, todo) /\ CacheGood
     \/ /\ \/ AtInfoLock(todo) \/ AtInfoFirstWait(todo) \/ AtInfoWait(todo) \/ AtInfoUnlock(todo)
           \/ AtInform(todo)
        /\ ~ bypass /\ ~ initFlag /\ CacheGood

Phase == \/ Resting \/ Finishing \/ Configuring
         \/ \E m \in BOOLEAN : Reading(m)
         \/ \E op \in {"program", "erase"} : Operating(op)

FlashInv == ~ gaveUp => Phase

(* No timer's interrupt is served while the chip or the cache is in use.   *)
Busy == {"map", "enter", "copy", "exit", "unmap", "unlock", "wait", "program", "erase", "flush"}

MaskedInv == ~ gaveUp /\ todo # <<>> /\ Head(todo)[1] \in Busy => enabled \cap Timers = {}

(* The inductive invariant: where the thread is in a function determines   *)
(* what the flash chip, the cache and the mask are in, and what it has     *)
(* loaded of a timer's registers may be out of date in one way only.       *)
IInv == TypesInv /\ TodoInv /\ LiveInv /\ LoadedInv /\ FlashInv /\ MaskedInv

-----------------------------------------------------------------------------
(* The lists of steps.                                                     *)

LEMMA Tails ==
  /\ \A a : <<a>> # <<>> /\ Head(<<a>>) = a /\ Tail(<<a>>) = <<>>
  /\ \A a, b : <<a, b>> # <<>> /\ Head(<<a, b>>) = a /\ Tail(<<a, b>>) = <<b>>
  /\ \A a, b, c : <<a, b, c>> # <<>> /\ Head(<<a, b, c>>) = a /\ Tail(<<a, b, c>>) = <<b, c>>
  /\ \A a, b, c, d : /\ <<a, b, c, d>> # <<>> /\ Head(<<a, b, c, d>>) = a
                     /\ Tail(<<a, b, c, d>>) = <<b, c, d>>
  /\ \A a, b, c, d, e : /\ <<a, b, c, d, e>> # <<>> /\ Head(<<a, b, c, d, e>>) = a
                        /\ Tail(<<a, b, c, d, e>>) = <<b, c, d, e>>
  /\ \A a, b, c, d, e, f :
       /\ <<a, b, c, d, e, f>> # <<>> /\ Head(<<a, b, c, d, e, f>>) = a
       /\ Tail(<<a, b, c, d, e, f>>) = <<b, c, d, e, f>>
  /\ \A a, b, c, d, e, f, g :
       /\ <<a, b, c, d, e, f, g>> # <<>> /\ Head(<<a, b, c, d, e, f, g>>) = a
       /\ Tail(<<a, b, c, d, e, f, g>>) = <<b, c, d, e, f, g>>
  /\ \A a, b, c, d, e, f, g, h :
       /\ <<a, b, c, d, e, f, g, h>> # <<>> /\ Head(<<a, b, c, d, e, f, g, h>>) = a
       /\ Tail(<<a, b, c, d, e, f, g, h>>) = <<b, c, d, e, f, g, h>>
OBVIOUS

LEMMA Joined ==
  /\ \A a, b : <<a>> \o <<b>> = <<a, b>>
  /\ \A a, b, c, d, e : <<a, b>> \o <<c, d, e>> = <<a, b, c, d, e>>
  /\ \A a, b, c, d : <<a>> \o <<b, c, d>> = <<a, b, c, d>>
  /\ \A a, b, c, d, e : <<a, b, c, d>> \o <<e>> = <<a, b, c, d, e>>
  /\ \A a, b, c, d, e, f : <<a, b, c, d, e>> \o <<f>> = <<a, b, c, d, e, f>>
  /\ \A a, b, c, d, e, f, g : <<a, b, c, d, e, f>> \o <<g>> = <<a, b, c, d, e, f, g>>
  /\ \A a, b, c : <<a, b>> \o <<c>> = <<a, b, c>>
  /\ \A a, b, c, d, e, f, g, h : <<a, b, c, d, e, f, g>> \o <<h>> = <<a, b, c, d, e, f, g, h>>
  /\ \A a, b, c, d, e, f, g : <<a, b>> \o <<c, d, e, f, g>> = <<a, b, c, d, e, f, g>>
<1>1. ASSUME NEW a, NEW b
      PROVE  <<a>> \o <<b>> = <<a, b>>
  <2> DEFINE S == {a, b}
             s == <<a>>
             t == <<b>>
             u == <<a, b>>
  <2>1. /\ s \in Seq(S) /\ t \in Seq(S) /\ u \in Seq(S)
        /\ Len(s) = 1 /\ Len(t) = 1 /\ Len(u) = 2
    OBVIOUS
  <2>2. s[1] = a
    OBVIOUS
  <2>3. t[1] = b
    OBVIOUS
  <2>4. u[1] = a /\ u[2] = b
    OBVIOUS
  <2>5. Len(s \o t) = 2 /\ s \o t \in Seq(S)
    BY <2>1
  <2>6. \A i \in 1 .. 1 : (s \o t)[i] = s[i]
    BY <2>1
  <2>7. (s \o t)[2] = t[1]
    BY <2>1
  <2>8. \A i \in 1 .. 2 : (s \o t)[i] = u[i]
    BY <2>2, <2>3, <2>4, <2>6, <2>7
  <2> QED
    BY <2>1, <2>5, <2>8, SeqEqual
<1>2. ASSUME NEW a, NEW b, NEW c, NEW d, NEW e
      PROVE  <<a, b>> \o <<c, d, e>> = <<a, b, c, d, e>>
  <2> DEFINE S == {a, b, c, d, e}
             s == <<a, b>>
             t == <<c, d, e>>
             u == <<a, b, c, d, e>>
  <2>1. /\ s \in Seq(S) /\ t \in Seq(S) /\ u \in Seq(S)
        /\ Len(s) = 2 /\ Len(t) = 3 /\ Len(u) = 5
    OBVIOUS
  <2>2. s[1] = a /\ s[2] = b
    OBVIOUS
  <2>3. t[1] = c /\ t[2] = d /\ t[3] = e
    OBVIOUS
  <2>4. u[1] = a /\ u[2] = b /\ u[3] = c /\ u[4] = d /\ u[5] = e
    OBVIOUS
  <2>5. Len(s \o t) = 5 /\ s \o t \in Seq(S)
    BY <2>1
  <2>6. \A i \in 1 .. 2 : (s \o t)[i] = s[i]
    BY <2>1
  <2>7. (s \o t)[3] = t[1] /\ (s \o t)[4] = t[2] /\ (s \o t)[5] = t[3]
    BY <2>1
  <2>8. \A i \in 1 .. 5 : (s \o t)[i] = u[i]
    BY <2>2, <2>3, <2>4, <2>6, <2>7
  <2> QED
    BY <2>1, <2>5, <2>8, SeqEqual
<1>3. ASSUME NEW a, NEW b, NEW c, NEW d
      PROVE  <<a>> \o <<b, c, d>> = <<a, b, c, d>>
  <2> DEFINE S == {a, b, c, d}
             s == <<a>>
             t == <<b, c, d>>
             u == <<a, b, c, d>>
  <2>1. /\ s \in Seq(S) /\ t \in Seq(S) /\ u \in Seq(S)
        /\ Len(s) = 1 /\ Len(t) = 3 /\ Len(u) = 4
    OBVIOUS
  <2>2. s[1] = a
    OBVIOUS
  <2>3. t[1] = b /\ t[2] = c /\ t[3] = d
    OBVIOUS
  <2>4. u[1] = a /\ u[2] = b /\ u[3] = c /\ u[4] = d
    OBVIOUS
  <2>5. Len(s \o t) = 4 /\ s \o t \in Seq(S)
    BY <2>1
  <2>6. \A i \in 1 .. 1 : (s \o t)[i] = s[i]
    BY <2>1
  <2>7. (s \o t)[2] = t[1] /\ (s \o t)[3] = t[2] /\ (s \o t)[4] = t[3]
    BY <2>1
  <2>8. \A i \in 1 .. 4 : (s \o t)[i] = u[i]
    BY <2>2, <2>3, <2>4, <2>6, <2>7
  <2> QED
    BY <2>1, <2>5, <2>8, SeqEqual
<1>4. ASSUME NEW a, NEW b, NEW c, NEW d, NEW e
      PROVE  <<a, b, c, d>> \o <<e>> = <<a, b, c, d, e>>
  <2> DEFINE S == {a, b, c, d, e}
             s == <<a, b, c, d>>
             t == <<e>>
             u == <<a, b, c, d, e>>
  <2>1. /\ s \in Seq(S) /\ t \in Seq(S) /\ u \in Seq(S)
        /\ Len(s) = 4 /\ Len(t) = 1 /\ Len(u) = 5
    OBVIOUS
  <2>2. s[1] = a /\ s[2] = b /\ s[3] = c /\ s[4] = d
    OBVIOUS
  <2>3. t[1] = e
    OBVIOUS
  <2>4. u[1] = a /\ u[2] = b /\ u[3] = c /\ u[4] = d /\ u[5] = e
    OBVIOUS
  <2>5. Len(s \o t) = 5 /\ s \o t \in Seq(S)
    BY <2>1
  <2>6. \A i \in 1 .. 4 : (s \o t)[i] = s[i]
    BY <2>1
  <2>7. (s \o t)[5] = t[1]
    BY <2>1
  <2>8. \A i \in 1 .. 5 : (s \o t)[i] = u[i]
    BY <2>2, <2>3, <2>4, <2>6, <2>7
  <2> QED
    BY <2>1, <2>5, <2>8, SeqEqual
<1>5. ASSUME NEW a, NEW b, NEW c, NEW d, NEW e, NEW f
      PROVE  <<a, b, c, d, e>> \o <<f>> = <<a, b, c, d, e, f>>
  <2> DEFINE S == {a, b, c, d, e, f}
             s == <<a, b, c, d, e>>
             t == <<f>>
             u == <<a, b, c, d, e, f>>
  <2>1. /\ s \in Seq(S) /\ t \in Seq(S) /\ u \in Seq(S)
        /\ Len(s) = 5 /\ Len(t) = 1 /\ Len(u) = 6
    OBVIOUS
  <2>2. s[1] = a /\ s[2] = b /\ s[3] = c /\ s[4] = d /\ s[5] = e
    OBVIOUS
  <2>3. t[1] = f
    OBVIOUS
  <2>4. u[1] = a /\ u[2] = b /\ u[3] = c /\ u[4] = d /\ u[5] = e /\ u[6] = f
    OBVIOUS
  <2>5. Len(s \o t) = 6 /\ s \o t \in Seq(S)
    BY <2>1
  <2>6. \A i \in 1 .. 5 : (s \o t)[i] = s[i]
    BY <2>1
  <2>7. (s \o t)[6] = t[1]
    BY <2>1
  <2>8. \A i \in 1 .. 6 : (s \o t)[i] = u[i]
    BY <2>2, <2>3, <2>4, <2>6, <2>7
  <2> QED
    BY <2>1, <2>5, <2>8, SeqEqual
<1>6. ASSUME NEW a, NEW b, NEW c, NEW d, NEW e, NEW f, NEW g
      PROVE  <<a, b, c, d, e, f>> \o <<g>> = <<a, b, c, d, e, f, g>>
  <2> DEFINE S == {a, b, c, d, e, f, g}
             s == <<a, b, c, d, e, f>>
             t == <<g>>
             u == <<a, b, c, d, e, f, g>>
  <2>1. /\ s \in Seq(S) /\ t \in Seq(S) /\ u \in Seq(S)
        /\ Len(s) = 6 /\ Len(t) = 1 /\ Len(u) = 7
    OBVIOUS
  <2>2. s[1] = a /\ s[2] = b /\ s[3] = c /\ s[4] = d /\ s[5] = e /\ s[6] = f
    OBVIOUS
  <2>3. t[1] = g
    OBVIOUS
  <2>4. u[1] = a /\ u[2] = b /\ u[3] = c /\ u[4] = d /\ u[5] = e /\ u[6] = f /\ u[7] = g
    OBVIOUS
  <2>5. Len(s \o t) = 7 /\ s \o t \in Seq(S)
    BY <2>1
  <2>6. \A i \in 1 .. 6 : (s \o t)[i] = s[i]
    BY <2>1
  <2>7. (s \o t)[7] = t[1]
    BY <2>1
  <2>8. \A i \in 1 .. 7 : (s \o t)[i] = u[i]
    BY <2>2, <2>3, <2>4, <2>6, <2>7
  <2> QED
    BY <2>1, <2>5, <2>8, SeqEqual
<1>7. ASSUME NEW a, NEW b, NEW c
      PROVE  <<a, b>> \o <<c>> = <<a, b, c>>
  <2> DEFINE S == {a, b, c}
             s == <<a, b>>
             t == <<c>>
             u == <<a, b, c>>
  <2>1. /\ s \in Seq(S) /\ t \in Seq(S) /\ u \in Seq(S)
        /\ Len(s) = 2 /\ Len(t) = 1 /\ Len(u) = 3
    OBVIOUS
  <2>2. s[1] = a /\ s[2] = b
    OBVIOUS
  <2>3. t[1] = c
    OBVIOUS
  <2>4. u[1] = a /\ u[2] = b /\ u[3] = c
    OBVIOUS
  <2>5. Len(s \o t) = 3 /\ s \o t \in Seq(S)
    BY <2>1
  <2>6. \A i \in 1 .. 2 : (s \o t)[i] = s[i]
    BY <2>1
  <2>7. (s \o t)[3] = t[1]
    BY <2>1
  <2>8. \A i \in 1 .. 3 : (s \o t)[i] = u[i]
    BY <2>2, <2>3, <2>4, <2>6, <2>7
  <2> QED
    BY <2>1, <2>5, <2>8, SeqEqual
<1>8. ASSUME NEW a, NEW b, NEW c, NEW d, NEW e, NEW f, NEW g, NEW h
      PROVE  <<a, b, c, d, e, f, g>> \o <<h>> = <<a, b, c, d, e, f, g, h>>
  <2> DEFINE S == {a, b, c, d, e, f, g, h}
             s == <<a, b, c, d, e, f, g>>
             t == <<h>>
             u == <<a, b, c, d, e, f, g, h>>
  <2>1. /\ s \in Seq(S) /\ t \in Seq(S) /\ u \in Seq(S)
        /\ Len(s) = 7 /\ Len(t) = 1 /\ Len(u) = 8
    OBVIOUS
  <2>2. s[1] = a /\ s[2] = b /\ s[3] = c /\ s[4] = d /\ s[5] = e /\ s[6] = f /\ s[7] = g
    OBVIOUS
  <2>3. t[1] = h
    OBVIOUS
  <2>4. u[1] = a /\ u[2] = b /\ u[3] = c /\ u[4] = d /\ u[5] = e /\ u[6] = f /\ u[7] = g /\ u[8] = h
    OBVIOUS
  <2>5. Len(s \o t) = 8 /\ s \o t \in Seq(S)
    BY <2>1
  <2>6. \A i \in 1 .. 7 : (s \o t)[i] = s[i]
    BY <2>1
  <2>7. (s \o t)[8] = t[1]
    BY <2>1
  <2>8. \A i \in 1 .. 8 : (s \o t)[i] = u[i]
    BY <2>2, <2>3, <2>4, <2>6, <2>7
  <2> QED
    BY <2>1, <2>5, <2>8, SeqEqual
<1>9. ASSUME NEW a, NEW b, NEW c, NEW d, NEW e, NEW f, NEW g
      PROVE  <<a, b>> \o <<c, d, e, f, g>> = <<a, b, c, d, e, f, g>>
  <2> DEFINE S == {a, b, c, d, e, f, g}
             s == <<a, b>>
             t == <<c, d, e, f, g>>
             u == <<a, b, c, d, e, f, g>>
  <2>1. /\ s \in Seq(S) /\ t \in Seq(S) /\ u \in Seq(S)
        /\ Len(s) = 2 /\ Len(t) = 5 /\ Len(u) = 7
    OBVIOUS
  <2>2. s[1] = a /\ s[2] = b
    OBVIOUS
  <2>3. t[1] = c /\ t[2] = d /\ t[3] = e /\ t[4] = f /\ t[5] = g
    OBVIOUS
  <2>4. u[1] = a /\ u[2] = b /\ u[3] = c /\ u[4] = d /\ u[5] = e /\ u[6] = f /\ u[7] = g
    OBVIOUS
  <2>5. Len(s \o t) = 7 /\ s \o t \in Seq(S)
    BY <2>1
  <2>6. \A i \in 1 .. 2 : (s \o t)[i] = s[i]
    BY <2>1
  <2>7. (s \o t)[3] = t[1] /\ (s \o t)[4] = t[2] /\ (s \o t)[5] = t[3] /\ (s \o t)[6] = t[4] /\ (s \o t)[7] = t[5]
    BY <2>1
  <2>8. \A i \in 1 .. 7 : (s \o t)[i] = u[i]
    BY <2>2, <2>3, <2>4, <2>6, <2>7
  <2> QED
    BY <2>1, <2>5, <2>8, SeqEqual
<1> QED
  BY <1>1, <1>2, <1>3, <1>4, <1>5, <1>6, <1>7, <1>8, <1>9

LEMMA JoinedEmpty ==
  /\ \A a : <<>> \o <<a>> = <<a>> /\ <<a>> \o <<>> = <<a>>
  /\ \A a, b : <<a, b>> \o <<>> = <<a, b>>
  /\ \A a, b, c, d : <<a, b, c, d>> \o <<>> = <<a, b, c, d>>
  /\ \A a, b, c, d, e : <<a, b, c, d, e>> \o <<>> = <<a, b, c, d, e>>
  /\ \A a, b, c, d, e, f : <<a, b, c, d, e, f>> \o <<>> = <<a, b, c, d, e, f>>
OBVIOUS

LEMMA StepNames ==
  \A name \in {"lock", "map", "enter", "copy", "exit", "unmap", "unlock", "wait", "program",
               "erase", "flush", "inform", "wakeup"} : <<name>> \in SpifSteps
BY DEF SpifSteps

LEMMA ReadListIn == \A s : ReadSteps(s) \in Seq(SpifSteps)
<1> TAKE s
<1> DEFINE mapped == s \in Far /\ initFlag
           between == IF bypass THEN <<<<"copy">>>> ELSE <<<<"enter">>, <<"copy">>, <<"exit">>>>
<1>1. ReadSteps(s) = <<<<"lock">>>> \o (IF mapped THEN <<<<"map">>>> ELSE <<>>) \o between
                       \o (IF mapped THEN <<<<"unmap">>>> ELSE <<>>) \o <<<<"unlock">>>>
  BY DEF ReadSteps, When
<1>2. ReadSteps(s) \in Seq(SpifSteps)
  <2>1. between \in Seq(SpifSteps)
    BY StepNames
  <2>2. <<>> \in Seq(SpifSteps) /\ <<<<"map">>>> \in Seq(SpifSteps)
        /\ <<<<"unmap">>>> \in Seq(SpifSteps) /\ <<<<"lock">>>> \in Seq(SpifSteps)
        /\ <<<<"unlock">>>> \in Seq(SpifSteps)
    BY StepNames
  <2> HIDE DEF between, mapped
  <2> QED
    BY <1>1, <2>1, <2>2, ConcatProperties
<1> QED
  BY <1>2

LEMMA ReadList ==
  ASSUME NEW s, initFlag \in BOOLEAN, bypass \in BOOLEAN,
         NEW m \in BOOLEAN, m <=> s \in Far /\ initFlag
  PROVE  ~ bypass => AtReadLock(m, ReadSteps(s))
<1> DEFINE mapped == s \in Far /\ initFlag
           between == IF bypass THEN <<<<"copy">>>> ELSE <<<<"enter">>, <<"copy">>, <<"exit">>>>
<1>1. ReadSteps(s) = <<<<"lock">>>> \o (IF mapped THEN <<<<"map">>>> ELSE <<>>) \o between
                       \o (IF mapped THEN <<<<"unmap">>>> ELSE <<>>) \o <<<<"unlock">>>>
  BY DEF ReadSteps, When
<1>2. ASSUME ~ bypass, mapped PROVE AtReadLock(m, ReadSteps(s))
  <2>1. ReadSteps(s) = <<<<"lock">>, <<"map">>, <<"enter">>, <<"copy">>, <<"exit">>, <<"unmap">>,
                         <<"unlock">>>>
    <3>1. ReadSteps(s) = <<<<"lock">>>> \o <<<<"map">>>> \o <<<<"enter">>, <<"copy">>, <<"exit">>>>
                         \o <<<<"unmap">>>> \o <<<<"unlock">>>>
      BY <1>1, <1>2
    <3>2. <<<<"lock">>>> \o <<<<"map">>>> = <<<<"lock">>, <<"map">>>>
      BY Joined
    <3>3. <<<<"lock">>, <<"map">>>> \o <<<<"enter">>, <<"copy">>, <<"exit">>>>
            = <<<<"lock">>, <<"map">>, <<"enter">>, <<"copy">>, <<"exit">>>>
      BY Joined
    <3>4. <<<<"lock">>, <<"map">>, <<"enter">>, <<"copy">>, <<"exit">>>> \o <<<<"unmap">>>>
            = <<<<"lock">>, <<"map">>, <<"enter">>, <<"copy">>, <<"exit">>, <<"unmap">>>>
      BY Joined
    <3>5. <<<<"lock">>, <<"map">>, <<"enter">>, <<"copy">>, <<"exit">>, <<"unmap">>>>
            \o <<<<"unlock">>>>
            = <<<<"lock">>, <<"map">>, <<"enter">>, <<"copy">>, <<"exit">>, <<"unmap">>, <<"unlock">>>>
      BY Joined
    <3> QED
      BY <3>1, <3>2, <3>3, <3>4, <3>5
  <2> QED
    BY <1>2, <2>1, Tails DEF AtReadLock, AtMap, AtReadEnter, AtCopy, AtReadExit, AtUnmap, AtUnlock, Is
<1>3. ASSUME ~ bypass, ~ mapped PROVE AtReadLock(m, ReadSteps(s))
  <2>1. ReadSteps(s) = <<<<"lock">>, <<"enter">>, <<"copy">>, <<"exit">>, <<"unlock">>>>
    <3>1. ReadSteps(s) = <<<<"lock">>>> \o <<>> \o <<<<"enter">>, <<"copy">>, <<"exit">>>>
                         \o <<>> \o <<<<"unlock">>>>
      BY <1>1, <1>3
    <3>2. <<<<"lock">>>> \o <<>> = <<<<"lock">>>>
      BY JoinedEmpty
    <3>3. <<<<"lock">>>> \o <<<<"enter">>, <<"copy">>, <<"exit">>>>
            = <<<<"lock">>, <<"enter">>, <<"copy">>, <<"exit">>>>
      BY Joined
    <3>4. <<<<"lock">>, <<"enter">>, <<"copy">>, <<"exit">>>> \o <<>>
            = <<<<"lock">>, <<"enter">>, <<"copy">>, <<"exit">>>>
      BY JoinedEmpty
    <3>5. <<<<"lock">>, <<"enter">>, <<"copy">>, <<"exit">>>> \o <<<<"unlock">>>>
            = <<<<"lock">>, <<"enter">>, <<"copy">>, <<"exit">>, <<"unlock">>>>
      BY Joined
    <3> QED
      BY <3>1, <3>2, <3>3, <3>4, <3>5
  <2> QED
    BY <1>3, <2>1, Tails DEF AtReadLock, AtReadEnter, AtCopy, AtReadExit, AtUnlock, Is
<1> QED
  BY <1>2, <1>3

LEMMA WriteList == WriteSteps \in Seq(SpifSteps) /\ AtOpLock("program", WriteSteps)
<1>1. WriteSteps \in Seq(SpifSteps)
  BY StepNames DEF WriteSteps
<1>2. AtOpLock("program", WriteSteps)
  BY Tails DEF WriteSteps, AtOpLock, AtOpEnter, AtFirstWait, AtStart, AtOpWait, AtOpExit,
               AtUnlock, Is
<1> QED
  BY <1>1, <1>2

LEMMA EraseList ==
  ASSUME bypass \in BOOLEAN
  PROVE  /\ EraseSteps \in Seq(SpifSteps)
         /\ ~ bypass => AtOpLock("erase", EraseSteps)
<1>1. EraseSteps \in Seq(SpifSteps)
  <2>1. /\ <<<<"lock">>, <<"enter">>, <<"wait">>, <<"erase">>, <<"wait">>, <<"exit">>>>
             \in Seq(SpifSteps)
        /\ <<>> \in Seq(SpifSteps) /\ <<<<"flush">>>> \in Seq(SpifSteps)
        /\ <<<<"unlock">>>> \in Seq(SpifSteps)
    BY StepNames
  <2> QED
    BY <2>1, ConcatProperties DEF EraseSteps, When
<1>2. ASSUME ~ bypass PROVE AtOpLock("erase", EraseSteps)
  <2>1. EraseSteps = <<<<"lock">>, <<"enter">>, <<"wait">>, <<"erase">>, <<"wait">>, <<"exit">>,
                       <<"flush">>, <<"unlock">>>>
    <3>1. EraseSteps = <<<<"lock">>, <<"enter">>, <<"wait">>, <<"erase">>, <<"wait">>, <<"exit">>>>
                         \o <<<<"flush">>>> \o <<<<"unlock">>>>
      BY <1>2 DEF EraseSteps, When
    <3>2. <<<<"lock">>, <<"enter">>, <<"wait">>, <<"erase">>, <<"wait">>, <<"exit">>>>
            \o <<<<"flush">>>>
            = <<<<"lock">>, <<"enter">>, <<"wait">>, <<"erase">>, <<"wait">>, <<"exit">>, <<"flush">>>>
      BY Joined
    <3>3. <<<<"lock">>, <<"enter">>, <<"wait">>, <<"erase">>, <<"wait">>, <<"exit">>, <<"flush">>>>
            \o <<<<"unlock">>>>
            = <<<<"lock">>, <<"enter">>, <<"wait">>, <<"erase">>, <<"wait">>, <<"exit">>, <<"flush">>,
                <<"unlock">>>>
      BY Joined
    <3> QED
      BY <3>1, <3>2, <3>3
  <2> QED
    BY <2>1, Tails DEF AtOpLock, AtOpEnter, AtFirstWait, AtStart, AtOpWait, AtOpExit, AtFlush,
                       AtUnlock, Is
<1> QED
  BY <1>1, <1>2

LEMMA ConfigList ==
  ASSUME initFlag \in BOOLEAN
  PROVE  /\ ConfigSteps \in Seq(SpifSteps) /\ AtConfigFlush(initFlag, ConfigSteps)
         /\ ConfigSteps \o <<<<"wakeup">>>> \in Seq(SpifSteps)
         /\ AtConfigFlush(initFlag, ConfigSteps \o <<<<"wakeup">>>>)
<1>1. CASE initFlag
  <2>1. ConfigSteps = <<<<"flush">>, <<"exit">>>>
    <3>1. ConfigSteps = <<<<"flush">>, <<"exit">>>> \o <<>>
      BY <1>1 DEF ConfigSteps, InfoSteps, When
    <3> QED
      BY <3>1, JoinedEmpty
  <2>2. ConfigSteps \o <<<<"wakeup">>>> = <<<<"flush">>, <<"exit">>, <<"wakeup">>>>
    BY <2>1, Joined
  <2>3. /\ <<<<"flush">>, <<"exit">>>> \in Seq(SpifSteps)
        /\ <<<<"flush">>, <<"exit">>, <<"wakeup">>>> \in Seq(SpifSteps)
    BY StepNames
  <2>4. /\ AtConfigFlush(initFlag, <<<<"flush">>, <<"exit">>>>)
        /\ AtConfigFlush(initFlag, <<<<"flush">>, <<"exit">>, <<"wakeup">>>>)
    BY <1>1, Tails DEF AtConfigFlush, AtConfigExit, Configured, AtWakeup, Is
  <2> QED
    BY <2>1, <2>2, <2>3, <2>4
<1>2. CASE ~ initFlag
  <2>1. ConfigSteps = <<<<"flush">>, <<"exit">>, <<"lock">>, <<"wait">>, <<"wait">>, <<"unlock">>,
                        <<"inform">>>>
    <3>1. ConfigSteps = <<<<"flush">>, <<"exit">>>>
                          \o <<<<"lock">>, <<"wait">>, <<"wait">>, <<"unlock">>, <<"inform">>>>
      BY <1>2 DEF ConfigSteps, InfoSteps, When
    <3>2. <<<<"flush">>, <<"exit">>>>
                          \o <<<<"lock">>, <<"wait">>, <<"wait">>, <<"unlock">>, <<"inform">>>>
          = <<<<"flush">>, <<"exit">>, <<"lock">>, <<"wait">>, <<"wait">>, <<"unlock">>, <<"inform">>>>
      BY Joined
    <3> QED
      BY <3>1, <3>2
  <2>2. ConfigSteps \o <<<<"wakeup">>>>
          = <<<<"flush">>, <<"exit">>, <<"lock">>, <<"wait">>, <<"wait">>, <<"unlock">>, <<"inform">>,
              <<"wakeup">>>>
    <3>1. <<<<"flush">>, <<"exit">>, <<"lock">>, <<"wait">>, <<"wait">>, <<"unlock">>, <<"inform">>>>
            \o <<<<"wakeup">>>>
          = <<<<"flush">>, <<"exit">>, <<"lock">>, <<"wait">>, <<"wait">>, <<"unlock">>, <<"inform">>,
              <<"wakeup">>>>
      BY Joined
    <3> QED
      BY <2>1, <3>1
  <2>3. /\ ConfigSteps \in Seq(SpifSteps) /\ ConfigSteps \o <<<<"wakeup">>>> \in Seq(SpifSteps)
    <3>1. /\ <<<<"flush">>, <<"exit">>, <<"lock">>, <<"wait">>, <<"wait">>, <<"unlock">>, <<"inform">>>>
               \in Seq(SpifSteps)
          /\ <<<<"wakeup">>>> \in Seq(SpifSteps)
      BY StepNames
    <3> QED
      BY <2>1, <3>1, ConcatProperties
  <2>4. AtConfigFlush(initFlag, ConfigSteps)
    BY <1>2, <2>1, Tails DEF AtConfigFlush, AtConfigExit, AtInfoLock, AtInfoFirstWait, AtInfoWait,
                             AtInfoUnlock, AtInform, Configured, Is
  <2>5. AtConfigFlush(initFlag, ConfigSteps \o <<<<"wakeup">>>>)
    <3>1. Configured(<<<<"wakeup">>>>)
      BY Tails DEF Configured, AtWakeup, Is
    <3>2. AtInfoLock(<<<<"lock">>, <<"wait">>, <<"wait">>, <<"unlock">>, <<"inform">>, <<"wakeup">>>>)
      BY <3>1, Tails DEF AtInfoLock, AtInfoFirstWait, AtInfoWait, AtInfoUnlock, AtInform, Is
    <3>3. AtConfigFlush(FALSE, <<<<"flush">>, <<"exit">>, <<"lock">>, <<"wait">>, <<"wait">>,
                                 <<"unlock">>, <<"inform">>, <<"wakeup">>>>)
      BY <3>2, Tails DEF AtConfigFlush, AtConfigExit, Is
    <3> QED
      BY <1>2, <2>2, <3>3
  <2> QED
    BY <2>3, <2>4, <2>5
<1> QED
  BY <1>1, <1>2

LEMMA TimerLists ==
  /\ \A t, time : time \in {"none", "some"} => AtHook(t, SetSteps(t, time))
  /\ \A t, en : en \in BOOLEAN => AtControl(t, <<<<"control", t>>, <<"mask", t, en>>>>)
  /\ AtStop(<<<<"stop", Timers>>>>)
<1>1. ASSUME NEW t, NEW time \in {"none", "some"} PROVE AtHook(t, SetSteps(t, time))
  BY Tails DEF SetSteps, AtHook, AtArm, AtLoad, AtSetGates, AtClock, Is
<1>2. ASSUME NEW t, NEW en \in BOOLEAN PROVE AtControl(t, <<<<"control", t>>, <<"mask", t, en>>>>)
  BY Tails DEF AtControl, AtMask, Is
<1>3. AtStop(<<<<"stop", Timers>>>>)
  <2>1. Timers \in (SUBSET Timers) \ {{}}
    BY TimerAssumption
  <2> QED
    <3>1. Is(<<<<"stop", Timers>>>>, <<"stop", Timers>>) /\ Tail(<<<<"stop", Timers>>>>) = <<>>
      BY Tails DEF Is
    <3> QED
      BY <2>1, <3>1 DEF AtStop
<1> QED
  BY <1>1, <1>2, <1>3

LEMMA StopList ==
  ASSUME NEW ts \in SUBSET Timers, NEW t \in ts
  PROVE  /\ AtUnhook(t, StopSteps(t))
         /\ AtUnhook(t, StopSteps(t) \o IF ts = {t} THEN <<>> ELSE <<<<"stop", ts \ {t}>>>>)
<1>0. AtUnhook(t, StopSteps(t))
  BY Tails DEF StopSteps, AtUnhook, AtHalt, AtDisarm, AtStopGates, AtUnclock, Is
<1>1. CASE ts = {t}
  <2>1. StopSteps(t) \o <<>> = StopSteps(t)
    BY JoinedEmpty DEF StopSteps
  <2> QED
    BY <1>0, <1>1, <2>1
<1>2. CASE ts # {t}
  <2> DEFINE rest == ts \ {t}
  <2>1. StopSteps(t) \o <<<<"stop", rest>>>>
        = <<<<"unhook", t>>, <<"halt", t>>, <<"disarm", t>>, <<"gates">>, <<"unclock", t>>,
            <<"stop", rest>>>>
    BY Joined DEF StopSteps
  <2>2. AtStop(<<<<"stop", rest>>>>)
    <3>1. rest \in (SUBSET Timers) \ {{}}
      BY <1>2
    <3>2. Is(<<<<"stop", rest>>>>, <<"stop", rest>>) /\ Tail(<<<<"stop", rest>>>>) = <<>>
      BY Tails DEF Is
    <3> QED
      BY <3>1, <3>2 DEF AtStop
  <2> HIDE DEF rest
  <2>3. AtUnhook(t, <<<<"unhook", t>>, <<"halt", t>>, <<"disarm", t>>, <<"gates">>, <<"unclock", t>>,
                      <<"stop", rest>>>>)
    BY <2>2, Tails DEF AtUnhook, AtHalt, AtDisarm, AtStopGates, AtUnclock, Is
  <2> QED
    BY <1>0, <1>2, <2>1, <2>3 DEF rest
<1> QED
  BY <1>1, <1>2

-----------------------------------------------------------------------------
(* The places, told apart by the names of their first steps.               *)

SpifNames == {"lock", "map", "enter", "copy", "exit", "unmap", "unlock", "wait", "program",
              "erase", "flush", "inform", "wakeup"}
TimerNames == {"hook", "arm", "load", "gates", "clock", "unhook", "halt", "disarm", "unclock",
               "stop", "control", "mask"}

LEMMA SpifName ==
  ASSUME NEW s \in Seq(SpifSteps), s # <<>>
  PROVE  Head(s)[1] \in SpifNames /\ Head(s) = <<Head(s)[1]>> /\ Tail(s) \in Seq(SpifSteps)
BY DEF SpifSteps, SpifNames

LEMMA SetPlaces ==
  ASSUME NEW s, NEW t
  PROVE  /\ AtHook(t, s) => /\ s # <<>> /\ Head(s)[1] = "hook" /\ Head(s)[2] = t
                            /\ AtArm(t, Tail(s))
         /\ AtArm(t, s) => /\ s # <<>> /\ Head(s)[1] = "arm" /\ Head(s)[2] = t
                           /\ AtLoad(t, Tail(s))
         /\ AtLoad(t, s) => /\ s # <<>> /\ Head(s)[1] = "load" /\ Head(s)[2] = t
                            /\ AtSetGates(t, Tail(s))
         /\ AtSetGates(t, s) => s # <<>> /\ Head(s)[1] = "gates" /\ AtClock(t, Tail(s))
         /\ AtClock(t, s) => /\ s # <<>> /\ Head(s)[1] = "clock" /\ Head(s)[2] = t
                             /\ Tail(s) = <<>>
<1>1. ASSUME AtLoad(t, s)
      PROVE  s # <<>> /\ Head(s)[1] = "load" /\ Head(s)[2] = t /\ AtSetGates(t, Tail(s))
  <2>1. PICK time \in {"none", "some"} : Is(s, <<"load", t, time>>)
    BY <1>1 DEF AtLoad
  <2>2. s # <<>> /\ Head(s) = <<"load", t, time>>
    BY <2>1 DEF Is
  <2> QED
    BY <1>1, <2>2 DEF AtLoad
<1> QED
  BY <1>1 DEF AtHook, AtArm, AtSetGates, AtClock, Is

LEMMA StopPlaces ==
  ASSUME NEW s, NEW t
  PROVE  /\ AtStop(s) => s # <<>> /\ Head(s)[1] = "stop" /\ Tail(s) = <<>>
         /\ AtUnhook(t, s) => /\ s # <<>> /\ Head(s)[1] = "unhook" /\ Head(s)[2] = t
                              /\ AtHalt(t, Tail(s))
         /\ AtHalt(t, s) => /\ s # <<>> /\ Head(s)[1] = "halt" /\ Head(s)[2] = t
                            /\ AtDisarm(t, Tail(s))
         /\ AtDisarm(t, s) => /\ s # <<>> /\ Head(s)[1] = "disarm" /\ Head(s)[2] = t
                              /\ AtStopGates(t, Tail(s))
         /\ AtStopGates(t, s) => s # <<>> /\ Head(s)[1] = "gates" /\ AtUnclock(t, Tail(s))
         /\ AtUnclock(t, s) => /\ s # <<>> /\ Head(s)[1] = "unclock" /\ Head(s)[2] = t
                               /\ (Tail(s) = <<>> \/ AtStop(Tail(s)))
<1>1. ASSUME AtStop(s)
      PROVE  s # <<>> /\ Head(s)[1] = "stop" /\ Tail(s) = <<>>
  <2>1. PICK ts \in (SUBSET Timers) \ {{}} : Is(s, <<"stop", ts>>)
    BY <1>1 DEF AtStop
  <2>2. s # <<>> /\ Head(s) = <<"stop", ts>>
    BY <2>1 DEF Is
  <2> QED
    BY <1>1, <2>2 DEF AtStop
<1>2. ASSUME AtUnclock(t, s)
      PROVE  /\ s # <<>> /\ Head(s)[1] = "unclock" /\ Head(s)[2] = t
             /\ (Tail(s) = <<>> \/ AtStop(Tail(s)))
  BY <1>2 DEF AtUnclock, Is
<1>3. AtUnhook(t, s) => /\ s # <<>> /\ Head(s)[1] = "unhook" /\ Head(s)[2] = t
                        /\ AtHalt(t, Tail(s))
  BY DEF AtUnhook, Is
<1>4. AtHalt(t, s) => /\ s # <<>> /\ Head(s)[1] = "halt" /\ Head(s)[2] = t
                      /\ AtDisarm(t, Tail(s))
  BY DEF AtHalt, Is
<1>5. AtDisarm(t, s) => /\ s # <<>> /\ Head(s)[1] = "disarm" /\ Head(s)[2] = t
                        /\ AtStopGates(t, Tail(s))
  BY DEF AtDisarm, Is
<1>6. AtStopGates(t, s) => s # <<>> /\ Head(s)[1] = "gates" /\ AtUnclock(t, Tail(s))
  BY DEF AtStopGates, Is
<1> QED
  BY <1>1, <1>2, <1>3, <1>4, <1>5, <1>6

LEMMA MaskPlaces ==
  ASSUME NEW s, NEW t
  PROVE  /\ AtControl(t, s) => /\ s # <<>> /\ Head(s)[1] = "control" /\ Head(s)[2] = t
                               /\ AtMask(t, Tail(s))
         /\ AtMask(t, s) => /\ s # <<>> /\ Head(s)[1] = "mask" /\ Head(s)[2] = t
                            /\ Tail(s) = <<>>
BY DEF AtControl, AtMask, Is

LEMMA TimerName ==
  ASSUME NEW s, InTimerCall(s)
  PROVE  s # <<>> /\ Head(s)[1] \in TimerNames
BY SetPlaces, StopPlaces, MaskPlaces DEF InTimerCall, Setting, Stopping, Masking, TimerNames

LEMMA NoTimerPlace ==
  ASSUME NEW s, s = <<>> \/ s \in Seq(SpifSteps) \/ Head(s)[1] \in SpifNames
  PROVE  ~ InTimerCall(s)
BY TimerName, SpifName DEF TimerNames, SpifNames

LEMMA Found ==
  ASSUME NEW s, InTimerCall(s), NEW t \in Timers
  PROVE  /\ Head(s)[1] = "hook" /\ Head(s)[2] = t => AtHook(t, s)
         /\ Head(s)[1] = "arm" /\ Head(s)[2] = t => AtArm(t, s)
         /\ Head(s)[1] = "load" /\ Head(s)[2] = t => AtLoad(t, s)
         /\ Head(s)[1] = "clock" /\ Head(s)[2] = t => AtClock(t, s)
         /\ Head(s)[1] = "unhook" /\ Head(s)[2] = t => AtUnhook(t, s)
         /\ Head(s)[1] = "halt" /\ Head(s)[2] = t => AtHalt(t, s)
         /\ Head(s)[1] = "disarm" /\ Head(s)[2] = t => AtDisarm(t, s)
         /\ Head(s)[1] = "unclock" /\ Head(s)[2] = t => AtUnclock(t, s)
         /\ Head(s)[1] = "control" /\ Head(s)[2] = t => AtControl(t, s)
         /\ Head(s)[1] = "mask" /\ Head(s)[2] = t => AtMask(t, s)
         /\ Head(s)[1] = "gates" => \E u \in Timers : AtSetGates(u, s) \/ AtStopGates(u, s)
<1>1. Head(s)[1] = "hook" /\ Head(s)[2] = t => AtHook(t, s)
  BY SetPlaces, StopPlaces, MaskPlaces DEF InTimerCall, Setting, Stopping, Masking
<1>2. Head(s)[1] = "arm" /\ Head(s)[2] = t => AtArm(t, s)
  BY SetPlaces, StopPlaces, MaskPlaces DEF InTimerCall, Setting, Stopping, Masking
<1>3. Head(s)[1] = "load" /\ Head(s)[2] = t => AtLoad(t, s)
  BY SetPlaces, StopPlaces, MaskPlaces DEF InTimerCall, Setting, Stopping, Masking
<1>4. Head(s)[1] = "clock" /\ Head(s)[2] = t => AtClock(t, s)
  BY SetPlaces, StopPlaces, MaskPlaces DEF InTimerCall, Setting, Stopping, Masking
<1>5. ASSUME Head(s)[1] = "unhook", Head(s)[2] = t
      PROVE  AtUnhook(t, s)
  <2>1. PICK u \in Timers : Stopping(u, s)
    BY <1>5, SetPlaces, StopPlaces, MaskPlaces DEF InTimerCall, Setting, Masking
  <2>2. AtUnhook(u, s)
    BY <1>5, <2>1, StopPlaces DEF Stopping
  <2> QED
    BY <1>5, <2>2, StopPlaces
<1>6. Head(s)[1] = "halt" /\ Head(s)[2] = t => AtHalt(t, s)
  BY SetPlaces, StopPlaces, MaskPlaces DEF InTimerCall, Setting, Stopping, Masking
<1>7. Head(s)[1] = "disarm" /\ Head(s)[2] = t => AtDisarm(t, s)
  BY SetPlaces, StopPlaces, MaskPlaces DEF InTimerCall, Setting, Stopping, Masking
<1>8. Head(s)[1] = "unclock" /\ Head(s)[2] = t => AtUnclock(t, s)
  BY SetPlaces, StopPlaces, MaskPlaces DEF InTimerCall, Setting, Stopping, Masking
<1>9. Head(s)[1] = "control" /\ Head(s)[2] = t => AtControl(t, s)
  BY SetPlaces, StopPlaces, MaskPlaces DEF InTimerCall, Setting, Stopping, Masking
<1>10. Head(s)[1] = "mask" /\ Head(s)[2] = t => AtMask(t, s)
  BY SetPlaces, StopPlaces, MaskPlaces DEF InTimerCall, Setting, Stopping, Masking
<1>11. Head(s)[1] = "gates" => \E u \in Timers : AtSetGates(u, s) \/ AtStopGates(u, s)
  BY SetPlaces, StopPlaces, MaskPlaces DEF InTimerCall, Setting, Stopping, Masking
<1> QED
  BY <1>1, <1>2, <1>3, <1>4, <1>5, <1>6, <1>7, <1>8, <1>9, <1>10, <1>11

-----------------------------------------------------------------------------
(* The timers.                                                             *)

NoTimerAt(s) ==
  \A t \in Timers :
    /\ ~ AtHook(t, s) /\ ~ AtArm(t, s) /\ ~ AtLoad(t, s) /\ ~ AtSetGates(t, s) /\ ~ AtClock(t, s)
    /\ ~ AtUnhook(t, s) /\ ~ AtHalt(t, s) /\ ~ AtDisarm(t, s) /\ ~ AtStopGates(t, s)
    /\ ~ AtUnclock(t, s) /\ ~ AtControl(t, s) /\ ~ AtMask(t, s)

LEMMA NoTimer ==
  ASSUME NEW s, ~ InTimerCall(s)
  PROVE  NoTimerAt(s)
BY DEF NoTimerAt, InTimerCall, Setting, Stopping, Masking

LEMMA QuietTimers ==
  ASSUME LiveInv, LoadedInv, NoTimerAt(todo), NoTimerAt(todo'),
         UNCHANGED <<hooked, ctrl, status, clocked, loaded, live>>
  PROVE  LiveInv' /\ LoadedInv'
BY DEF LiveInv, LoadedInv, NoTimerAt, Still

LEMMA SpifHead ==
  ASSUME SpifStep
  PROVE  /\ todo # <<>> /\ Head(todo)[1] \in SpifNames
         /\ todo' = Tail(todo) \/ todo' = <<>>
BY DEF SpifStep, SpifLock, SpifUnlock, EnterBypass, ExitBypass, TagFlush, Map, WaitNoBusy, GiveUp,
       Start, Copy, Inform, Step, SpifNames

LEMMA SpifTodo ==
  ASSUME TodoInv, SpifStep
  PROVE  /\ todo \in Seq(SpifSteps) /\ todo' \in Seq(SpifSteps)
         /\ NoTimerAt(todo) /\ NoTimerAt(todo')
<1>1. todo \in Seq(SpifSteps)
  BY SpifHead, NoTimerPlace DEF TodoInv
<1>2. todo' \in Seq(SpifSteps)
  <2>1. <<>> \in Seq(SpifSteps) /\ Tail(todo) \in Seq(SpifSteps)
    BY <1>1, SpifHead, SpifName
  <2> QED
    BY <2>1, SpifHead
<1> QED
  BY <1>1, <1>2, NoTimerPlace, NoTimer

LEMMA SpifTypes ==
  ASSUME TypesInv, SpifStep, UNCHANGED timerVars
  PROVE  TypesInv'
<1> USE DEF TypesInv, timerVars, RadioIrqs
<1>1. CASE SpifLock \/ SpifUnlock
  <2>1. None \in Requests
    BY DEF Requests, None
  <2> QED
    BY <1>1, <2>1 DEF SpifLock, SpifUnlock, Ended
<1>2. CASE EnterBypass \/ TagFlush
  BY <1>2 DEF EnterBypass, TagFlush
<1>3. CASE ExitBypass \/ Inform
  <2>1. None \in Requests
    BY DEF Requests, None
  <2> QED
    BY <1>3, <2>1 DEF ExitBypass, Inform, Ended
<1>4. CASE \E on \in BOOLEAN : Map(on)
  BY <1>4 DEF Map
<1>5. CASE WaitNoBusy
  BY <1>5 DEF WaitNoBusy, spifVars
<1>6. CASE GiveUp
  <2>1. None \in Requests
    BY DEF Requests, None
  <2> QED
    BY <1>6, <2>1 DEF GiveUp
<1>7. CASE \E op \in {"program", "erase"} : Start(op)
  BY <1>7 DEF Start, ChipStates, Requests
<1>8. CASE Copy
  <2>1. UNION {flash[s] : s \in request.on} \in SUBSET Items
    BY DEF Requests
  <2> QED
    BY <1>8, <2>1 DEF Copy
<1> QED
  BY <1>1, <1>2, <1>3, <1>4, <1>5, <1>6, <1>7, <1>8 DEF SpifStep

TimerInv == TodoInv /\ LiveInv /\ LoadedInv

LEMMA FlashSteps ==
  ASSUME TypesInv, TimerInv, UNCHANGED timerVars,
         \/ SpifStep
         \/ FlashRead \/ FlashWrite \/ FlashErase
         \/ ChipDone
         \/ \E s \in Sectors : Fetch(s)
  PROVE  TypesInv' /\ TimerInv'
<1> USE DEF TimerInv
<1>1. CASE SpifStep
  <2>1. hooked' = hooked
    BY <1>1 DEF SpifStep, SpifLock, SpifUnlock, EnterBypass, ExitBypass, TagFlush, Map, WaitNoBusy,
                GiveUp, Start, Copy, Inform
  <2> QED
    BY <1>1, <2>1, SpifTypes, SpifTodo, QuietTimers DEF TodoInv, timerVars
<1>2. CASE FlashRead \/ FlashWrite \/ FlashErase
  <2>1. todo = <<>> /\ hooked' = hooked
    BY <1>2 DEF FlashRead, FlashWrite, FlashErase, Call
  <2>2. todo' \in Seq(SpifSteps)
    BY <1>2, ReadListIn, WriteList, EraseList DEF FlashRead, FlashWrite, FlashErase, Call, TypesInv
  <2>3. TypesInv'
    <3>1. request' \in Requests
      BY <1>2 DEF FlashRead, FlashWrite, FlashErase, Requests
    <3>2. UNCHANGED <<enabled, pending, hooked, flash, chip, cache, bypass, remap, initFlag, saved,
                      value, gaveUp>>
      BY <1>2 DEF FlashRead, FlashWrite, FlashErase
    <3> QED
      BY <3>1, <3>2 DEF TypesInv, timerVars
  <2> QED
    BY <2>1, <2>2, <2>3, NoTimerPlace, NoTimer, QuietTimers DEF TodoInv, timerVars
<1>3. CASE ChipDone
  <2>1. UNCHANGED <<todo, hooked>>
    BY <1>3 DEF ChipDone
  <2>2. TypesInv'
    <3>1. flash' \in [Sectors -> SUBSET Items] /\ chip' \in ChipStates
      BY <1>3 DEF ChipDone, TypesInv, None, ChipStates
    <3> QED
      BY <1>3, <3>1 DEF ChipDone, TypesInv, timerVars
  <2>3. LiveInv' /\ LoadedInv' /\ TodoInv'
    BY <2>1 DEF LiveInv, LoadedInv, TodoInv, timerVars, Still
  <2> QED
    BY <2>2, <2>3
<1>4. CASE \E s \in Sectors : Fetch(s)
  <2>1. UNCHANGED <<todo, hooked>>
    BY <1>4 DEF Fetch, processor
  <2>2. TypesInv'
    BY <1>4 DEF Fetch, processor, TypesInv, timerVars
  <2>3. LiveInv' /\ LoadedInv' /\ TodoInv'
    BY <2>1 DEF LiveInv, LoadedInv, TodoInv, timerVars, Still
  <2> QED
    BY <2>2, <2>3
<1> QED
  BY <1>1, <1>2, <1>3, <1>4

LEMMA TimerCalls ==
  ASSUME TypesInv, TimerInv, UNCHANGED spifVars,
         TimerSet \/ TimerStop \/ TimerMaskInt \/ TimersInit \/ TimersDeinit
  PROVE  TypesInv' /\ TimerInv'
<1>1. /\ todo = <<>> /\ UNCHANGED <<enabled, pending, hooked, ctrl, status, clocked, loaded, live>>
      /\ callback' \in BOOLEAN
  BY DEF TypesInv, TimerSet, TimerStop, TimerMaskInt, TimersInit, TimersDeinit, Call, timerVars
<1>2. \/ todo' = <<>> \/ AtStop(todo')
      \/ \E t \in Timers : AtHook(t, todo') \/ AtUnhook(t, todo') \/ AtControl(t, todo')
  <2>1. CASE TimerSet
    BY <2>1, TimerLists DEF TimerSet, Call
  <2>2. CASE TimerStop
    <3>1. PICK t \in Timers : todo' = StopSteps(t)
      BY <2>2 DEF TimerStop, Call
    <3>2. {t} \in SUBSET Timers /\ t \in {t}
      OBVIOUS
    <3> QED
      BY <3>1, <3>2, StopList
  <2>3. CASE TimerMaskInt
    BY <2>3, TimerLists DEF TimerMaskInt, Call
  <2>4. CASE TimersInit
    BY <2>4, TimerLists DEF TimersInit, Call
  <2>5. CASE TimersDeinit
    BY <2>5 DEF TimersDeinit, Call
  <2> QED
    BY <2>1, <2>2, <2>3, <2>4, <2>5
<1>3. TypesInv'
  BY <1>1 DEF TypesInv, spifVars
<1>4. TodoInv'
  <2>1. <<>> \in Seq(SpifSteps)
    OBVIOUS
  <2> QED
    BY <1>2, <2>1 DEF TodoInv, InTimerCall, Setting, Stopping, Masking
<1>5. \A t \in Timers :
        /\ ~ AtHalt(t, todo') /\ ~ AtSetGates(t, todo') /\ ~ AtClock(t, todo')
        /\ ~ AtUnclock(t, todo') /\ ~ AtMask(t, todo')
  <2>1. todo' = <<>> \/ Head(todo')[1] \in {"stop", "hook", "unhook", "control"}
    BY <1>2, SetPlaces, StopPlaces, MaskPlaces
  <2> QED
    BY <2>1, SetPlaces, StopPlaces, MaskPlaces
<1>6. NoTimerAt(todo)
  BY <1>1, NoTimerPlace, NoTimer
<1>7. LiveInv'
  BY <1>1, <1>5, <1>6 DEF TimerInv, LiveInv, NoTimerAt, Still
<1>8. LoadedInv'
  BY <1>5 DEF LoadedInv
<1> QED
  BY <1>3, <1>4, <1>7, <1>8 DEF TimerInv

(* Of the places the invariants of the timers speak of, a list of steps is  *)
(* at no other than its own.                                               *)
Elsewhere(u, s) ==
  /\ ~ AtArm(u, s) /\ ~ AtLoad(u, s) /\ ~ AtSetGates(u, s) /\ ~ AtClock(u, s)
  /\ ~ AtHalt(u, s) /\ ~ AtUnclock(u, s) /\ ~ AtMask(u, s)

LEMMA Gates ==
  ASSUME NEW s, NEW t, NEW u
  PROVE  ~ (AtSetGates(t, s) /\ AtStopGates(u, s))
<1>1. ASSUME AtSetGates(t, s), AtStopGates(u, s) PROVE FALSE
  <2>1. AtClock(t, Tail(s)) /\ AtUnclock(u, Tail(s))
    BY <1>1, SetPlaces, StopPlaces
  <2>2. Head(Tail(s))[1] = "clock" /\ Head(Tail(s))[1] = "unclock"
    BY <2>1, SetPlaces, StopPlaces
  <2> QED
    BY <2>2
<1> QED
  BY <1>1

LEMMA NotThere ==
  ASSUME NEW s, NEW t, NEW u,
         \/ s = <<>> \/ AtStop(s) \/ AtHook(t, s) \/ AtUnhook(t, s) \/ AtDisarm(t, s)
         \/ AtStopGates(t, s) \/ AtControl(t, s)
  PROVE  Elsewhere(u, s)
<1>1. CASE s = <<>>
  BY <1>1, SetPlaces, StopPlaces, MaskPlaces DEF Elsewhere
<1>2. CASE AtStopGates(t, s)
  BY <1>2, Gates, SetPlaces, StopPlaces, MaskPlaces DEF Elsewhere
<1>3. CASE AtStop(s) \/ AtHook(t, s) \/ AtUnhook(t, s) \/ AtDisarm(t, s) \/ AtControl(t, s)
  <2>1. Head(s)[1] \in {"stop", "hook", "unhook", "disarm", "control"}
    BY <1>3, SetPlaces, StopPlaces, MaskPlaces
  <2> QED
    BY <2>1, SetPlaces, StopPlaces, MaskPlaces DEF Elsewhere
<1> QED
  BY <1>1, <1>2, <1>3

LEMMA OnlyArm ==
  ASSUME NEW s, NEW t, NEW u, AtArm(t, s)
  PROVE  /\ ~ AtLoad(u, s) /\ ~ AtSetGates(u, s) /\ ~ AtClock(u, s)
         /\ ~ AtHalt(u, s) /\ ~ AtUnclock(u, s) /\ ~ AtMask(u, s)
         /\ AtArm(u, s) => u = t
<1>1. Head(s)[1] = "arm" /\ Head(s)[2] = t
  BY SetPlaces
<1>2. ASSUME AtArm(u, s) PROVE u = t
  BY <1>1, <1>2, SetPlaces
<1> QED
  BY <1>1, <1>2, SetPlaces, StopPlaces, MaskPlaces

LEMMA OnlyLoad ==
  ASSUME NEW s, NEW t, NEW u, AtLoad(t, s)
  PROVE  /\ ~ AtArm(u, s) /\ ~ AtSetGates(u, s) /\ ~ AtClock(u, s)
         /\ ~ AtHalt(u, s) /\ ~ AtUnclock(u, s) /\ ~ AtMask(u, s)
         /\ AtLoad(u, s) => u = t
<1>1. Head(s)[1] = "load" /\ Head(s)[2] = t
  BY SetPlaces
<1>2. ASSUME AtLoad(u, s) PROVE u = t
  BY <1>1, <1>2, SetPlaces
<1> QED
  BY <1>1, <1>2, SetPlaces, StopPlaces, MaskPlaces

LEMMA OnlySetGates ==
  ASSUME NEW s, NEW t, NEW u, AtSetGates(t, s)
  PROVE  /\ ~ AtArm(u, s) /\ ~ AtLoad(u, s) /\ ~ AtClock(u, s)
         /\ ~ AtHalt(u, s) /\ ~ AtUnclock(u, s) /\ ~ AtMask(u, s)
         /\ AtSetGates(u, s) => u = t
<1>1. u = t \/ ~ AtSetGates(u, s)
  <2>1. ASSUME AtSetGates(u, s) PROVE u = t
    <3>1. AtClock(t, Tail(s)) /\ AtClock(u, Tail(s))
      BY <2>1, SetPlaces
    <3>2. Head(Tail(s))[2] = t
      BY <3>1, SetPlaces
    <3>3. Head(Tail(s))[2] = u
      BY <3>1, SetPlaces
    <3> QED
      BY <3>2, <3>3
  <2> QED
    BY <2>1
<1>2. Head(s)[1] = "gates"
  BY SetPlaces
<1> QED
  BY <1>1, <1>2, SetPlaces, StopPlaces, MaskPlaces

LEMMA OnlyClock ==
  ASSUME NEW s, NEW t, NEW u, AtClock(t, s)
  PROVE  /\ ~ AtArm(u, s) /\ ~ AtLoad(u, s) /\ ~ AtSetGates(u, s)
         /\ ~ AtHalt(u, s) /\ ~ AtUnclock(u, s) /\ ~ AtMask(u, s)
         /\ AtClock(u, s) => u = t
<1>1. Head(s)[1] = "clock" /\ Head(s)[2] = t
  BY SetPlaces
<1>2. ASSUME AtClock(u, s) PROVE u = t
  BY <1>1, <1>2, SetPlaces
<1> QED
  BY <1>1, <1>2, SetPlaces, StopPlaces, MaskPlaces

LEMMA OnlyHalt ==
  ASSUME NEW s, NEW t, NEW u, AtHalt(t, s)
  PROVE  /\ ~ AtArm(u, s) /\ ~ AtLoad(u, s) /\ ~ AtSetGates(u, s)
         /\ ~ AtClock(u, s) /\ ~ AtUnclock(u, s) /\ ~ AtMask(u, s)
         /\ AtHalt(u, s) => u = t
<1>1. Head(s)[1] = "halt" /\ Head(s)[2] = t
  BY StopPlaces
<1>2. ASSUME AtHalt(u, s) PROVE u = t
  BY <1>1, <1>2, StopPlaces
<1> QED
  BY <1>1, <1>2, SetPlaces, StopPlaces, MaskPlaces

LEMMA OnlyUnclock ==
  ASSUME NEW s, NEW t, NEW u, AtUnclock(t, s)
  PROVE  /\ ~ AtArm(u, s) /\ ~ AtLoad(u, s) /\ ~ AtSetGates(u, s)
         /\ ~ AtClock(u, s) /\ ~ AtHalt(u, s) /\ ~ AtMask(u, s)
         /\ AtUnclock(u, s) => u = t
<1>1. Head(s)[1] = "unclock" /\ Head(s)[2] = t
  BY StopPlaces
<1>2. ASSUME AtUnclock(u, s) PROVE u = t
  BY <1>1, <1>2, StopPlaces
<1> QED
  BY <1>1, <1>2, SetPlaces, StopPlaces, MaskPlaces

LEMMA OnlyMask ==
  ASSUME NEW s, NEW t, NEW u, AtMask(t, s)
  PROVE  /\ ~ AtArm(u, s) /\ ~ AtLoad(u, s) /\ ~ AtSetGates(u, s)
         /\ ~ AtClock(u, s) /\ ~ AtHalt(u, s) /\ ~ AtUnclock(u, s)
         /\ AtMask(u, s) => u = t
<1>1. Head(s)[1] = "mask" /\ Head(s)[2] = t
  BY MaskPlaces
<1>2. ASSUME AtMask(u, s) PROVE u = t
  BY <1>1, <1>2, MaskPlaces
<1> QED
  BY <1>1, <1>2, SetPlaces, StopPlaces, MaskPlaces

LEMMA InTimer ==
  ASSUME TodoInv, todo # <<>>, Head(todo)[1] \in TimerNames
  PROVE  InTimerCall(todo)
BY SpifName DEF TodoInv, TimerNames, SpifNames

LEMMA HookStep ==
  ASSUME TypesInv, TimerInv, NEW t \in Timers, Hook(t), UNCHANGED spifVars
  PROVE  TypesInv' /\ TimerInv'
<1>1. /\ todo # <<>> /\ Head(todo)[1] = "hook" /\ Head(todo)[2] = t
      /\ todo' = Tail(todo)
  BY DEF Hook, Step
<1>2. AtHook(t, todo)
  BY <1>1, InTimer, Found DEF TimerNames, TimerInv
<1>3. AtArm(t, todo')
  BY <1>1, <1>2, SetPlaces
<1>4. TypesInv'
  BY DEF Hook, TypesInv, spifVars, timerVars
<1>5. TodoInv'
  BY <1>3 DEF TodoInv, InTimerCall, Setting, Stopping, Masking
<1> DEFINE before(u) == Elsewhere(u, todo)
           after(u) == /\ ~ AtLoad(u, todo') /\ ~ AtSetGates(u, todo') /\ ~ AtClock(u, todo') /\ ~ AtHalt(u, todo')
                        /\ ~ AtUnclock(u, todo') /\ ~ AtMask(u, todo')
                        /\ (AtArm(u, todo') => u = t)
<1>6. \A u \in Timers : before(u) /\ after(u)
  BY <1>2, <1>3, NotThere, OnlyArm DEF Elsewhere
<1>7. LiveInv'
  BY <1>2, <1>3, <1>6 DEF Hook, LiveInv, TimerInv, TypesInv, Still, timerVars, Elsewhere
<1>8. LoadedInv'
  BY <1>2, <1>3, <1>6 DEF Hook, LiveInv, LoadedInv, TimerInv, TypesInv, Still, timerVars, Elsewhere
<1> QED
  BY <1>4, <1>5, <1>7, <1>8 DEF TimerInv

LEMMA ArmStep ==
  ASSUME TypesInv, TimerInv, NEW t \in Timers, Arm(t), UNCHANGED spifVars
  PROVE  TypesInv' /\ TimerInv'
<1>1. /\ todo # <<>> /\ Head(todo)[1] = "arm" /\ Head(todo)[2] = t
      /\ todo' = Tail(todo)
  BY DEF Arm, Step
<1>2. AtArm(t, todo)
  BY <1>1, InTimer, Found DEF TimerNames, TimerInv
<1>3. AtLoad(t, todo')
  BY <1>1, <1>2, SetPlaces
<1>4. TypesInv'
  BY DEF Arm, TypesInv, spifVars, timerVars
<1>5. TodoInv'
  BY <1>3 DEF TodoInv, InTimerCall, Setting, Stopping, Masking
<1> DEFINE before(u) == /\ ~ AtLoad(u, todo) /\ ~ AtSetGates(u, todo) /\ ~ AtClock(u, todo) /\ ~ AtHalt(u, todo)
                         /\ ~ AtUnclock(u, todo) /\ ~ AtMask(u, todo)
                         /\ (AtArm(u, todo) => u = t)
           after(u) == /\ ~ AtArm(u, todo') /\ ~ AtSetGates(u, todo') /\ ~ AtClock(u, todo') /\ ~ AtHalt(u, todo')
                        /\ ~ AtUnclock(u, todo') /\ ~ AtMask(u, todo')
                        /\ (AtLoad(u, todo') => u = t)
<1>6. \A u \in Timers : before(u) /\ after(u)
  BY <1>2, <1>3, OnlyArm, OnlyLoad DEF Elsewhere
<1>7. LiveInv'
  BY <1>2, <1>3, <1>6 DEF Arm, LiveInv, TimerInv, TypesInv, Still, timerVars, Elsewhere
<1>8. LoadedInv'
  BY <1>2, <1>3, <1>6 DEF Arm, LiveInv, LoadedInv, TimerInv, TypesInv, Still, timerVars, Elsewhere
<1> QED
  BY <1>4, <1>5, <1>7, <1>8 DEF TimerInv

LEMMA LoadTimerStep ==
  ASSUME TypesInv, TimerInv, NEW t \in Timers, LoadTimer(t), UNCHANGED spifVars
  PROVE  TypesInv' /\ TimerInv'
<1>1. /\ todo # <<>> /\ Head(todo)[1] = "load" /\ Head(todo)[2] = t
      /\ todo' = Tail(todo)
  BY DEF LoadTimer, Step
<1>2. AtLoad(t, todo)
  BY <1>1, InTimer, Found DEF TimerNames, TimerInv
<1>3. AtSetGates(t, todo')
  BY <1>1, <1>2, SetPlaces
<1>4. TypesInv'
  BY DEF LoadTimer, TypesInv, spifVars, timerVars
<1>5. TodoInv'
  BY <1>3 DEF TodoInv, InTimerCall, Setting, Stopping, Masking
<1> DEFINE before(u) == /\ ~ AtArm(u, todo) /\ ~ AtSetGates(u, todo) /\ ~ AtClock(u, todo) /\ ~ AtHalt(u, todo)
                         /\ ~ AtUnclock(u, todo) /\ ~ AtMask(u, todo)
                         /\ (AtLoad(u, todo) => u = t)
           after(u) == /\ ~ AtArm(u, todo') /\ ~ AtLoad(u, todo') /\ ~ AtClock(u, todo') /\ ~ AtHalt(u, todo')
                        /\ ~ AtUnclock(u, todo') /\ ~ AtMask(u, todo')
                        /\ (AtSetGates(u, todo') => u = t)
<1>6. \A u \in Timers : before(u) /\ after(u)
  BY <1>2, <1>3, OnlyLoad, OnlySetGates DEF Elsewhere
<1>7. LiveInv'
  BY <1>2, <1>3, <1>6 DEF LoadTimer, LiveInv, TimerInv, TypesInv, Still, timerVars, Elsewhere
<1>8. LoadedInv'
  BY <1>2, <1>3, <1>6 DEF LoadTimer, LiveInv, LoadedInv, TimerInv, TypesInv, Still, timerVars, Elsewhere
<1> QED
  BY <1>4, <1>5, <1>7, <1>8 DEF TimerInv

LEMMA UnhookStep ==
  ASSUME TypesInv, TimerInv, NEW t \in Timers, Unhook(t), UNCHANGED spifVars
  PROVE  TypesInv' /\ TimerInv'
<1>1. /\ todo # <<>> /\ Head(todo)[1] = "unhook" /\ Head(todo)[2] = t
      /\ todo' = Tail(todo)
  BY DEF Unhook, Step
<1>2. AtUnhook(t, todo)
  BY <1>1, InTimer, Found DEF TimerNames, TimerInv
<1>3. AtHalt(t, todo')
  BY <1>1, <1>2, StopPlaces
<1>4. TypesInv'
  BY DEF Unhook, TypesInv, spifVars, timerVars
<1>5. TodoInv'
  BY <1>3 DEF TodoInv, InTimerCall, Setting, Stopping, Masking
<1> DEFINE before(u) == Elsewhere(u, todo)
           after(u) == /\ ~ AtArm(u, todo') /\ ~ AtLoad(u, todo') /\ ~ AtSetGates(u, todo') /\ ~ AtClock(u, todo')
                        /\ ~ AtUnclock(u, todo') /\ ~ AtMask(u, todo')
                        /\ (AtHalt(u, todo') => u = t)
<1>6. \A u \in Timers : before(u) /\ after(u)
  BY <1>2, <1>3, NotThere, OnlyHalt DEF Elsewhere
<1>7. LiveInv'
  BY <1>2, <1>3, <1>6 DEF Unhook, LiveInv, TimerInv, TypesInv, Still, timerVars, Elsewhere
<1>8. LoadedInv'
  BY <1>2, <1>3, <1>6 DEF Unhook, LiveInv, LoadedInv, TimerInv, TypesInv, Still, timerVars, Elsewhere
<1> QED
  BY <1>4, <1>5, <1>7, <1>8 DEF TimerInv

LEMMA StopCounterStep ==
  ASSUME TypesInv, TimerInv, NEW t \in Timers, StopCounter(t), UNCHANGED spifVars
  PROVE  TypesInv' /\ TimerInv'
<1>1. /\ todo # <<>> /\ Head(todo)[1] = "halt" /\ Head(todo)[2] = t
      /\ todo' = Tail(todo)
  BY DEF StopCounter, Step
<1>2. AtHalt(t, todo)
  BY <1>1, InTimer, Found DEF TimerNames, TimerInv
<1>3. AtDisarm(t, todo')
  BY <1>1, <1>2, StopPlaces
<1>4. TypesInv'
  BY DEF StopCounter, TypesInv, spifVars, timerVars
<1>5. TodoInv'
  BY <1>3 DEF TodoInv, InTimerCall, Setting, Stopping, Masking
<1> DEFINE before(u) == /\ ~ AtArm(u, todo) /\ ~ AtLoad(u, todo) /\ ~ AtSetGates(u, todo) /\ ~ AtClock(u, todo)
                         /\ ~ AtUnclock(u, todo) /\ ~ AtMask(u, todo)
                         /\ (AtHalt(u, todo) => u = t)
           after(u) == Elsewhere(u, todo')
<1>6. \A u \in Timers : before(u) /\ after(u)
  BY <1>2, <1>3, OnlyHalt, NotThere DEF Elsewhere
<1>7. LiveInv'
  BY <1>2, <1>3, <1>6 DEF StopCounter, LiveInv, TimerInv, TypesInv, Still, timerVars, Elsewhere
<1>8. LoadedInv'
  BY <1>2, <1>3, <1>6 DEF StopCounter, LiveInv, LoadedInv, TimerInv, TypesInv, Still, timerVars, Elsewhere
<1> QED
  BY <1>4, <1>5, <1>7, <1>8 DEF TimerInv

LEMMA DisarmStep ==
  ASSUME TypesInv, TimerInv, NEW t \in Timers, Disarm(t), UNCHANGED spifVars
  PROVE  TypesInv' /\ TimerInv'
<1>1. /\ todo # <<>> /\ Head(todo)[1] = "disarm" /\ Head(todo)[2] = t
      /\ todo' = Tail(todo)
  BY DEF Disarm, Step
<1>2. AtDisarm(t, todo)
  BY <1>1, InTimer, Found DEF TimerNames, TimerInv
<1>3. AtStopGates(t, todo')
  BY <1>1, <1>2, StopPlaces
<1>4. TypesInv'
  BY DEF Disarm, TypesInv, spifVars, timerVars
<1>5. TodoInv'
  BY <1>3 DEF TodoInv, InTimerCall, Setting, Stopping, Masking
<1> DEFINE before(u) == Elsewhere(u, todo)
           after(u) == Elsewhere(u, todo')
<1>6. \A u \in Timers : before(u) /\ after(u)
  BY <1>2, <1>3, NotThere, NotThere DEF Elsewhere
<1>7. LiveInv'
  BY <1>2, <1>3, <1>6 DEF Disarm, LiveInv, TimerInv, TypesInv, Still, timerVars, Elsewhere
<1>8. LoadedInv'
  BY <1>2, <1>3, <1>6 DEF Disarm, LiveInv, LoadedInv, TimerInv, TypesInv, Still, timerVars, Elsewhere
<1> QED
  BY <1>4, <1>5, <1>7, <1>8 DEF TimerInv

LEMMA ReadCtrlStep ==
  ASSUME TypesInv, TimerInv, NEW t \in Timers, ReadCtrl(t), UNCHANGED spifVars
  PROVE  TypesInv' /\ TimerInv'
<1>1. /\ todo # <<>> /\ Head(todo)[1] = "control" /\ Head(todo)[2] = t
      /\ todo' = Tail(todo)
  BY DEF ReadCtrl, Step
<1>2. AtControl(t, todo)
  BY <1>1, InTimer, Found DEF TimerNames, TimerInv
<1>3. AtMask(t, todo')
  BY <1>1, <1>2, MaskPlaces
<1>4. TypesInv'
  BY DEF ReadCtrl, TypesInv, spifVars, timerVars
<1>5. TodoInv'
  BY <1>3 DEF TodoInv, InTimerCall, Setting, Stopping, Masking
<1> DEFINE before(u) == Elsewhere(u, todo)
           after(u) == /\ ~ AtArm(u, todo') /\ ~ AtLoad(u, todo') /\ ~ AtSetGates(u, todo') /\ ~ AtClock(u, todo')
                        /\ ~ AtHalt(u, todo') /\ ~ AtUnclock(u, todo')
                        /\ (AtMask(u, todo') => u = t)
<1>6. \A u \in Timers : before(u) /\ after(u)
  BY <1>2, <1>3, NotThere, OnlyMask DEF Elsewhere
<1>7. LiveInv'
  BY <1>2, <1>3, <1>6 DEF ReadCtrl, LiveInv, TimerInv, TypesInv, Still, timerVars, Elsewhere
<1>8. LoadedInv'
  BY <1>2, <1>3, <1>6 DEF ReadCtrl, LiveInv, LoadedInv, TimerInv, TypesInv, Still, timerVars, Elsewhere
<1> QED
  BY <1>4, <1>5, <1>7, <1>8 DEF TimerInv

LEMMA ReadGatesStep ==
  ASSUME TypesInv, TimerInv, ReadGates, UNCHANGED spifVars
  PROVE  TypesInv' /\ TimerInv'
<1>1. /\ todo # <<>> /\ Head(todo)[1] = "gates" /\ todo' = Tail(todo)
      /\ loaded' = clocked
      /\ UNCHANGED <<enabled, pending, hooked, ctrl, status, clocked, callback, live>>
  BY DEF ReadGates, Step
<1>2. PICK t \in Timers : AtSetGates(t, todo) \/ AtStopGates(t, todo)
  <2>1. InTimerCall(todo)
    BY <1>1, InTimer DEF TimerNames, TimerInv
  <2> QED
    BY <1>1, <2>1, Found, TimerAssumption
<1>3. TypesInv'
  BY <1>1 DEF TypesInv, spifVars
<1>4. loaded' \subseteq Timers
  BY <1>1 DEF TypesInv
<1>5. CASE AtSetGates(t, todo)
  <2>1. AtClock(t, todo')
    BY <1>1, <1>5, SetPlaces
  <2>2. \A u \in Timers : /\ ~ AtArm(u, todo) /\ ~ AtLoad(u, todo) /\ ~ AtClock(u, todo)
                          /\ ~ AtHalt(u, todo) /\ ~ AtUnclock(u, todo) /\ ~ AtMask(u, todo)
                          /\ (AtSetGates(u, todo) => u = t)
    BY <1>5, OnlySetGates
  <2>3. \A u \in Timers : /\ ~ AtArm(u, todo') /\ ~ AtLoad(u, todo') /\ ~ AtSetGates(u, todo')
                          /\ ~ AtHalt(u, todo') /\ ~ AtUnclock(u, todo') /\ ~ AtMask(u, todo')
                          /\ (AtClock(u, todo') => u = t)
    BY <2>1, OnlyClock
  <2>4. TodoInv'
    BY <2>1 DEF TodoInv, InTimerCall, Setting
  <2>5. LiveInv'
    BY <1>1, <1>5, <2>2, <2>3 DEF LiveInv, TimerInv, Still
  <2>6. LoadedInv'
    BY <1>1, <1>4, <1>5, <2>2, <2>3 DEF LiveInv, LoadedInv, TimerInv, Still
  <2> QED
    BY <1>3, <2>4, <2>5, <2>6 DEF TimerInv
<1>6. CASE AtStopGates(t, todo)
  <2>1. AtUnclock(t, todo')
    BY <1>1, <1>6, StopPlaces
  <2>2. \A u \in Timers : Elsewhere(u, todo)
    BY <1>6, NotThere
  <2>3. \A u \in Timers : /\ ~ AtArm(u, todo') /\ ~ AtLoad(u, todo') /\ ~ AtSetGates(u, todo')
                          /\ ~ AtHalt(u, todo') /\ ~ AtClock(u, todo') /\ ~ AtMask(u, todo')
    BY <2>1, OnlyUnclock
  <2>4. TodoInv'
    BY <2>1 DEF TodoInv, InTimerCall, Stopping
  <2>5. LiveInv'
    BY <1>1, <2>2, <2>3 DEF LiveInv, TimerInv, Still, Elsewhere
  <2>6. LoadedInv'
    BY <1>1, <1>4, <2>2, <2>3 DEF LiveInv, LoadedInv, TimerInv, Still, Elsewhere
  <2> QED
    BY <1>3, <2>4, <2>5, <2>6 DEF TimerInv
<1> QED
  BY <1>2, <1>5, <1>6

LEMMA ClkGateStep ==
  ASSUME TypesInv, TimerInv, NEW t \in Timers, ClkGate(t), UNCHANGED spifVars
  PROVE  TypesInv' /\ TimerInv'
<1>1. /\ todo # <<>> /\ Head(todo)[1] \in {"clock", "unclock"} /\ Head(todo)[2] = t
      /\ todo' = Tail(todo)
      /\ loaded' = {} /\ (clocked' = loaded \cup {t} \/ clocked' = loaded \ {t})
      /\ UNCHANGED <<enabled, pending, hooked, ctrl, status, callback, live>>
  BY DEF ClkGate, Step
<1>2. AtClock(t, todo) \/ AtUnclock(t, todo)
  BY <1>1, InTimer, Found DEF TimerNames, TimerInv
<1>3. todo' = <<>> \/ AtStop(todo')
  BY <1>1, <1>2, SetPlaces, StopPlaces
<1>4. /\ loaded \subseteq Timers
      /\ \A u \in loaded : live[u] = "off" => "on" \notin ctrl[u]
  BY <1>2 DEF LoadedInv, TimerInv
<1>5. TypesInv'
  BY <1>1, <1>4 DEF TypesInv, spifVars
<1>6. TodoInv'
  <2>1. <<>> \in Seq(SpifSteps)
    OBVIOUS
  <2> QED
    BY <1>3, <2>1 DEF TodoInv, InTimerCall
<1>7. \A u \in Timers : Elsewhere(u, todo')
  BY <1>3, NotThere
<1>8. \A u \in Timers : ~ AtHalt(u, todo) /\ ~ AtArm(u, todo) /\ ~ AtLoad(u, todo)
  BY <1>2, OnlyClock, OnlyUnclock
<1>9. ASSUME AtUnclock(t, todo) PROVE clocked' = loaded \ {t}
  <2>1. Head(todo)[1] = "unclock"
    BY <1>9, StopPlaces
  <2>2. ~ Step(<<"clock", t>>)
    BY <2>1 DEF Step
  <2> QED
    BY <2>2 DEF ClkGate
<1>10. ASSUME live[t] = "off", "on" \in ctrl[t] PROVE t \notin clocked'
  BY <1>2, <1>9, <1>10 DEF LiveInv, TimerInv
<1>11. LiveInv'
  BY <1>1, <1>4, <1>7, <1>8, <1>10 DEF LiveInv, TimerInv, Still, Elsewhere
<1>12. LoadedInv'
  BY <1>7 DEF LoadedInv, Elsewhere
<1> QED
  BY <1>5, <1>6, <1>11, <1>12 DEF TimerInv

LEMMA MaskIntStep ==
  ASSUME TypesInv, TimerInv, NEW t \in Timers, MaskInt(t), UNCHANGED spifVars
  PROVE  TypesInv' /\ TimerInv'
<1>1. PICK en \in BOOLEAN :
        /\ Step(<<"mask", t, en>>)
        /\ ctrl' = [ctrl EXCEPT ![t] = IF en THEN loaded \cup {"masked"}
                                             ELSE loaded \ {"masked"}]
        /\ live' = [live EXCEPT ![t] = IF @ \in {"off", "stray"} THEN @
                                       ELSE IF en THEN "masked" ELSE "on"]
  BY DEF MaskInt
<1>2. /\ loaded' = {} /\ UNCHANGED <<enabled, hooked, status, clocked, callback>>
      /\ pending' = pending \cup {t} \/ pending' = pending
  BY DEF MaskInt
<1>3. /\ todo # <<>> /\ Head(todo)[1] = "mask" /\ Head(todo)[2] = t /\ todo' = Tail(todo)
  BY <1>1 DEF Step
<1>4. AtMask(t, todo)
  BY <1>3, InTimer, Found DEF TimerNames, TimerInv
<1>5. todo' = <<>>
  BY <1>3, <1>4, MaskPlaces
<1>6. /\ loaded \subseteq {"on", "masked"}
      /\ live[t] = "off" /\ "on" \in loaded => Still(t)
  BY <1>4 DEF LoadedInv, TimerInv
<1>7. TypesInv'
  BY <1>1, <1>2, <1>6 DEF TypesInv, spifVars
<1>8. TodoInv'
  <2>1. <<>> \in Seq(SpifSteps)
    OBVIOUS
  <2> QED
    BY <1>5, <2>1 DEF TodoInv
<1>9. \A u \in Timers : Elsewhere(u, todo')
  BY <1>5, NotThere
<1>10. \A u \in Timers : ~ AtHalt(u, todo) /\ ~ AtArm(u, todo) /\ ~ AtLoad(u, todo)
  BY <1>4, OnlyMask
<1>11. LiveInv'
  BY <1>1, <1>2, <1>6, <1>9, <1>10 DEF LiveInv, TimerInv, TypesInv, Still, Elsewhere
<1>12. LoadedInv'
  BY <1>9 DEF LoadedInv, Elsewhere
<1> QED
  BY <1>7, <1>8, <1>11, <1>12 DEF TimerInv

LEMMA StopNextStep ==
  ASSUME TypesInv, TimerInv, NEW t \in Timers, StopNext(t), UNCHANGED spifVars
  PROVE  TypesInv' /\ TimerInv'
<1>1. PICK ts \in SUBSET Timers :
        /\ t \in ts
        /\ todo # <<>> /\ Head(todo) = <<"stop", ts>>
        /\ todo' = StopSteps(t) \o IF ts = {t} THEN <<>> ELSE <<<<"stop", ts \ {t}>>>>
  BY DEF StopNext
<1>2. AtUnhook(t, todo')
  BY <1>1, StopList
<1>3. Head(todo)[1] = "stop"
  BY <1>1
<1>4. \A u \in Timers : Elsewhere(u, todo)
  BY <1>3, SetPlaces, StopPlaces, MaskPlaces DEF Elsewhere
<1>5. \A u \in Timers : Elsewhere(u, todo')
  BY <1>2, NotThere
<1>6. UNCHANGED <<enabled, pending, hooked, timerVars>>
  BY DEF StopNext
<1>7. TypesInv'
  BY <1>6 DEF TypesInv, spifVars, timerVars
<1>8. TodoInv'
  BY <1>2 DEF TodoInv, InTimerCall, Stopping
<1>9. LiveInv'
  BY <1>4, <1>5, <1>6 DEF LiveInv, TimerInv, Still, Elsewhere, timerVars
<1>10. LoadedInv'
  BY <1>5 DEF LoadedInv, Elsewhere
<1> QED
  BY <1>7, <1>8, <1>9, <1>10 DEF TimerInv

LEMMA WakeupStep ==
  ASSUME TypesInv, TimerInv, WakeupHandler, UNCHANGED spifVars
  PROVE  TypesInv' /\ TimerInv'
<1>1. /\ todo # <<>> /\ Head(todo)[1] = "wakeup" /\ todo' = Tail(todo)
      /\ UNCHANGED <<pending, loaded, callback>>
  BY DEF WakeupHandler, Step
<1>2. todo \in Seq(SpifSteps)
  BY <1>1, NoTimerPlace DEF TimerInv, TodoInv, SpifNames
<1>3. todo' \in Seq(SpifSteps)
  BY <1>1, <1>2, SpifName
<1>4. NoTimerAt(todo) /\ NoTimerAt(todo')
  BY <1>2, <1>3, NoTimerPlace, NoTimer
<1>5. CASE UNCHANGED <<enabled, hooked, ctrl, status, clocked, live>>
  <2>1. TypesInv'
    BY <1>1, <1>5 DEF TypesInv, spifVars
  <2> QED
    BY <1>1, <1>3, <1>4, <1>5, <2>1, QuietTimers DEF TimerInv, TodoInv
<1>6. CASE \E t \in Timers : SetAtOnce(t)
  <2>1. PICK t \in Timers : SetAtOnce(t)
    BY <1>6
  <2>2. TypesInv'
    BY <1>1, <2>1 DEF TypesInv, spifVars, SetAtOnce
  <2>3. LiveInv' /\ LoadedInv'
    BY <1>4, <2>1 DEF TypesInv, TimerInv, LiveInv, LoadedInv, SetAtOnce, NoTimerAt, Still
  <2> QED
    BY <1>3, <2>2, <2>3 DEF TimerInv, TodoInv
<1> QED
  BY <1>5, <1>6 DEF WakeupHandler

LEMMA CallbackStep ==
  ASSUME TypesInv, TimerInv, NEW t \in Timers, Callback(t), UNCHANGED spifVars
  PROVE  TypesInv' /\ TimerInv'
<1>1. /\ t \in hooked /\ Line(t) /\ pending' = pending \ {t}
      /\ UNCHANGED <<todo, loaded, callback>>
  BY DEF Callback, Serving
<1>2. TodoInv'
  BY <1>1 DEF TimerInv, TodoInv
<1>3. ~ AtHalt(t, todo)
  BY <1>1 DEF TimerInv, LiveInv
<1>4. CASE status' = status \ {t} /\ UNCHANGED <<enabled, hooked, ctrl, clocked, live>>
  <2>1. TypesInv'
    BY <1>1, <1>4 DEF TypesInv, spifVars
  <2>2. LiveInv' /\ LoadedInv'
    BY <1>1, <1>4 DEF TimerInv, LiveInv, LoadedInv, Still
  <2> QED
    BY <1>2, <2>1, <2>2 DEF TimerInv
<1>5. CASE SetAtOnce(t)
  <2>1. TypesInv'
    BY <1>1, <1>5 DEF TypesInv, spifVars, SetAtOnce
  <2>2. LiveInv' /\ LoadedInv'
    BY <1>1, <1>3, <1>5 DEF TypesInv, TimerInv, LiveInv, LoadedInv, SetAtOnce, Still
  <2> QED
    BY <1>2, <2>1, <2>2 DEF TimerInv
<1>6. CASE StopAtOnce(t)
  <2>1. TypesInv'
    BY <1>1, <1>6 DEF TypesInv, spifVars, StopAtOnce
  <2>2. LiveInv' /\ LoadedInv'
    BY <1>1, <1>3, <1>6 DEF TypesInv, TimerInv, LiveInv, LoadedInv, StopAtOnce, Still
  <2> QED
    BY <1>2, <2>1, <2>2 DEF TimerInv
<1> QED
  BY <1>4, <1>5, <1>6 DEF Callback

LEMMA IrqIgnoredStep ==
  ASSUME TypesInv, TimerInv, NEW t \in Timers, IrqIgnored(t), UNCHANGED spifVars
  PROVE  TypesInv' /\ TimerInv'
<1>1. /\ pending' = pending \ {t} /\ (status' = status \/ status' = status \ {t})
      /\ UNCHANGED <<todo, enabled, hooked, ctrl, clocked, loaded, callback, live>>
  BY DEF IrqIgnored
<1>2. TypesInv'
  BY <1>1 DEF TypesInv, spifVars
<1>3. LiveInv' /\ LoadedInv' /\ TodoInv'
  BY <1>1 DEF TimerInv, LiveInv, LoadedInv, TodoInv, Still
<1> QED
  BY <1>2, <1>3 DEF TimerInv

LEMMA ExpireStep ==
  ASSUME TypesInv, TimerInv, NEW t \in Timers, Expire(t), UNCHANGED spifVars
  PROVE  TypesInv' /\ TimerInv'
<1>1. /\ "on" \in ctrl[t] /\ t \in clocked /\ status' = status \cup {t}
      /\ UNCHANGED <<todo, enabled, hooked, ctrl, clocked, loaded, callback, live>>
      /\ pending' = pending \cup {t} \/ pending' = pending
  BY DEF Expire
<1>2. TypesInv'
  BY <1>1 DEF TypesInv, spifVars
<1>3. LiveInv' /\ LoadedInv' /\ TodoInv'
  BY <1>1 DEF TimerInv, LiveInv, LoadedInv, TodoInv, Still
<1> QED
  BY <1>2, <1>3 DEF TimerInv

LEMMA SleepStep ==
  ASSUME TypesInv, TimerInv, Sleep
  PROVE  TypesInv' /\ TimerInv'
<1>1. /\ todo' = ConfigSteps \o <<<<"wakeup">>>>
      /\ enabled' = {} /\ pending' = {}
      /\ ctrl' = [t \in Timers |-> {}] /\ status' = {} /\ clocked' = {} /\ loaded' = {}
      /\ live' = [t \in Timers |-> "off"]
      /\ cache' \in {[s \in Sectors |-> Absent], [s \in Sectors |-> Garbage]}
      /\ bypass' \in BOOLEAN /\ remap' = FALSE
      /\ UNCHANGED <<hooked, flash, chip, initFlag, saved, value, request, gaveUp, callback>>
  BY DEF Sleep, Call
<1>2. todo' \in Seq(SpifSteps)
  BY <1>1, ConfigList DEF TypesInv
<1>3. TypesInv'
  BY <1>1 DEF TypesInv
<1>4. LiveInv' /\ LoadedInv'
  <2>1. NoTimerAt(todo')
    BY <1>2, NoTimerPlace, NoTimer
  <2> QED
    BY <1>1, <2>1 DEF LiveInv, LoadedInv, NoTimerAt, Still
<1> QED
  BY <1>2, <1>3, <1>4 DEF TimerInv, TodoInv

LEMMA InitTimers == Init => TypesInv /\ TimerInv
<1> SUFFICES ASSUME Init PROVE TypesInv /\ TimerInv
  OBVIOUS
<1> USE DEF Init, SpifInit, TimerInit
<1>1. None \in ChipStates /\ None \in Requests
  BY DEF None, ChipStates, Requests
<1>2. TypesInv
  BY <1>1 DEF TypesInv
<1>3. todo \in Seq(SpifSteps)
  BY ConfigList
<1>4. NoTimerAt(todo)
  BY <1>3, NoTimerPlace, NoTimer
<1>5. LiveInv /\ LoadedInv
  BY <1>4 DEF LiveInv, LoadedInv, NoTimerAt, Still
<1> QED
  BY <1>2, <1>3, <1>5 DEF TimerInv, TodoInv

LEMMA TimerNext == TypesInv /\ TimerInv /\ [Next]_vars => TypesInv' /\ TimerInv'
<1> SUFFICES ASSUME TypesInv, TimerInv, [Next]_vars PROVE TypesInv' /\ TimerInv'
  OBVIOUS
<1>1. CASE Calls
  BY <1>1, FlashSteps, TimerCalls DEF Calls
<1>2. CASE Work
  <2>1. CASE SpifStep /\ UNCHANGED timerVars
    BY <2>1, FlashSteps
  <2>2. CASE (WakeupHandler \/ ReadGates) /\ UNCHANGED spifVars
    BY <2>2, WakeupStep, ReadGatesStep
  <2>3. CASE (\E t \in Timers : TimerStep(t)) /\ UNCHANGED spifVars
    <3>1. PICK t \in Timers : TimerStep(t)
      BY <2>3
    <3> QED
      BY <2>3, <3>1, HookStep, UnhookStep, ArmStep, DisarmStep, LoadTimerStep, StopCounterStep,
         ClkGateStep, ReadCtrlStep, MaskIntStep, StopNextStep DEF TimerStep
  <2> QED
    BY <1>2, <2>1, <2>2, <2>3 DEF Work
<1>3. CASE Sleep
  BY <1>3, SleepStep
<1>4. CASE \E t \in Timers : Interrupt(t)
  BY <1>4, CallbackStep, IrqIgnoredStep DEF Interrupt
<1>5. CASE \E t \in Timers : Expire(t) /\ UNCHANGED spifVars
  BY <1>5, ExpireStep
<1>6. CASE ChipDone /\ UNCHANGED timerVars
  BY <1>6, FlashSteps
<1>7. CASE \E s \in Sectors : Fetch(s) /\ UNCHANGED timerVars
  BY <1>7, FlashSteps
<1>8. CASE UNCHANGED vars
  <2>1. TypesInv'
    BY <1>8 DEF TypesInv, vars, processor, spifVars, timerVars
  <2>2. TimerInv'
    BY <1>8 DEF TimerInv, TodoInv, LiveInv, LoadedInv, Still, vars, processor, timerVars
  <2> QED
    BY <2>1, <2>2
<1> QED
  BY <1>1, <1>2, <1>3, <1>4, <1>5, <1>6, <1>7, <1>8 DEF Next

THEOREM TimersInvariance == Spec => [](TypesInv /\ TimerInv)
BY InitTimers, TimerNext, PTL DEF Spec

(* Every variable of the drivers keeps its type.                           *)
THEOREM TypeCorrect == Spec => []Types
<1>1. TypesInv => Types
  BY DEF TypesInv, Types, ChipStates, Requests
<1> QED
  BY <1>1, TimersInvariance, PTL

LEMMA CallbackIsWanted ==
  ASSUME TypesInv, TimerInv, NEW t \in Timers, Callback(t)
  PROVE  live[t] \in {"on", "stray"}
<1>1. t \in hooked /\ t \in status /\ ctrl[t] = {"on"}
  BY DEF Callback, Serving, Line
<1>2. live[t] # "off" /\ live[t] # "masked" /\ live[t] # "setting"
  BY <1>1 DEF TimerInv, LiveInv, Still
<1> QED
  BY <1>2 DEF TypesInv

(* hal_timer's callback is called only for a timer that is set, loaded,    *)
(* and neither stopped nor masked since, whatever interrupts were pending. *)
THEOREM CalledOnlyWhenLive == Spec => SilentUnlessLive
<1>1. TypesInv /\ TimerInv
        => [\A t \in Timers : Callback(t) => live[t] \in {"on", "stray"}]_vars
  BY CallbackIsWanted
<1> QED
  BY <1>1, TimersInvariance, PTL DEF SilentUnlessLive

-----------------------------------------------------------------------------
(* The flash.                                                              *)

LEMMA ReadPlaces ==
  ASSUME NEW s, NEW m \in BOOLEAN
  PROVE  /\ AtUnlock(s) => s # <<>> /\ Head(s)[1] = "unlock" /\ Tail(s) = <<>>
         /\ AtUnmap(s) => s # <<>> /\ Head(s)[1] = "unmap" /\ AtUnlock(Tail(s))
         /\ AtReadExit(m, s) => /\ s # <<>> /\ Head(s)[1] = "exit"
                                /\ IF m THEN AtUnmap(Tail(s)) ELSE AtUnlock(Tail(s))
         /\ AtCopy(m, s) => s # <<>> /\ Head(s)[1] = "copy" /\ AtReadExit(m, Tail(s))
         /\ AtReadEnter(m, s) => s # <<>> /\ Head(s)[1] = "enter" /\ AtCopy(m, Tail(s))
         /\ AtMap(m, s) => s # <<>> /\ Head(s)[1] = "map" /\ AtReadEnter(m, Tail(s))
         /\ AtReadLock(m, s) => /\ s # <<>> /\ Head(s)[1] = "lock"
                                /\ IF m THEN AtMap(m, Tail(s)) ELSE AtReadEnter(m, Tail(s))
<1>1. AtUnlock(s) => s # <<>> /\ Head(s)[1] = "unlock" /\ Tail(s) = <<>>
  BY DEF AtUnlock, Is
<1>2. AtUnmap(s) => s # <<>> /\ Head(s)[1] = "unmap" /\ AtUnlock(Tail(s))
  BY DEF AtUnmap, Is
<1>3. AtReadExit(m, s) => /\ s # <<>> /\ Head(s)[1] = "exit"
                          /\ IF m THEN AtUnmap(Tail(s)) ELSE AtUnlock(Tail(s))
  BY DEF AtReadExit, Is
<1>4. AtCopy(m, s) => s # <<>> /\ Head(s)[1] = "copy" /\ AtReadExit(m, Tail(s))
  BY DEF AtCopy, Is
<1>5. AtReadEnter(m, s) => s # <<>> /\ Head(s)[1] = "enter" /\ AtCopy(m, Tail(s))
  BY DEF AtReadEnter, Is
<1>6. AtMap(m, s) => s # <<>> /\ Head(s)[1] = "map" /\ AtReadEnter(m, Tail(s))
  BY DEF AtMap, Is
<1>7. AtReadLock(m, s) => /\ s # <<>> /\ Head(s)[1] = "lock"
                          /\ IF m THEN AtMap(m, Tail(s)) ELSE AtReadEnter(m, Tail(s))
  BY DEF AtReadLock, Is
<1> QED
  BY <1>1, <1>2, <1>3, <1>4, <1>5, <1>6, <1>7

LEMMA OperationPlaces ==
  ASSUME NEW s, NEW op \in {"program", "erase"}
  PROVE  /\ AtFlush(s) => s # <<>> /\ Head(s)[1] = "flush" /\ AtUnlock(Tail(s))
         /\ AtOpExit(op, s) => /\ s # <<>> /\ Head(s)[1] = "exit"
                               /\ IF op = "erase" THEN AtFlush(Tail(s)) ELSE AtUnlock(Tail(s))
         /\ AtOpWait(op, s) => s # <<>> /\ Head(s)[1] = "wait" /\ AtOpExit(op, Tail(s))
         /\ AtStart(op, s) => s # <<>> /\ Head(s)[1] = op /\ AtOpWait(op, Tail(s))
         /\ AtFirstWait(op, s) => s # <<>> /\ Head(s)[1] = "wait" /\ AtStart(op, Tail(s))
         /\ AtOpEnter(op, s) => s # <<>> /\ Head(s)[1] = "enter" /\ AtFirstWait(op, Tail(s))
         /\ AtOpLock(op, s) => s # <<>> /\ Head(s)[1] = "lock" /\ AtOpEnter(op, Tail(s))
<1>1. AtFlush(s) => s # <<>> /\ Head(s)[1] = "flush" /\ AtUnlock(Tail(s))
  BY DEF AtFlush, Is
<1>2. AtOpExit(op, s) => /\ s # <<>> /\ Head(s)[1] = "exit"
                         /\ IF op = "erase" THEN AtFlush(Tail(s)) ELSE AtUnlock(Tail(s))
  BY DEF AtOpExit, Is
<1>3. AtOpWait(op, s) => s # <<>> /\ Head(s)[1] = "wait" /\ AtOpExit(op, Tail(s))
  BY DEF AtOpWait, Is
<1>4. AtStart(op, s) => s # <<>> /\ Head(s)[1] = op /\ AtOpWait(op, Tail(s))
  BY DEF AtStart, Is
<1>5. AtFirstWait(op, s) => s # <<>> /\ Head(s)[1] = "wait" /\ AtStart(op, Tail(s))
  BY DEF AtFirstWait, Is
<1>6. AtOpEnter(op, s) => s # <<>> /\ Head(s)[1] = "enter" /\ AtFirstWait(op, Tail(s))
  BY DEF AtOpEnter, Is
<1>7. AtOpLock(op, s) => s # <<>> /\ Head(s)[1] = "lock" /\ AtOpEnter(op, Tail(s))
  BY DEF AtOpLock, Is
<1> QED
  BY <1>1, <1>2, <1>3, <1>4, <1>5, <1>6, <1>7

LEMMA ConfigPlaces ==
  ASSUME NEW s, NEW known \in BOOLEAN
  PROVE  /\ AtWakeup(s) => s # <<>> /\ Head(s)[1] = "wakeup" /\ Tail(s) = <<>>
         /\ AtInform(s) => s # <<>> /\ Head(s)[1] = "inform" /\ Configured(Tail(s))
         /\ AtInfoUnlock(s) => s # <<>> /\ Head(s)[1] = "unlock" /\ AtInform(Tail(s))
         /\ AtInfoWait(s) => s # <<>> /\ Head(s)[1] = "wait" /\ AtInfoUnlock(Tail(s))
         /\ AtInfoFirstWait(s) => s # <<>> /\ Head(s)[1] = "wait" /\ AtInfoWait(Tail(s))
         /\ AtInfoLock(s) => s # <<>> /\ Head(s)[1] = "lock" /\ AtInfoFirstWait(Tail(s))
         /\ AtConfigExit(known, s) =>
              /\ s # <<>> /\ Head(s)[1] = "exit"
              /\ IF known THEN Configured(Tail(s)) ELSE AtInfoLock(Tail(s))
         /\ AtConfigFlush(known, s) =>
              s # <<>> /\ Head(s)[1] = "flush" /\ AtConfigExit(known, Tail(s))
<1>1. AtWakeup(s) => s # <<>> /\ Head(s)[1] = "wakeup" /\ Tail(s) = <<>>
  BY DEF AtWakeup, Is
<1>2. AtInform(s) => s # <<>> /\ Head(s)[1] = "inform" /\ Configured(Tail(s))
  BY DEF AtInform, Is
<1>3. AtInfoUnlock(s) => s # <<>> /\ Head(s)[1] = "unlock" /\ AtInform(Tail(s))
  BY DEF AtInfoUnlock, Is
<1>4. AtInfoWait(s) => s # <<>> /\ Head(s)[1] = "wait" /\ AtInfoUnlock(Tail(s))
  BY DEF AtInfoWait, Is
<1>5. AtInfoFirstWait(s) => s # <<>> /\ Head(s)[1] = "wait" /\ AtInfoWait(Tail(s))
  BY DEF AtInfoFirstWait, Is
<1>6. AtInfoLock(s) => s # <<>> /\ Head(s)[1] = "lock" /\ AtInfoFirstWait(Tail(s))
  BY DEF AtInfoLock, Is
<1>7. AtConfigExit(known, s) =>
        /\ s # <<>> /\ Head(s)[1] = "exit"
        /\ IF known THEN Configured(Tail(s)) ELSE AtInfoLock(Tail(s))
  BY DEF AtConfigExit, Is
<1>8. AtConfigFlush(known, s) =>
        s # <<>> /\ Head(s)[1] = "flush" /\ AtConfigExit(known, Tail(s))
  BY DEF AtConfigFlush, Is
<1> QED
  BY <1>1, <1>2, <1>3, <1>4, <1>5, <1>6, <1>7, <1>8

LEMMA PhaseNames ==
  /\ Resting => todo = <<>> \/ Head(todo)[1] \in TimerNames \cup {"wakeup"}
  /\ Finishing => Head(todo)[1] = "unlock"
  /\ Configuring => Head(todo)[1] \in {"flush", "exit", "lock", "wait", "unlock", "inform"}
  /\ \A m \in BOOLEAN :
       Reading(m) => Head(todo)[1] \in {"lock", "map", "enter", "copy", "exit", "unmap"}
  /\ \A op \in {"program", "erase"} :
       Operating(op) => Head(todo)[1] \in {"lock", "enter", "wait", op, "exit", "flush"}
<1>1. Resting => todo = <<>> \/ Head(todo)[1] \in TimerNames \cup {"wakeup"}
  <2>1. AtWakeup(todo) => Head(todo)[1] = "wakeup"
    BY DEF AtWakeup, Is
  <2> QED
    BY <2>1, TimerName DEF Resting
<1>2. Finishing => Head(todo)[1] = "unlock"
  BY ReadPlaces DEF Finishing
<1>3. ASSUME Configuring
      PROVE  Head(todo)[1] \in {"flush", "exit", "lock", "wait", "unlock", "inform"}
  <2>1. CASE AtConfigFlush(initFlag, todo) \/ AtConfigExit(initFlag, todo)
    BY <2>1 DEF AtConfigFlush, AtConfigExit, Is
  <2>2. CASE \/ AtInfoLock(todo) \/ AtInfoFirstWait(todo) \/ AtInfoWait(todo) \/ AtInfoUnlock(todo)
             \/ AtInform(todo)
    BY <2>2, ConfigPlaces
  <2> QED
    BY <1>3, <2>1, <2>2 DEF Configuring
<1>4. ASSUME NEW m \in BOOLEAN, Reading(m)
      PROVE  Head(todo)[1] \in {"lock", "map", "enter", "copy", "exit", "unmap"}
  BY <1>4, ReadPlaces DEF Reading
<1>5. ASSUME NEW op \in {"program", "erase"}, Operating(op)
      PROVE  Head(todo)[1] \in {"lock", "enter", "wait", op, "exit", "flush"}
  BY <1>5, OperationPlaces DEF Operating
<1> QED
  BY <1>1, <1>2, <1>3, <1>4, <1>5

LEMMA LockPhase ==
  ASSUME TypesInv, Phase, SpifLock
  PROVE  Phase'
<1>1. /\ todo # <<>> /\ Head(todo)[1] = "lock" /\ todo' = Tail(todo)
      /\ UNCHANGED <<flash, chip, cache, bypass, remap, initFlag, value, request>>
  BY DEF SpifLock, Step
<1>2. CacheGood => CacheGood'
  BY <1>1 DEF CacheGood
<1>3. ~ Resting /\ ~ Finishing
  BY <1>1, PhaseNames DEF TimerNames
<1>4. ASSUME Configuring PROVE Configuring'
  <2>1. AtInfoLock(todo) /\ ~ bypass /\ ~ initFlag /\ CacheGood
    BY <1>1, <1>4, ConfigPlaces DEF Configuring, TypesInv
  <2>2. AtInfoFirstWait(todo')
    BY <1>1, <2>1, ConfigPlaces
  <2> QED
    BY <1>1, <1>2, <1>4, <2>1, <2>2 DEF Configuring
<1>5. ASSUME NEW m \in BOOLEAN, Reading(m) PROVE Reading(m)'
  <2>1. AtReadLock(m, todo) /\ ~ remap /\ ~ bypass
    BY <1>1, <1>5, ReadPlaces DEF Reading
  <2>2. (m /\ AtMap(m, todo')) \/ (~ m /\ AtReadEnter(m, todo'))
    BY <1>1, <2>1, ReadPlaces
  <2> QED
    BY <1>1, <1>2, <1>5, <2>1, <2>2 DEF Reading
<1>6. ASSUME NEW op \in {"program", "erase"}, Operating(op) PROVE Operating(op)'
  <2>1. AtOpLock(op, todo) /\ chip = None /\ ~ bypass /\ CacheGood
    BY <1>1, <1>6, OperationPlaces DEF Operating
  <2>2. AtOpEnter(op, todo')
    BY <1>1, <2>1, OperationPlaces
  <2> QED
    BY <1>1, <1>2, <1>6, <2>1, <2>2 DEF Operating
<1> QED
  BY <1>3, <1>4, <1>5, <1>6 DEF Phase

LEMMA UnlockPhase ==
  ASSUME TypesInv, Phase, SpifUnlock
  PROVE  Phase'
<1>1. /\ todo # <<>> /\ Head(todo)[1] = "unlock" /\ todo' = Tail(todo)
      /\ UNCHANGED <<flash, chip, cache, bypass, remap, initFlag>>
      /\ value' = {} /\ request' = Ended
  BY DEF SpifUnlock, Step
<1>2. CacheGood => CacheGood'
  BY <1>1 DEF CacheGood
<1>3. /\ ~ Resting /\ \A m \in BOOLEAN : ~ Reading(m)
      /\ \A op \in {"program", "erase"} : ~ Operating(op)
  BY <1>1, PhaseNames DEF TimerNames
<1>4. ASSUME Configuring PROVE Configuring'
  <2>1. AtInfoUnlock(todo) /\ ~ bypass /\ ~ initFlag /\ CacheGood
    BY <1>1, <1>4, ConfigPlaces DEF Configuring, TypesInv
  <2>2. AtInform(todo')
    BY <1>1, <2>1, ConfigPlaces
  <2>3. request' = None
    BY <1>1, <1>4 DEF Configuring, Ended
  <2> QED
    BY <1>1, <1>2, <1>4, <2>1, <2>2, <2>3 DEF Configuring
<1>5. ASSUME Finishing PROVE Resting'
  <2>1. todo' = <<>>
    BY <1>1, <1>5, ReadPlaces DEF Finishing
  <2> QED
    BY <1>1, <1>2, <1>5, <2>1 DEF Finishing, Resting, Ended
<1> QED
  BY <1>3, <1>4, <1>5 DEF Phase

LEMMA EnterPhase ==
  ASSUME TypesInv, Phase, EnterBypass
  PROVE  Phase'
<1>1. /\ todo # <<>> /\ Head(todo)[1] = "enter" /\ todo' = Tail(todo)
      /\ cache' \in {cache, [s \in Sectors |-> Absent]}
      /\ UNCHANGED <<flash, chip, remap, initFlag, value, request>>
  BY DEF EnterBypass, Step
<1>2. CacheGood => CacheGood'
  BY <1>1 DEF CacheGood
<1>3. ~ Resting /\ ~ Finishing /\ ~ Configuring
  BY <1>1, PhaseNames DEF TimerNames
<1>4. ASSUME NEW m \in BOOLEAN, Reading(m) PROVE Reading(m)'
  <2>1. AtReadEnter(m, todo) /\ (remap <=> m)
    BY <1>1, <1>4, ReadPlaces DEF Reading
  <2>2. AtCopy(m, todo')
    BY <1>1, <2>1, ReadPlaces
  <2> QED
    BY <1>1, <1>2, <1>4, <2>1, <2>2 DEF Reading
<1>5. ASSUME NEW op \in {"program", "erase"}, Operating(op) PROVE Operating(op)'
  <2>1. AtOpEnter(op, todo) /\ chip = None /\ CacheGood
    BY <1>1, <1>5, OperationPlaces DEF Operating
  <2>2. AtFirstWait(op, todo')
    BY <1>1, <2>1, OperationPlaces
  <2> QED
    BY <1>1, <1>2, <1>5, <2>1, <2>2 DEF Operating
<1> QED
  BY <1>3, <1>4, <1>5 DEF Phase

LEMMA ExitPhase ==
  ASSUME TypesInv, Phase, ExitBypass
  PROVE  Phase'
<1>1. /\ todo # <<>> /\ Head(todo)[1] = "exit" /\ todo' = Tail(todo)
      /\ UNCHANGED <<flash, chip, cache, remap, initFlag, value>>
      /\ bypass' = FALSE /\ request' = Ended
  BY DEF ExitBypass, Step
<1>2. CacheGood => CacheGood'
  BY <1>1 DEF CacheGood
<1>3. ~ Resting /\ ~ Finishing
  BY <1>1, PhaseNames DEF TimerNames
<1>4. ASSUME Configuring PROVE Resting' \/ Configuring'
  <2>1. AtConfigExit(initFlag, todo) /\ CacheGood
    BY <1>1, <1>4, ConfigPlaces DEF Configuring, TypesInv
  <2>2. request' = None
    BY <1>1, <1>4 DEF Configuring, Ended
  <2>3. ASSUME initFlag PROVE Resting'
    <3>1. Configured(todo')
      BY <1>1, <2>1, <2>3, ConfigPlaces DEF TypesInv
    <3> QED
      BY <1>1, <1>2, <1>4, <2>1, <2>2, <2>3, <3>1 DEF Configuring, Configured, Resting
  <2>4. ASSUME ~ initFlag PROVE Configuring'
    <3>1. AtInfoLock(todo')
      BY <1>1, <2>1, <2>4, ConfigPlaces DEF TypesInv
    <3> QED
      BY <1>1, <1>2, <1>4, <2>1, <2>2, <2>4, <3>1 DEF Configuring
  <2> QED
    BY <2>3, <2>4
<1>5. ASSUME NEW m \in BOOLEAN, Reading(m) PROVE Reading(m)' \/ Finishing'
  <2>1. AtReadExit(m, todo) /\ (remap <=> m)
    BY <1>1, <1>5, ReadPlaces DEF Reading
  <2>2. (m /\ AtUnmap(todo')) \/ (~ m /\ AtUnlock(todo'))
    BY <1>1, <2>1, ReadPlaces
  <2>3. request' = request
    BY <1>1, <2>2, ReadPlaces DEF Ended
  <2>4. request # None
    BY <1>5 DEF Reading, None
  <2> QED
    BY <1>1, <1>2, <1>5, <2>1, <2>2, <2>3, <2>4 DEF Reading, Finishing
<1>6. ASSUME NEW op \in {"program", "erase"}, Operating(op) PROVE Operating(op)' \/ Finishing'
  <2>1. AtOpExit(op, todo) /\ chip = None /\ (op = "erase" \/ CacheGood)
    BY <1>1, <1>6, OperationPlaces DEF Operating
  <2>2. (op = "erase" /\ AtFlush(todo')) \/ (op = "program" /\ AtUnlock(todo'))
    BY <1>1, <2>1, OperationPlaces
  <2>3. request' = request
    BY <1>1, <2>2, ReadPlaces, OperationPlaces DEF Ended
  <2>4. request # None
    BY <1>6 DEF Operating, None
  <2> QED
    BY <1>1, <1>2, <1>6, <2>1, <2>2, <2>3, <2>4 DEF Operating, Finishing
<1> QED
  BY <1>3, <1>4, <1>5, <1>6 DEF Phase

LEMMA FlushPhase ==
  ASSUME TypesInv, Phase, TagFlush
  PROVE  Phase'
<1>1. /\ todo # <<>> /\ Head(todo)[1] = "flush" /\ todo' = Tail(todo)
      /\ cache' = [s \in Sectors |-> Absent]
      /\ UNCHANGED <<flash, chip, bypass, remap, initFlag, value, request>>
  BY DEF TagFlush, Step
<1>2. CacheGood'
  BY <1>1 DEF CacheGood
<1>3. ~ Resting /\ ~ Finishing /\ \A m \in BOOLEAN : ~ Reading(m)
  BY <1>1, PhaseNames DEF TimerNames
<1>4. ASSUME Configuring PROVE Configuring'
  <2>1. AtConfigFlush(initFlag, todo)
    BY <1>1, <1>4, ConfigPlaces DEF Configuring, TypesInv
  <2>2. AtConfigExit(initFlag, todo')
    BY <1>1, <2>1, ConfigPlaces DEF TypesInv
  <2> QED
    BY <1>1, <1>2, <1>4, <2>2 DEF Configuring
<1>5. ASSUME NEW op \in {"program", "erase"}, Operating(op) PROVE Finishing'
  <2>1. AtFlush(todo) /\ op = "erase" /\ chip = None /\ ~ bypass
    BY <1>1, <1>5, OperationPlaces DEF Operating
  <2>2. AtUnlock(todo')
    BY <1>1, <2>1, OperationPlaces
  <2>3. request # None
    BY <1>5 DEF Operating, None
  <2> QED
    BY <1>1, <1>2, <1>5, <2>1, <2>2, <2>3 DEF Operating, Finishing
<1> QED
  BY <1>3, <1>4, <1>5 DEF Phase

LEMMA MapPhase ==
  ASSUME TypesInv, Phase, NEW on \in BOOLEAN, Map(on)
  PROVE  Phase'
<1>1. /\ todo # <<>> /\ todo' = Tail(todo) /\ remap' = on
      /\ (on /\ Head(todo)[1] = "map") \/ (~ on /\ Head(todo)[1] = "unmap")
      /\ UNCHANGED <<flash, chip, cache, bypass, initFlag, value, request>>
  BY DEF Map, Step
<1>2. CacheGood => CacheGood'
  BY <1>1 DEF CacheGood
<1>3. /\ ~ Resting /\ ~ Finishing /\ ~ Configuring
      /\ \A op \in {"program", "erase"} : ~ Operating(op)
  BY <1>1, PhaseNames DEF TimerNames
<1>4. ASSUME NEW m \in BOOLEAN, Reading(m) PROVE Reading(m)' \/ Finishing'
  <2>1. CASE Head(todo)[1] = "map"
    <3>1. AtMap(m, todo) /\ m /\ ~ bypass
      BY <1>4, <2>1, ReadPlaces DEF Reading
    <3>2. AtReadEnter(m, todo')
      BY <1>1, <3>1, ReadPlaces
    <3> QED
      BY <1>1, <1>2, <1>4, <2>1, <3>1, <3>2 DEF Reading
  <2>2. CASE Head(todo)[1] = "unmap"
    <3>1. AtUnmap(todo) /\ ~ bypass
      BY <1>4, <2>2, ReadPlaces DEF Reading
    <3>2. AtUnlock(todo')
      BY <1>1, <3>1, ReadPlaces
    <3>3. request # None
      BY <1>4 DEF Reading, None
    <3> QED
      BY <1>1, <1>2, <1>4, <2>2, <3>1, <3>2, <3>3 DEF Reading, Finishing
  <2> QED
    BY <1>1, <2>1, <2>2
<1> QED
  BY <1>3, <1>4 DEF Phase

LEMMA WaitPhase ==
  ASSUME TypesInv, Phase, WaitNoBusy
  PROVE  Phase'
<1>1. /\ todo # <<>> /\ Head(todo)[1] = "wait" /\ todo' = Tail(todo) /\ chip = None
      /\ UNCHANGED <<flash, chip, cache, bypass, remap, initFlag, value, request>>
  BY DEF WaitNoBusy, Step, spifVars
<1>2. CacheGood => CacheGood'
  BY <1>1 DEF CacheGood
<1>3. ~ Resting /\ ~ Finishing /\ \A m \in BOOLEAN : ~ Reading(m)
  BY <1>1, PhaseNames DEF TimerNames
<1>4. ASSUME Configuring PROVE Configuring'
  <2>1. (AtInfoFirstWait(todo) \/ AtInfoWait(todo)) /\ ~ bypass /\ ~ initFlag /\ CacheGood
    BY <1>1, <1>4, ConfigPlaces DEF Configuring, TypesInv
  <2>2. AtInfoWait(todo') \/ AtInfoUnlock(todo')
    BY <1>1, <2>1, ConfigPlaces
  <2> QED
    BY <1>1, <1>2, <1>4, <2>1, <2>2 DEF Configuring
<1>5. ASSUME NEW op \in {"program", "erase"}, Operating(op) PROVE Operating(op)'
  <2>1. CASE AtFirstWait(op, todo) /\ CacheGood
    <3>1. AtStart(op, todo')
      BY <1>1, <2>1, OperationPlaces
    <3> QED
      BY <1>1, <1>2, <1>5, <2>1, <3>1 DEF Operating
  <2>2. CASE AtOpWait(op, todo) /\ (op = "erase" \/ CacheGood)
    <3>1. AtOpExit(op, todo')
      BY <1>1, <2>2, OperationPlaces
    <3> QED
      BY <1>1, <1>2, <1>5, <2>2, <3>1 DEF Operating
  <2> QED
    BY <1>1, <1>5, <2>1, <2>2, OperationPlaces DEF Operating
<1> QED
  BY <1>3, <1>4, <1>5 DEF Phase

LEMMA StartPhase ==
  ASSUME TypesInv, Phase, NEW what \in {"program", "erase"}, Start(what)
  PROVE  Phase'
<1>1. /\ todo # <<>> /\ Head(todo)[1] = what /\ todo' = Tail(todo)
      /\ chip' = [op |-> what, on |-> request.on]
      /\ UNCHANGED <<flash, cache, bypass, remap, initFlag, value, request>>
  BY DEF Start, Step
<1>2. CacheGood => CacheGood'
  BY <1>1 DEF CacheGood
<1>3. ~ Resting /\ ~ Finishing /\ ~ Configuring /\ \A m \in BOOLEAN : ~ Reading(m)
  BY <1>1, PhaseNames DEF TimerNames
<1>4. ASSUME NEW op \in {"program", "erase"}, Operating(op) PROVE Operating(op)'
  <2>1. AtStart(op, todo) /\ CacheGood
    BY <1>1, <1>4, OperationPlaces DEF Operating
  <2>2. op = what /\ AtOpWait(op, todo')
    BY <1>1, <2>1, OperationPlaces
  <2>3. chip'.op = op /\ chip'.on = request'.on
    BY <1>1, <2>2
  <2> QED
    BY <1>1, <1>2, <1>4, <2>1, <2>2, <2>3 DEF Operating
<1> QED
  BY <1>3, <1>4 DEF Phase

LEMMA CopyPhase ==
  ASSUME TypesInv, Phase, Copy
  PROVE  Phase'
<1>1. /\ todo # <<>> /\ Head(todo)[1] = "copy" /\ todo' = Tail(todo)
      /\ UNCHANGED <<flash, chip, cache, bypass, remap, initFlag, request>>
  BY DEF Copy, Step
<1>2. CacheGood => CacheGood'
  BY <1>1 DEF CacheGood
<1>3. /\ ~ Resting /\ ~ Finishing /\ ~ Configuring
      /\ \A op \in {"program", "erase"} : ~ Operating(op)
  BY <1>1, PhaseNames DEF TimerNames
<1>4. ASSUME NEW m \in BOOLEAN, Reading(m) PROVE Reading(m)'
  <2>1. AtCopy(m, todo) /\ (remap <=> m)
    BY <1>1, <1>4, ReadPlaces DEF Reading
  <2>2. AtReadExit(m, todo')
    BY <1>1, <2>1, ReadPlaces
  <2> QED
    BY <1>1, <1>2, <1>4, <2>1, <2>2 DEF Reading
<1> QED
  BY <1>3, <1>4 DEF Phase

LEMMA InformPhase ==
  ASSUME TypesInv, Phase, Inform
  PROVE  Phase'
<1>1. /\ todo # <<>> /\ Head(todo)[1] = "inform" /\ todo' = Tail(todo)
      /\ UNCHANGED <<flash, chip, cache, bypass, remap, value>>
      /\ initFlag' = TRUE /\ request' = Ended
  BY DEF Inform, Step
<1>2. CacheGood => CacheGood'
  BY <1>1 DEF CacheGood
<1>3. /\ ~ Resting /\ ~ Finishing /\ \A m \in BOOLEAN : ~ Reading(m)
      /\ \A op \in {"program", "erase"} : ~ Operating(op)
  BY <1>1, PhaseNames DEF TimerNames
<1>4. ASSUME Configuring PROVE Resting'
  <2>1. AtInform(todo) /\ ~ bypass /\ CacheGood
    BY <1>1, <1>4, ConfigPlaces DEF Configuring, TypesInv
  <2>2. Configured(todo')
    BY <1>1, <2>1, ConfigPlaces
  <2>3. request' = None
    BY <1>1, <1>4 DEF Configuring, Ended
  <2> QED
    BY <1>1, <1>2, <1>4, <2>1, <2>2, <2>3 DEF Configuring, Configured, Resting
<1> QED
  BY <1>3, <1>4 DEF Phase

LEMMA SpifPhase ==
  ASSUME TypesInv, FlashInv, SpifStep
  PROVE  FlashInv'
<1>1. CASE GiveUp
  BY <1>1 DEF GiveUp, FlashInv
<1>2. CASE gaveUp
  <2>1. gaveUp'
    BY <1>2 DEF SpifStep, SpifLock, SpifUnlock, EnterBypass, ExitBypass, TagFlush, Map, WaitNoBusy,
                GiveUp, Start, Copy, Inform, spifVars
  <2> QED
    BY <2>1 DEF FlashInv
<1>3. CASE ~ gaveUp /\ ~ GiveUp
  <2>1. Phase
    BY <1>3 DEF FlashInv
  <2> QED
    BY <1>3, <2>1, LockPhase, UnlockPhase, EnterPhase, ExitPhase, FlushPhase, MapPhase, WaitPhase,
       StartPhase, CopyPhase, InformPhase DEF SpifStep, FlashInv
<1> QED
  BY <1>1, <1>2, <1>3

LEMMA BetweenCalls ==
  ASSUME TypesInv, Phase, todo = <<>>
  PROVE  Resting
<1>1. ~ Finishing
  BY ReadPlaces DEF Finishing
<1>2. ~ Configuring
  <2>1. ~ AtConfigFlush(initFlag, todo) /\ ~ AtConfigExit(initFlag, todo)
    BY DEF AtConfigFlush, AtConfigExit, Is
  <2>2. /\ ~ AtInfoLock(todo) /\ ~ AtInfoFirstWait(todo) /\ ~ AtInfoWait(todo)
        /\ ~ AtInfoUnlock(todo) /\ ~ AtInform(todo)
    BY ConfigPlaces
  <2> QED
    BY <2>1, <2>2 DEF Configuring
<1>3. ASSUME NEW m \in BOOLEAN PROVE ~ Reading(m)
  BY ReadPlaces DEF Reading
<1>4. ASSUME NEW op \in {"program", "erase"} PROVE ~ Operating(op)
  BY OperationPlaces DEF Operating
<1> QED
  BY <1>1, <1>2, <1>3, <1>4 DEF Phase

LEMMA CallsPhase ==
  ASSUME TypesInv, FlashInv, FlashRead \/ FlashWrite \/ FlashErase
  PROVE  FlashInv'
<1>1. /\ todo = <<>>
      /\ UNCHANGED <<flash, chip, cache, bypass, remap, initFlag, value, gaveUp>>
  BY DEF FlashRead, FlashWrite, FlashErase, Call
<1>2. SUFFICES ASSUME ~ gaveUp PROVE Phase'
  BY <1>1 DEF FlashInv
<1>3. /\ request = None /\ value = {} /\ chip = None
      /\ ~ remap /\ ~ bypass /\ initFlag /\ CacheGood
  BY <1>1, <1>2, BetweenCalls DEF FlashInv, Resting
<1>4. CacheGood'
  BY <1>1, <1>3 DEF CacheGood
<1>5. CASE FlashRead
  <2>1. PICK s \in Sectors : /\ todo' = ReadSteps(s)
                             /\ request' = [op |-> "read", on |-> {s}]
    BY <1>5 DEF FlashRead, Call
  <2>2. PICK m \in BOOLEAN : m <=> s \in Far /\ initFlag
    OBVIOUS
  <2>3. AtReadLock(m, todo')
    BY <1>3, <2>1, <2>2, ReadList DEF TypesInv
  <2>4. Reading(m)'
    BY <1>1, <1>3, <1>4, <2>1, <2>2, <2>3 DEF Reading
  <2> QED
    BY <2>4 DEF Phase
<1>6. CASE FlashWrite
  <2>1. PICK s \in Sectors : /\ todo' = WriteSteps
                             /\ request' = [op |-> "write", on |-> {s}]
    BY <1>6 DEF FlashWrite, Call
  <2>2. AtOpLock("program", todo')
    BY <2>1, WriteList
  <2>3. request'.op = "write" /\ request'.on = {s}
    BY <2>1
  <2>4. Operating("program")'
    BY <1>1, <1>3, <1>4, <2>2, <2>3 DEF Operating
  <2> QED
    BY <2>4 DEF Phase
<1>7. CASE FlashErase
  <2>1. PICK on \in {{s} : s \in Sectors} \cup {Sectors} :
          todo' = EraseSteps /\ request' = [op |-> "erase", on |-> on]
    BY <1>7 DEF FlashErase, Call
  <2>2. AtOpLock("erase", todo')
    BY <1>3, <2>1, EraseList DEF TypesInv
  <2>3. request'.op = "erase" /\ request'.on # {}
    BY <2>1, SpifAssumption
  <2>4. Operating("erase")'
    BY <1>1, <1>3, <1>4, <2>2, <2>3 DEF Operating
  <2> QED
    BY <2>4 DEF Phase
<1> QED
  BY <1>5, <1>6, <1>7

LEMMA TimerCallsPhase ==
  ASSUME TypesInv, FlashInv, UNCHANGED spifVars,
         TimerSet \/ TimerStop \/ TimerMaskInt \/ TimersInit \/ TimersDeinit
  PROVE  FlashInv' /\ (todo' = <<>> \/ Head(todo')[1] \in TimerNames)
<1>1. todo = <<>>
  BY DEF TimerSet, TimerStop, TimerMaskInt, TimersInit, TimersDeinit, Call
<1>2. todo' = <<>> \/ InTimerCall(todo')
  <2>1. CASE TimerSet
    BY <2>1, TimerLists DEF TimerSet, Call, InTimerCall, Setting
  <2>2. CASE TimerStop
    <3>1. PICK t \in Timers : todo' = StopSteps(t)
      BY <2>2 DEF TimerStop, Call
    <3>2. {t} \in SUBSET Timers /\ t \in {t}
      OBVIOUS
    <3>3. AtUnhook(t, todo')
      BY <3>1, <3>2, StopList
    <3> QED
      BY <3>3 DEF InTimerCall, Stopping
  <2>3. CASE TimerMaskInt
    BY <2>3, TimerLists DEF TimerMaskInt, Call, InTimerCall, Masking
  <2>4. CASE TimersInit
    BY <2>4, TimerLists DEF TimersInit, Call, InTimerCall
  <2>5. CASE TimersDeinit
    BY <2>5 DEF TimersDeinit, Call
  <2> QED
    BY <2>1, <2>2, <2>3, <2>4, <2>5
<1>3. ASSUME ~ gaveUp PROVE Phase'
  <2>1. Resting
    BY <1>1, <1>3, BetweenCalls DEF FlashInv
  <2>2. Resting'
    BY <1>2, <2>1 DEF Resting, spifVars, CacheGood
  <2> QED
    BY <2>2 DEF Phase
<1> QED
  BY <1>2, <1>3, TimerName DEF FlashInv, spifVars

LEMMA TimerStepGoesOn ==
  ASSUME TodoInv, ReadGates \/ \E t \in Timers : TimerStep(t)
  PROVE  InTimerCall(todo) /\ (todo' = <<>> \/ InTimerCall(todo'))
<1>1. CASE \E t \in Timers : StopNext(t)
  <2>1. PICK t \in Timers, ts \in SUBSET Timers :
          /\ t \in ts
          /\ todo # <<>> /\ Head(todo) = <<"stop", ts>>
          /\ todo' = StopSteps(t) \o IF ts = {t} THEN <<>> ELSE <<<<"stop", ts \ {t}>>>>
    BY <1>1 DEF StopNext
  <2>2. AtUnhook(t, todo')
    BY <2>1, StopList
  <2>3. Head(todo)[1] = "stop"
    BY <2>1
  <2> QED
    BY <2>1, <2>2, <2>3, InTimer DEF InTimerCall, Stopping, TimerNames
<1>2. CASE ReadGates \/ \E t \in Timers : TimerStep(t) /\ ~ StopNext(t)
  <2>1. todo # <<>> /\ Head(todo)[1] \in TimerNames \ {"stop"} /\ todo' = Tail(todo)
    <3>1. CASE ReadGates
      BY <3>1 DEF ReadGates, Step, TimerNames
    <3>2. CASE \E t \in Timers : TimerStep(t) /\ ~ StopNext(t)
      <4>1. PICK t \in Timers : TimerStep(t) /\ ~ StopNext(t)
        BY <3>2
      <4> QED
        BY <4>1 DEF TimerStep, Hook, Unhook, Arm, Disarm, LoadTimer, StopCounter, ClkGate, ReadCtrl,
                    MaskInt, Step, TimerNames
    <3> QED
      BY <1>2, <3>1, <3>2
  <2>2. InTimerCall(todo)
    BY <2>1, InTimer
  <2>3. ~ AtStop(todo)
    BY <2>1, StopPlaces
  <2>4. PICK t \in Timers : Setting(t, todo) \/ Stopping(t, todo) \/ Masking(t, todo)
    BY <2>2, <2>3 DEF InTimerCall
  <2>5. \/ todo' = <<>> \/ AtStop(todo')
        \/ Setting(t, todo') \/ Stopping(t, todo') \/ Masking(t, todo')
    BY <2>1, <2>4, SetPlaces, StopPlaces, MaskPlaces DEF Setting, Stopping, Masking
  <2> QED
    BY <2>2, <2>5 DEF InTimerCall
<1> QED
  BY <1>1, <1>2

LEMMA TimerStepPhase ==
  ASSUME TypesInv, TodoInv, FlashInv, UNCHANGED spifVars,
         ReadGates \/ \E t \in Timers : TimerStep(t)
  PROVE  FlashInv' /\ (todo' = <<>> \/ Head(todo')[1] \in TimerNames)
<1>1. InTimerCall(todo) /\ (todo' = <<>> \/ InTimerCall(todo'))
  BY TimerStepGoesOn
<1>2. Head(todo)[1] \in TimerNames
  BY <1>1, TimerName
<1>3. ASSUME ~ gaveUp PROVE Phase'
  <2>1. Resting
    BY <1>2, <1>3, PhaseNames DEF FlashInv, Phase, TimerNames
  <2>2. Resting'
    BY <1>1, <2>1 DEF Resting, spifVars, CacheGood
  <2> QED
    BY <2>2 DEF Phase
<1> QED
  BY <1>1, <1>3, TimerName DEF FlashInv, spifVars

LEMMA WakeupPhase ==
  ASSUME TypesInv, TodoInv, FlashInv, UNCHANGED spifVars, WakeupHandler
  PROVE  FlashInv' /\ (~ gaveUp => todo' = <<>>)
<1>1. todo # <<>> /\ Head(todo)[1] = "wakeup" /\ todo' = Tail(todo)
  BY DEF WakeupHandler, Step
<1>2. ASSUME ~ gaveUp PROVE Resting /\ todo' = <<>>
  <2>1. Resting
    BY <1>1, <1>2, PhaseNames DEF FlashInv, Phase
  <2>2. AtWakeup(todo)
    BY <1>1, <2>1, TimerName DEF Resting, TimerNames
  <2> QED
    BY <1>1, <2>1, <2>2 DEF AtWakeup
<1>3. ASSUME ~ gaveUp PROVE Phase'
  BY <1>2, <1>3 DEF Phase, Resting, spifVars, CacheGood
<1> QED
  BY <1>2, <1>3 DEF FlashInv, spifVars

LEMMA SleepPhase ==
  ASSUME TypesInv, FlashInv, Sleep
  PROVE  FlashInv'
<1>1. /\ todo = <<>> /\ todo' = ConfigSteps \o <<<<"wakeup">>>>
      /\ remap' = FALSE
      /\ UNCHANGED <<flash, chip, initFlag, value, request, gaveUp>>
  BY DEF Sleep, Call
<1>2. SUFFICES ASSUME ~ gaveUp PROVE Phase'
  BY <1>1 DEF FlashInv
<1>3. request = None /\ value = {} /\ chip = None
  BY <1>1, <1>2, BetweenCalls DEF FlashInv, Resting
<1>4. AtConfigFlush(initFlag, todo')
  BY <1>1, ConfigList DEF TypesInv
<1>5. AtConfigFlush(initFlag', todo')
  BY <1>1, <1>4
<1>6. Configuring'
  BY <1>1, <1>3, <1>5 DEF Configuring
<1> QED
  BY <1>6 DEF Phase

LEMMA NoneServed == enabled \cap Timers = {} /\ TypesInv => Serving = {}
BY DEF Serving, TypesInv

LEMMA ChipPhase ==
  ASSUME TypesInv, FlashInv, ChipDone
  PROVE  FlashInv'
<1>1. /\ chip # None /\ chip' = None
      /\ UNCHANGED <<todo, cache, bypass, remap, initFlag, value, request, gaveUp>>
  BY DEF ChipDone
<1>2. SUFFICES ASSUME ~ gaveUp PROVE Phase'
  BY <1>1 DEF FlashInv
<1>3. PICK op \in {"program", "erase"} : Operating(op)
  BY <1>1, <1>2 DEF FlashInv, Phase, Resting, Finishing, Configuring, Reading
<1>4. AtOpWait(op, todo) /\ chip.op = op /\ (op = "erase" \/ CacheGood)
  BY <1>1, <1>3 DEF Operating
<1>5. ASSUME op = "program" PROVE CacheGood'
  <2>1. PICK i \in Items :
          flash' = [s \in Sectors |-> flash[s] \cup (IF s \in chip.on THEN {i} ELSE {})]
    BY <1>4, <1>5 DEF ChipDone
  <2>2. \A s \in Sectors : flash[s] \subseteq flash'[s]
    BY <2>1
  <2>3. CacheGood
    BY <1>4, <1>5
  <2> QED
    BY <1>1, <2>2, <2>3 DEF CacheGood
<1>6. Operating(op)'
  BY <1>1, <1>3, <1>4, <1>5 DEF Operating
<1> QED
  BY <1>6 DEF Phase

LEMMA FetchPhase ==
  ASSUME TypesInv, FlashInv, MaskedInv, NEW s \in Sectors, Fetch(s)
  PROVE  FlashInv'
<1>1. /\ todo = <<>> \/ Serving # {}
      /\ initFlag /\ ~ bypass /\ cache[s] = Absent
      /\ cache' = [cache EXCEPT ![s] = IF chip = None THEN flash[s] ELSE Garbage]
      /\ UNCHANGED <<todo, enabled, pending, hooked, flash, chip, bypass, remap, initFlag, value,
                     request, gaveUp>>
  BY DEF Fetch, FlashInUse, processor
<1>2. SUFFICES ASSUME ~ gaveUp PROVE Phase'
  BY <1>1 DEF FlashInv
<1>3. ASSUME chip = None PROVE CacheGood => CacheGood'
  BY <1>1, <1>3 DEF CacheGood, TypesInv
<1>4. Phase
  BY <1>2 DEF FlashInv
<1>5. todo = <<>> \/ Head(todo)[1] \notin Busy
  BY <1>1, <1>2, NoneServed DEF MaskedInv
<1>6. ASSUME Resting PROVE Resting'
  BY <1>1, <1>3, <1>6 DEF Resting
<1>7. ASSUME Configuring PROVE Configuring'
  <2>1. ~ AtConfigFlush(initFlag, todo)
    BY <1>5, ConfigPlaces DEF Busy, TypesInv
  <2> QED
    BY <1>1, <1>3, <1>7, <2>1 DEF Configuring
<1>8. ASSUME NEW m \in BOOLEAN, Reading(m) PROVE Reading(m)'
  BY <1>1, <1>3, <1>8 DEF Reading
<1>9. ASSUME NEW op \in {"program", "erase"}, Operating(op) PROVE Operating(op)'
  <2>1. AtOpLock(op, todo)
    BY <1>5, <1>9, OperationPlaces DEF Operating, Busy
  <2> QED
    BY <1>1, <1>3, <1>9, <2>1, OperationPlaces DEF Operating, Busy
<1>10. ASSUME Finishing PROVE Finishing'
  BY <1>1, <1>3, <1>10 DEF Finishing
<1> QED
  BY <1>4, <1>6, <1>7, <1>8, <1>9, <1>10 DEF Phase

LEMMA SpifMasked ==
  ASSUME TypesInv, FlashInv, MaskedInv, SpifStep
  PROVE  MaskedInv'
<1>1. SUFFICES ASSUME ~ gaveUp', todo' # <<>>, Head(todo')[1] \in Busy
               PROVE  enabled' \cap Timers = {}
  BY DEF MaskedInv
<1>2. ~ gaveUp /\ ~ GiveUp
  BY <1>1 DEF SpifStep, SpifLock, SpifUnlock, EnterBypass, ExitBypass, TagFlush, Map, WaitNoBusy,
              GiveUp, Start, Copy, Inform, spifVars
<1>3. Phase
  BY <1>2 DEF FlashInv
<1>4. CASE SpifLock
  BY <1>4, DriversAssumption DEF SpifLock, RadioIrqs
<1>5. CASE SpifUnlock
  <2>1. Head(todo)[1] = "unlock" /\ todo' = Tail(todo)
    BY <1>5 DEF SpifUnlock, Step
  <2>2. Finishing \/ Configuring
    BY <1>3, <1>5, <2>1, PhaseNames DEF Phase, TimerNames, SpifUnlock, Step
  <2>3. CASE Finishing
    BY <1>1, <2>1, <2>3, ReadPlaces DEF Finishing
  <2>4. CASE Configuring
    <3>1. AtInfoUnlock(todo)
      BY <2>1, <2>4, ConfigPlaces DEF Configuring, TypesInv
    <3>2. AtInform(todo')
      BY <2>1, <3>1, ConfigPlaces
    <3> QED
      BY <1>1, <3>2, ConfigPlaces DEF Busy
  <2> QED
    BY <2>2, <2>3, <2>4
<1>6. CASE Inform
  <2>1. Head(todo)[1] = "inform" /\ todo' = Tail(todo) /\ todo # <<>>
    BY <1>6 DEF Inform, Step
  <2>2. Configuring
    BY <1>3, <2>1, PhaseNames DEF Phase, TimerNames
  <2>3. AtInform(todo)
    BY <2>1, <2>2, ConfigPlaces DEF Configuring, TypesInv
  <2>4. Configured(todo')
    BY <2>1, <2>3, ConfigPlaces
  <2> QED
    BY <1>1, <2>4, ConfigPlaces DEF Configured, Busy
<1>7. CASE \/ EnterBypass \/ ExitBypass \/ TagFlush \/ (\E on \in BOOLEAN : Map(on)) \/ WaitNoBusy
           \/ (\E op \in {"program", "erase"} : Start(op)) \/ Copy
  <2>1. todo # <<>> /\ Head(todo)[1] \in Busy /\ enabled' = enabled
    BY <1>7 DEF EnterBypass, ExitBypass, TagFlush, Map, WaitNoBusy, Start, Copy, Step, Busy
  <2> QED
    BY <1>2, <2>1 DEF MaskedInv
<1> QED
  BY <1>2, <1>4, <1>5, <1>6, <1>7 DEF SpifStep

LEMMA CallsMasked ==
  ASSUME TypesInv, FlashInv, FlashRead \/ FlashWrite \/ FlashErase
  PROVE  MaskedInv'
<1>1. todo = <<>> /\ UNCHANGED <<bypass, gaveUp>>
  BY DEF FlashRead, FlashWrite, FlashErase, Call
<1>2. SUFFICES ASSUME ~ gaveUp PROVE Head(todo')[1] = "lock"
  BY <1>1 DEF MaskedInv, Busy
<1>3. ~ bypass
  BY <1>1, <1>2, BetweenCalls DEF FlashInv, Resting
<1>4. CASE FlashRead
  <2>1. PICK s \in Sectors : todo' = ReadSteps(s)
    BY <1>4 DEF FlashRead, Call
  <2>2. PICK m \in BOOLEAN : m <=> s \in Far /\ initFlag
    OBVIOUS
  <2>3. AtReadLock(m, todo')
    BY <1>3, <2>1, <2>2, ReadList DEF TypesInv
  <2> QED
    BY <2>3, ReadPlaces
<1>5. CASE FlashWrite
  BY <1>5, WriteList, OperationPlaces DEF FlashWrite, Call
<1>6. CASE FlashErase
  BY <1>3, <1>6, EraseList, OperationPlaces DEF FlashErase, Call, TypesInv
<1> QED
  BY <1>4, <1>5, <1>6

LEMMA InterruptMasked ==
  ASSUME TypesInv, MaskedInv, NEW t \in Timers, Interrupt(t)
  PROVE  MaskedInv'
<1>1. t \in Serving /\ UNCHANGED <<todo, gaveUp>>
  BY DEF Interrupt, Callback, IrqIgnored, spifVars
<1>2. ~ gaveUp /\ todo # <<>> => Head(todo)[1] \notin Busy
  BY <1>1, NoneServed DEF MaskedInv
<1> QED
  BY <1>1, <1>2 DEF MaskedInv

FlashSide == FlashInv /\ MaskedInv

LEMMA FlashNext ==
  TypesInv /\ TimerInv /\ FlashSide /\ [Next]_vars => FlashSide'
<1> SUFFICES ASSUME TypesInv, TodoInv, FlashInv, MaskedInv, [Next]_vars PROVE FlashInv' /\ MaskedInv'
  BY DEF FlashSide, TimerInv
<1>1. CASE (FlashRead \/ FlashWrite \/ FlashErase) /\ UNCHANGED timerVars
  BY <1>1, CallsPhase, CallsMasked
<1>2. CASE (TimerSet \/ TimerStop \/ TimerMaskInt \/ TimersInit \/ TimersDeinit)
             /\ UNCHANGED spifVars
  <2>1. FlashInv' /\ (todo' = <<>> \/ Head(todo')[1] \in TimerNames)
    BY <1>2, TimerCallsPhase
  <2> QED
    BY <2>1 DEF MaskedInv, TimerNames, Busy
<1>3. CASE SpifStep /\ UNCHANGED timerVars
  BY <1>3, SpifPhase, SpifMasked
<1>4. CASE (ReadGates \/ \E t \in Timers : TimerStep(t)) /\ UNCHANGED spifVars
  <2>1. FlashInv' /\ (todo' = <<>> \/ Head(todo')[1] \in TimerNames)
    BY <1>4, TimerStepPhase
  <2> QED
    BY <2>1 DEF MaskedInv, TimerNames, Busy
<1>5. CASE WakeupHandler /\ UNCHANGED spifVars
  <2>1. FlashInv' /\ (~ gaveUp => todo' = <<>>)
    BY <1>5, WakeupPhase
  <2> QED
    BY <1>5, <2>1 DEF MaskedInv, spifVars
<1>6. CASE Sleep
  <2>1. enabled' = {}
    BY <1>6 DEF Sleep
  <2> QED
    BY <1>6, <2>1, SleepPhase DEF MaskedInv
<1>7. CASE \E t \in Timers : Interrupt(t)
  <2>1. UNCHANGED <<todo, spifVars>>
    BY <1>7 DEF Interrupt, Callback, IrqIgnored
  <2>2. FlashInv'
    BY <2>1 DEF FlashInv, Phase, Resting, Finishing, Configuring, Reading, Operating, CacheGood, spifVars
  <2> QED
    BY <1>7, <2>2, InterruptMasked
<1>8. CASE \E t \in Timers : Expire(t) /\ UNCHANGED spifVars
  <2>1. UNCHANGED <<todo, enabled, spifVars>>
    BY <1>8 DEF Expire
  <2>2. FlashInv'
    BY <2>1 DEF FlashInv, Phase, Resting, Finishing, Configuring, Reading, Operating, CacheGood, spifVars
  <2> QED
    BY <2>1, <2>2 DEF MaskedInv, spifVars
<1>9. CASE ChipDone /\ UNCHANGED timerVars
  BY <1>9, ChipPhase DEF ChipDone, MaskedInv
<1>10. CASE \E s \in Sectors : Fetch(s) /\ UNCHANGED timerVars
  <2>1. FlashInv'
    BY <1>10, FetchPhase
  <2>2. UNCHANGED <<todo, enabled, gaveUp>>
    BY <1>10 DEF Fetch, processor
  <2> QED
    BY <2>1, <2>2 DEF MaskedInv
<1>11. CASE UNCHANGED vars
  <2>1. FlashInv'
    BY <1>11 DEF FlashInv, Phase, Resting, Finishing, Configuring, Reading, Operating, CacheGood,
                 spifVars, vars, processor
  <2> QED
    BY <1>11, <2>1 DEF MaskedInv, vars, processor, spifVars
<1> QED
  BY <1>1, <1>2, <1>3, <1>4, <1>5, <1>6, <1>7, <1>8, <1>9, <1>10, <1>11 DEF Next, Calls, Work

LEMMA InitFlash == Init => FlashSide
<1> SUFFICES ASSUME Init PROVE FlashSide
  OBVIOUS
<1>1. AtConfigFlush(initFlag, todo)
  BY ConfigList DEF Init, SpifInit
<1>2. Configuring
  BY <1>1 DEF Init, SpifInit, Configuring
<1> QED
  BY <1>2 DEF FlashSide, FlashInv, Phase, MaskedInv, Init

(* The inductive invariant.                                                *)
THEOREM Invariance == Spec => []IInv
<1>1. Init => TypesInv /\ TimerInv /\ FlashSide
  BY InitTimers, InitFlash
<1>2. TypesInv /\ TimerInv /\ FlashSide /\ [Next]_vars => (TypesInv /\ TimerInv /\ FlashSide)'
  BY TimerNext, FlashNext
<1>3. TypesInv /\ TimerInv /\ FlashSide => IInv
  BY DEF TimerInv, FlashSide, IInv
<1> QED
  BY <1>1, <1>2, <1>3, PTL DEF Spec

(* An interrupt whose handler may be in flash is served only while the     *)
(* chip can be read and shows the bank the program is in.                  *)
THEOREM HandlersRunFromFlash == Spec => []HandlersFindFlash
<1>1. IInv => HandlersFindFlash
  <2> SUFFICES ASSUME IInv, Serving # {}, ~ gaveUp PROVE chip = None /\ ~ remap
    BY DEF HandlersFindFlash
  <2> USE DEF IInv
  <2>1. todo = <<>> \/ Head(todo)[1] \notin Busy
    BY NoneServed DEF MaskedInv
  <2>2. Phase
    BY DEF FlashInv
  <2>3. CASE Resting \/ Finishing \/ Configuring
    BY <2>3 DEF Resting, Finishing, Configuring
  <2>4. ASSUME NEW m \in BOOLEAN, Reading(m) PROVE chip = None /\ ~ remap
    <3>1. AtReadLock(m, todo) /\ ~ remap
      BY <2>1, <2>4, ReadPlaces DEF Reading, Busy
    <3> QED
      BY <2>4, <3>1 DEF Reading
  <2>5. ASSUME NEW op \in {"program", "erase"}, Operating(op) PROVE chip = None /\ ~ remap
    <3>1. AtOpLock(op, todo)
      BY <2>1, <2>5, OperationPlaces DEF Operating, Busy
    <3> QED
      BY <2>1, <2>5, <3>1, OperationPlaces DEF Operating, Busy
  <2> QED
    BY <2>2, <2>3, <2>4, <2>5 DEF Phase
<1> QED
  BY <1>1, Invariance, PTL

(* The cache never shows what has been erased or what was there before a   *)
(* sleep.                                                                  *)
THEOREM CacheHoldsNothingErased == Spec => []CacheNeverShowsErased
<1>1. IInv => CacheNeverShowsErased
  <2> SUFFICES ASSUME IInv, FlashInUse, initFlag, ~ gaveUp PROVE CacheGood
    BY DEF CacheNeverShowsErased, CacheGood
  <2> USE DEF IInv
  <2>1. todo = <<>> \/ Head(todo)[1] \notin Busy
    BY NoneServed DEF MaskedInv, FlashInUse
  <2>2. Phase
    BY DEF FlashInv
  <2>3. CASE Resting \/ Finishing
    BY <2>3 DEF Resting, Finishing
  <2>4. ASSUME Configuring PROVE CacheGood
    <3>1. ~ AtConfigFlush(initFlag, todo)
      BY <2>1, ConfigPlaces DEF Busy, TypesInv
    <3> QED
      BY <2>4, <3>1 DEF Configuring
  <2>5. ASSUME NEW m \in BOOLEAN, Reading(m) PROVE CacheGood
    BY <2>5 DEF Reading
  <2>6. ASSUME NEW op \in {"program", "erase"}, Operating(op) PROVE CacheGood
    BY <2>1, <2>6, OperationPlaces DEF Operating, Busy
  <2> QED
    BY <2>2, <2>3, <2>4, <2>5, <2>6 DEF Phase
<1> QED
  BY <1>1, Invariance, PTL

-----------------------------------------------------------------------------
(* flash.c implements FlashDevice.                                         *)

Effects == {<<"copy">>, <<"program">>, <<"erase">>}
Effective(s) == \A i \in DOMAIN s : s[i] \notin Effects
Done == request # None /\ chip = None /\ Effective(todo)

LEMMA EffectNames == \A s : Head(s) \in Effects => Head(s)[1] \in {"copy", "program", "erase"}
BY DEF Effects

LEMMA EffectiveTail ==
  ASSUME NEW s \in Seq(SpifSteps), s # <<>>
  PROVE  Effective(s) <=> Head(s) \notin Effects /\ Effective(Tail(s))
<1>1. /\ DOMAIN s = 1 .. Len(s) /\ Len(s) \in Nat \ {0} /\ Head(s) = s[1]
      /\ DOMAIN Tail(s) = 1 .. Len(s) - 1
      /\ \A i \in 1 .. Len(s) - 1 : Tail(s)[i] = s[i + 1]
  OBVIOUS
<1>2. ASSUME Effective(s) PROVE Head(s) \notin Effects /\ Effective(Tail(s))
  <2>1. Head(s) \notin Effects
    BY <1>1, <1>2 DEF Effective
  <2>2. ASSUME NEW i \in 1 .. Len(s) - 1 PROVE Tail(s)[i] \notin Effects
    <3>1. i + 1 \in 1 .. Len(s)
      BY <1>1
    <3> QED
      BY <1>1, <1>2, <3>1 DEF Effective
  <2> QED
    BY <1>1, <2>1, <2>2 DEF Effective
<1>3. ASSUME Head(s) \notin Effects, Effective(Tail(s)) PROVE Effective(s)
  <2>1. ASSUME NEW i \in 1 .. Len(s) PROVE s[i] \notin Effects
    <3>1. CASE i = 1
      BY <1>1, <1>3, <3>1
    <3>2. CASE i # 1
      <4>1. i - 1 \in 1 .. Len(s) - 1 /\ i = (i - 1) + 1
        BY <1>1, <3>2
      <4>2. Tail(s)[i - 1] \notin Effects
        BY <1>1, <1>3, <4>1 DEF Effective
      <4> QED
        BY <1>1, <4>1, <4>2
    <3> QED
      BY <3>1, <3>2
  <2> QED
    BY <1>1, <2>1 DEF Effective
<1> QED
  BY <1>2, <1>3

LEMMA NoEffectYet ==
  ASSUME NEW s \in Seq(SpifSteps), s # <<>>, Head(s)[1] \notin {"copy", "program", "erase"}
  PROVE  Tail(s) \in Seq(SpifSteps) /\ (Effective(s) <=> Effective(Tail(s)))
BY EffectiveTail, EffectNames

LEMMA ReadEffect ==
  ASSUME NEW s \in Seq(SpifSteps), NEW m \in BOOLEAN
  PROVE  /\ AtUnlock(s) \/ AtUnmap(s) \/ AtReadExit(m, s) => Effective(s)
         /\ AtCopy(m, s) \/ AtReadEnter(m, s) \/ AtMap(m, s) \/ AtReadLock(m, s) => ~ Effective(s)
<1>1. /\ \A r \in Seq(SpifSteps) : r # <<>> => Tail(r) \in Seq(SpifSteps)
      /\ Effective(<<>>)
  BY DEF Effective
<1>2. \A r \in Seq(SpifSteps) : AtUnlock(r) => Effective(r)
  BY <1>1, EffectiveTail, EffectNames, ReadPlaces
<1>3. \A r \in Seq(SpifSteps) : AtUnmap(r) => Effective(r)
  BY <1>1, <1>2, EffectiveTail, EffectNames, ReadPlaces
<1>4. \A r \in Seq(SpifSteps) : AtReadExit(m, r) => Effective(r)
  BY <1>1, <1>2, <1>3, EffectiveTail, EffectNames, ReadPlaces
<1>5. \A r \in Seq(SpifSteps) : AtCopy(m, r) => ~ Effective(r)
  BY EffectiveTail DEF AtCopy, Is, Effects
<1>6. \A r \in Seq(SpifSteps) : AtReadEnter(m, r) => ~ Effective(r)
  BY <1>1, <1>5, EffectiveTail, ReadPlaces
<1>7. \A r \in Seq(SpifSteps) : AtMap(m, r) => ~ Effective(r)
  BY <1>1, <1>6, EffectiveTail, ReadPlaces
<1>8. ASSUME NEW r \in Seq(SpifSteps), AtReadLock(m, r) PROVE ~ Effective(r)
  <2>1. /\ r # <<>> /\ Head(r)[1] \notin {"copy", "program", "erase"}
        /\ AtMap(m, Tail(r)) \/ AtReadEnter(m, Tail(r))
    BY <1>8, ReadPlaces
  <2> QED
    BY <1>6, <1>7, <2>1, NoEffectYet
<1> QED
  BY <1>2, <1>3, <1>4, <1>5, <1>6, <1>7, <1>8

LEMMA OperationEffect ==
  ASSUME NEW s \in Seq(SpifSteps), NEW op \in {"program", "erase"}
  PROVE  /\ AtOpWait(op, s) => Effective(s)
         /\ AtOpLock(op, s) \/ AtStart(op, s) => ~ Effective(s)
<1>1. \A r \in Seq(SpifSteps) : r # <<>> => Tail(r) \in Seq(SpifSteps)
  OBVIOUS
<1>2. \A r \in Seq(SpifSteps) : AtUnlock(r) => Effective(r)
  BY ReadEffect
<1>3. \A r \in Seq(SpifSteps) : AtFlush(r) => Effective(r)
  BY <1>1, <1>2, EffectiveTail, EffectNames, OperationPlaces
<1>4. \A r \in Seq(SpifSteps) : AtOpExit(op, r) => Effective(r)
  BY <1>1, <1>2, <1>3, EffectiveTail, EffectNames, OperationPlaces
<1>5. ASSUME NEW r \in Seq(SpifSteps), AtOpWait(op, r) PROVE Effective(r)
  <2>1. /\ r # <<>> /\ Head(r)[1] \notin {"copy", "program", "erase"}
        /\ AtOpExit(op, Tail(r))
    BY <1>5, OperationPlaces
  <2> QED
    BY <1>4, <2>1, NoEffectYet
<1>6. \A r \in Seq(SpifSteps) : AtStart(op, r) => ~ Effective(r)
  BY EffectiveTail DEF AtStart, Is, Effects
<1>7. ASSUME NEW r \in Seq(SpifSteps), AtFirstWait(op, r) PROVE ~ Effective(r)
  <2>1. /\ r # <<>> /\ Head(r)[1] \notin {"copy", "program", "erase"}
        /\ AtStart(op, Tail(r))
    BY <1>7, OperationPlaces
  <2> QED
    BY <1>6, <2>1, NoEffectYet
<1>8. ASSUME NEW r \in Seq(SpifSteps), AtOpEnter(op, r) PROVE ~ Effective(r)
  <2>1. /\ r # <<>> /\ Head(r)[1] \notin {"copy", "program", "erase"}
        /\ AtFirstWait(op, Tail(r))
    BY <1>8, OperationPlaces
  <2> QED
    BY <1>7, <2>1, NoEffectYet
<1>9. ASSUME NEW r \in Seq(SpifSteps), AtOpLock(op, r) PROVE ~ Effective(r)
  <2>1. /\ r # <<>> /\ Head(r)[1] \notin {"copy", "program", "erase"}
        /\ AtOpEnter(op, Tail(r))
    BY <1>9, OperationPlaces
  <2> QED
    BY <1>8, <2>1, NoEffectYet
<1> QED
  BY <1>5, <1>6, <1>9


LEMMA Unobserved ==
  ASSUME UNCHANGED <<flash, request, value, gaveUp>>, Done' <=> Done
  PROVE  UNCHANGED Device!vars
BY DEF Device!vars, Done, Effective, Effects

LEMMA Resumed ==
  ASSUME todo \in Seq(SpifSteps), todo # <<>>, Head(todo)[1] \notin {"copy", "program", "erase"},
         todo' = Tail(todo), UNCHANGED <<flash, chip, request, value, gaveUp>>
  PROVE  UNCHANGED Device!vars
<1>1. Effective(todo') <=> Effective(todo)
  BY NoEffectYet
<1> QED
  BY <1>1, Unobserved DEF Done

LEMMA Unasked ==
  ASSUME request = None, UNCHANGED <<flash, request, value, gaveUp>>
  PROVE  UNCHANGED Device!vars
BY Unobserved DEF Done

LEMMA ExitDevice ==
  ASSUME TypesInv, todo \in Seq(SpifSteps), Phase, ExitBypass
  PROVE  UNCHANGED Device!vars
<1>1. /\ todo # <<>> /\ Head(todo)[1] = "exit" /\ todo' = Tail(todo)
      /\ UNCHANGED <<flash, chip, value, gaveUp>> /\ request' = Ended
  BY DEF ExitBypass, Step
<1>2. ~ Resting /\ ~ Finishing
  BY <1>1, PhaseNames DEF TimerNames
<1>3. CASE Configuring
  BY <1>1, <1>3, Unasked DEF Configuring, Ended
<1>4. ASSUME NEW m \in BOOLEAN, Reading(m) PROVE todo' # <<>>
  <2>1. AtReadExit(m, todo)
    BY <1>1, <1>4, ReadPlaces DEF Reading
  <2> QED
    BY <1>1, <2>1, ReadPlaces
<1>5. ASSUME NEW op \in {"program", "erase"}, Operating(op) PROVE todo' # <<>>
  <2>1. AtOpExit(op, todo)
    BY <1>1, <1>5, OperationPlaces DEF Operating
  <2> QED
    BY <1>1, <2>1, ReadPlaces, OperationPlaces
<1>6. CASE todo' # <<>>
  BY <1>1, <1>6, Resumed DEF Ended
<1> QED
  BY <1>2, <1>3, <1>4, <1>5, <1>6 DEF Phase

LEMMA UnlockDevice ==
  ASSUME TypesInv, todo \in Seq(SpifSteps), Phase, SpifUnlock
  PROVE  Device!End \/ UNCHANGED Device!vars
<1>1. /\ todo # <<>> /\ Head(todo)[1] = "unlock" /\ todo' = Tail(todo)
      /\ UNCHANGED <<flash, chip, gaveUp>> /\ request' = Ended /\ value' = {}
  BY DEF SpifUnlock, Step
<1>2. Finishing \/ Configuring
  BY <1>1, PhaseNames DEF Phase, TimerNames
<1>3. CASE Configuring
  BY <1>1, <1>3, Unasked DEF Configuring, Ended
<1>4. CASE Finishing
  <2>1. todo' = <<>> /\ Effective(todo) /\ request # None /\ chip = None
    BY <1>1, <1>4, ReadPlaces, ReadEffect DEF Finishing
  <2>2. Done /\ request' = None /\ Done' = FALSE
    BY <1>1, <2>1 DEF Done, Ended
  <2> QED
    BY <1>1, <2>2 DEF Device!End, Device!Idle, Done, Effective, Effects, None
<1> QED
  BY <1>2, <1>3, <1>4

LEMMA StartDevice ==
  ASSUME TypesInv, todo \in Seq(SpifSteps), Phase, NEW what \in {"program", "erase"}, Start(what)
  PROVE  UNCHANGED Device!vars
<1>1. /\ todo # <<>> /\ Head(todo)[1] = what /\ todo' = Tail(todo)
      /\ chip' = [op |-> what, on |-> request.on]
      /\ UNCHANGED <<flash, value, request, gaveUp>>
  BY DEF Start, Step
<1>2. PICK op \in {"program", "erase"} : Operating(op)
  BY <1>1, PhaseNames DEF Phase, TimerNames
<1>3. AtStart(op, todo)
  BY <1>1, <1>2, OperationPlaces DEF Operating
<1>4. ~ Done
  BY <1>3, OperationEffect DEF Done
<1>5. chip' # None
  BY <1>1 DEF None
<1> QED
  BY <1>1, <1>4, <1>5, Unobserved DEF Done

LEMMA CopyDevice ==
  ASSUME TypesInv, todo \in Seq(SpifSteps), Phase, Copy
  PROVE  Device!Read
<1>1. /\ todo # <<>> /\ Head(todo)[1] = "copy" /\ todo' = Tail(todo)
      /\ UNCHANGED <<flash, chip, request, gaveUp>>
      /\ value' = IF chip = None /\ remap = (request.on \subseteq Far)
                  THEN UNION {flash[s] : s \in request.on} ELSE Garbage
  BY DEF Copy, Step
<1>2. PICK m \in BOOLEAN : Reading(m)
  BY <1>1, PhaseNames DEF Phase, TimerNames
<1>3. AtCopy(m, todo) /\ (remap <=> m) /\ chip = None
  BY <1>1, <1>2, ReadPlaces DEF Reading
<1>4. PICK s \in Sectors : request = [op |-> "read", on |-> {s}] /\ (s \in Far <=> m)
  BY <1>2 DEF Reading
<1>5. value' = flash[s]
  <2>1. remap = (request.on \subseteq Far)
    BY <1>3, <1>4 DEF TypesInv
  <2>2. UNION {flash[u] : u \in {s}} = flash[s]
    OBVIOUS
  <2> QED
    BY <1>1, <1>3, <1>4, <2>1, <2>2
<1>6. ~ Done
  BY <1>3, ReadEffect DEF Done
<1>7. Done' = TRUE
  <2>1. AtReadExit(m, todo') /\ todo' \in Seq(SpifSteps)
    BY <1>1, <1>3, ReadPlaces
  <2>2. Effective(todo')
    BY <2>1, ReadEffect
  <2> QED
    BY <1>1, <1>3, <1>4, <2>2 DEF Done, None
<1> QED
  BY <1>1, <1>4, <1>5, <1>6, <1>7 DEF Device!Read, Done, Effective, Effects


LEMMA ChipDevice ==
  ASSUME TypesInv, TodoInv, Phase, ChipDone
  PROVE  Device!Program \/ Device!Erase
<1>1. chip # None /\ chip' = None /\ UNCHANGED <<todo, value, request, gaveUp>>
  BY DEF ChipDone
<1>2. PICK op \in {"program", "erase"} : Operating(op)
  BY <1>1 DEF Phase, Resting, Finishing, Configuring, Reading
<1>3. AtOpWait(op, todo) /\ chip.op = op /\ chip.on = request.on
  BY <1>1, <1>2 DEF Operating
<1>4. todo \in Seq(SpifSteps)
  <2>1. Head(todo)[1] = "wait"
    BY <1>3, OperationPlaces
  <2> QED
    BY <2>1, TimerName DEF TodoInv, TimerNames
<1>5. Done = FALSE /\ Done' = TRUE
  <2>1. Effective(todo) /\ request # None
    BY <1>2, <1>3, <1>4, OperationEffect DEF Operating, None
  <2> QED
    BY <1>1, <2>1 DEF Done
<1>6. CASE op = "program"
  <2>1. PICK s \in Sectors : request.on = {s}
    BY <1>2, <1>6 DEF Operating
  <2>2. PICK i \in Items :
          flash' = [u \in Sectors |-> flash[u] \cup (IF u \in chip.on THEN {i} ELSE {})]
    BY <1>3, <1>6 DEF ChipDone
  <2>3. flash' = [flash EXCEPT ![s] = @ \cup {i}]
    BY <1>3, <2>1, <2>2 DEF TypesInv
  <2>4. request.op = "write"
    BY <1>2, <1>6 DEF Operating
  <2> QED
    BY <1>1, <1>5, <2>1, <2>3, <2>4 DEF Device!Program, Done, Effective, Effects
<1>7. CASE op = "erase"
  <2>1. flash' = [u \in Sectors |-> IF u \in request.on THEN {} ELSE flash[u]]
    BY <1>3, <1>7 DEF ChipDone
  <2>2. request.op = "erase"
    BY <1>2, <1>7 DEF Operating
  <2> QED
    BY <1>1, <1>5, <2>1, <2>2 DEF Device!Erase, Done, Effective, Effects
<1> QED
  BY <1>6, <1>7

LEMMA BeginDevice ==
  ASSUME TypesInv, Phase, FlashRead \/ FlashWrite \/ FlashErase
  PROVE  Device!Begin
<1>1. todo = <<>> /\ UNCHANGED <<flash, chip, value, gaveUp>>
  BY DEF FlashRead, FlashWrite, FlashErase, Call
<1>2. request = None /\ ~ bypass
  BY <1>1, BetweenCalls DEF Resting
<1>3. request' \in Device!Requests /\ ~ Effective(todo')
  <2>1. CASE FlashRead
    <3>1. PICK s \in Sectors : /\ todo' = ReadSteps(s)
                               /\ request' = [op |-> "read", on |-> {s}]
      BY <2>1 DEF FlashRead, Call
    <3>2. PICK m \in BOOLEAN : m <=> s \in Far /\ initFlag
      OBVIOUS
    <3>3. AtReadLock(m, todo') /\ todo' \in Seq(SpifSteps)
      BY <1>2, <3>1, <3>2, ReadList, ReadListIn DEF TypesInv
    <3> QED
      BY <3>1, <3>3, ReadEffect DEF Device!Requests
  <2>2. CASE FlashWrite
    <3>1. AtOpLock("program", todo') /\ todo' \in Seq(SpifSteps)
      BY <2>2, WriteList DEF FlashWrite, Call
    <3>2. ~ Effective(todo')
      BY <3>1, OperationEffect
    <3> QED
      BY <2>2, <3>2 DEF FlashWrite, Device!Requests
  <2>3. CASE FlashErase
    <3>1. PICK on \in {{s} : s \in Sectors} \cup {Sectors} :
            todo' = EraseSteps /\ request' = [op |-> "erase", on |-> on]
      BY <2>3 DEF FlashErase, Call
    <3>2. AtOpLock("erase", todo') /\ todo' \in Seq(SpifSteps)
      BY <1>2, <3>1, EraseList DEF TypesInv
    <3>3. ~ Effective(todo')
      BY <3>2, OperationEffect
    <3>4. on \in (SUBSET Sectors) \ {{}}
      BY SpifAssumption
    <3> QED
      BY <3>1, <3>3, <3>4 DEF Device!Requests
  <2> QED
    BY <2>1, <2>2, <2>3
<1>4. Done' = FALSE
  BY <1>3 DEF Done
<1> QED
  BY <1>1, <1>2, <1>3, <1>4 DEF Device!Begin, Device!Idle, Done, Effective, Effects, None

LEMMA SpifDevice ==
  ASSUME TypesInv, TodoInv, Phase, ~ gaveUp, SpifStep
  PROVE  Device!Next \/ UNCHANGED Device!vars
<1>1. todo \in Seq(SpifSteps)
  BY SpifTodo
<1>2. CASE GiveUp
  BY <1>2 DEF GiveUp, Device!Next, Device!Fail
<1>3. CASE SpifLock \/ EnterBypass \/ TagFlush \/ (\E on \in BOOLEAN : Map(on)) \/ WaitNoBusy
  <2>1. /\ todo # <<>> /\ Head(todo)[1] \in {"lock", "enter", "flush", "map", "unmap", "wait"}
        /\ todo' = Tail(todo) /\ UNCHANGED <<flash, chip, request, value, gaveUp>>
    BY <1>3 DEF SpifLock, EnterBypass, TagFlush, Map, WaitNoBusy, Step, spifVars
  <2> QED
    BY <1>1, <2>1, Resumed
<1>4. CASE ExitBypass
  BY <1>1, <1>4, ExitDevice
<1>5. CASE SpifUnlock
  BY <1>1, <1>5, UnlockDevice DEF Device!Next
<1>6. CASE \E what \in {"program", "erase"} : Start(what)
  BY <1>1, <1>6, StartDevice
<1>7. CASE Copy
  BY <1>1, <1>7, CopyDevice DEF Device!Next
<1>8. CASE Inform
  <2>1. Head(todo)[1] = "inform"
    BY <1>8 DEF Inform, Step
  <2>2. /\ ~ Resting /\ ~ Finishing /\ \A m \in BOOLEAN : ~ Reading(m)
        /\ \A op \in {"program", "erase"} : ~ Operating(op)
    BY <1>1, <1>8, <2>1, PhaseNames DEF Inform, Step, TimerNames
  <2>3. request = None
    BY <2>2 DEF Phase, Configuring
  <2> QED
    BY <1>8, <2>3, Unasked DEF Inform, Ended
<1> QED
  BY <1>2, <1>3, <1>4, <1>5, <1>6, <1>7, <1>8 DEF SpifStep

LEMMA OthersDevice ==
  ASSUME TypesInv, TodoInv, Phase, UNCHANGED spifVars,
         \/ TimerSet \/ TimerStop \/ TimerMaskInt \/ TimersInit \/ TimersDeinit
         \/ WakeupHandler \/ ReadGates \/ \E t \in Timers : TimerStep(t)
  PROVE  UNCHANGED Device!vars
<1>1. request = None
  <2>1. CASE TimerSet \/ TimerStop \/ TimerMaskInt \/ TimersInit \/ TimersDeinit
    <3>1. todo = <<>>
      BY <2>1 DEF TimerSet, TimerStop, TimerMaskInt, TimersInit, TimersDeinit, Call
    <3> QED
      BY <3>1, BetweenCalls DEF Resting
  <2>2. CASE WakeupHandler \/ ReadGates \/ \E t \in Timers : TimerStep(t)
    <3>1. Head(todo)[1] \in TimerNames \cup {"wakeup"}
      <4>1. CASE WakeupHandler
        BY <4>1 DEF WakeupHandler, Step
      <4>2. CASE ReadGates \/ \E t \in Timers : TimerStep(t)
        BY <4>2, TimerStepGoesOn, TimerName
      <4> QED
        BY <2>2, <4>1, <4>2
    <3> QED
      BY <3>1, PhaseNames DEF Phase, TimerNames, Resting
  <2> QED
    BY <2>1, <2>2
<1> QED
  BY <1>1, Unasked DEF spifVars

LEMMA DeviceNext ==
  ASSUME IInv, [Next]_vars
  PROVE  [Device!Next]_(Device!vars)
<1> USE DEF IInv
<1>1. CASE gaveUp
  <2>1. gaveUp'
    BY <1>1 DEF Next, Calls, Work, FlashRead, FlashWrite, FlashErase, SpifStep, SpifLock, SpifUnlock,
                EnterBypass, ExitBypass, TagFlush, Map, WaitNoBusy, GiveUp, Start, Copy, Inform, Sleep,
                Interrupt, ChipDone, Fetch, vars, spifVars
  <2> QED
    BY <1>1, <2>1 DEF Device!Next, Device!Broken
<1>2. CASE ~ gaveUp
  <2>1. Phase
    BY <1>2 DEF FlashInv
  <2>2. CASE (FlashRead \/ FlashWrite \/ FlashErase) /\ UNCHANGED timerVars
    BY <1>2, <2>1, <2>2, BeginDevice DEF Device!Next
  <2>3. CASE /\ \/ TimerSet \/ TimerStop \/ TimerMaskInt \/ TimersInit \/ TimersDeinit
                \/ WakeupHandler \/ ReadGates \/ \E t \in Timers : TimerStep(t)
             /\ UNCHANGED spifVars
    <3>1. UNCHANGED Device!vars
      BY <2>1, <2>3, OthersDevice
    <3> QED
      BY <3>1
  <2>4. CASE SpifStep /\ UNCHANGED timerVars
    BY <1>2, <2>1, <2>4, SpifDevice
  <2>5. CASE Sleep
    <3>1. todo = <<>> /\ UNCHANGED <<flash, request, value, gaveUp>>
      BY <2>5 DEF Sleep, Call
    <3>2. request = None
      BY <2>1, <3>1, BetweenCalls DEF Resting
    <3> QED
      BY <3>1, <3>2, Unasked
  <2>6. CASE ChipDone /\ UNCHANGED timerVars
    BY <1>2, <2>1, <2>6, ChipDevice DEF Device!Next
  <2>7. CASE \/ \E t \in Timers : Interrupt(t)
             \/ \E t \in Timers : Expire(t) /\ UNCHANGED spifVars
             \/ \E s \in Sectors : Fetch(s) /\ UNCHANGED timerVars
             \/ UNCHANGED vars
    <3>1. UNCHANGED <<todo, chip, flash, request, value, gaveUp>>
      BY <2>7 DEF Interrupt, Callback, IrqIgnored, Expire, Fetch, vars, spifVars, processor
    <3> QED
      BY <3>1, Unobserved DEF Done
  <2> QED
    BY <2>2, <2>3, <2>4, <2>5, <2>6, <2>7 DEF Next, Calls, Work
<1> QED
  BY <1>1, <1>2

(* hal_flash_read, hal_flash_write and the erases implement FlashDevice:   *)
(* until a busy test has timed out, a call returns only when the chip has  *)
(* done what was asked, once, and a read returns what the chip holds,      *)
(* whatever the timers' interrupts and the sleeps do meanwhile.            *)
THEOREM FlashIsADevice == Spec => FlashSpec
<1>1. Init => Device!Init
  BY DEF Init, SpifInit, Device!Init, Device!Idle, None
<1>2. IInv /\ [Next]_vars => [Device!Next]_(Device!vars)
  BY DeviceNext
<1> QED
  BY <1>1, <1>2, Invariance, PTL DEF Spec, FlashSpec, Device!Spec
=============================================================================
