------------------------------ MODULE Fs_proofs ------------------------------
(***************************************************************************)
(* Proofs about the file system, for any zone of sectors, any size of item *)
(* and any files.                                                          *)
(***************************************************************************)
EXTENDS Fs, WellFoundedInduction, FiniteSetTheorems, TLAPS

-----------------------------------------------------------------------------
(* Induction: a set of natural numbers that is not empty has a least one.  *)

LEMMA NatIsWellFounded == IsWellFoundedOn({p \in Nat \X Nat : p[1] < p[2]}, Nat)
BY NatLessThanWellFounded DEF OpToRel

LEMMA Least ==
  ASSUME NEW T \in SUBSET Nat, T # {}
  PROVE  \E x \in T : \A y \in T : x <= y
<1> DEFINE R == {p \in Nat \X Nat : p[1] < p[2]}
<1>1. \E x \in T : \A y \in T : <<y, x>> \notin R
  <2> HIDE DEF R
  <2>1. IsWellFoundedOn(R, Nat)
    BY NatIsWellFounded DEF R
  <2> QED
    BY <2>1, WFMin
<1>2. PICK x \in T : \A y \in T : <<y, x>> \notin R
  BY <1>1
<1>3. \A y \in T : x <= y
  <2> SUFFICES ASSUME NEW y \in T, y < x PROVE FALSE
    BY <1>2
  <2>1. <<y, x>> \in R
    OBVIOUS
  <2> QED
    BY <1>2, <2>1
<1> QED
  BY <1>2, <1>3

LEMMA Induction ==
  ASSUME NEW S, 0 \in S, \A n \in Nat : n \in S => n + 1 \in S
  PROVE  Nat \subseteq S
<1> SUFFICES ASSUME Nat \ S # {} PROVE FALSE
  OBVIOUS
<1>1. PICK x \in Nat \ S : \A y \in Nat \ S : x <= y
  BY Least
<1> QED
  BY <1>1

-----------------------------------------------------------------------------
(* Programming flash.                                                      *)

AndBody(g, a, b) ==
  IF a = 0 \/ b = 0 THEN 0 ELSE ((a % 2) * (b % 2)) + 2 * g[<<a \div 2, b \div 2>>]

AndUpTo(n) == {g \in [Nat \X Nat -> Nat] : \A a \in 0 .. n, b \in Nat : g[<<a, b>>] = AndBody(g, a, b)}

LEMMA Halves == \A a \in Nat \ {0} : a \div 2 \in Nat /\ a \div 2 < a /\ a % 2 \in 0 .. 1
                                     /\ a = 2 * (a \div 2) + (a % 2)
<1> SUFFICES ASSUME NEW a \in Nat, a # 0
             PROVE  a \div 2 \in Nat /\ a \div 2 < a /\ a % 2 \in 0 .. 1 /\ a = 2 * (a \div 2) + (a % 2)
  OBVIOUS
<1>1. a \div 2 \in Nat /\ a % 2 \in 0 .. 1
  OBVIOUS
<1>2. a = 2 * (a \div 2) + (a % 2)
  OBVIOUS
<1>3. a \div 2 < a
  OBVIOUS
<1> QED
  BY <1>1, <1>2, <1>3

LEMMA AndExists == \A n \in Nat : AndUpTo(n) # {}
<1> DEFINE S == {n \in Nat : AndUpTo(n) # {}}
<1>1. 0 \in S
  <2> DEFINE g == [p \in Nat \X Nat |-> 0]
  <2>1. g \in [Nat \X Nat -> Nat]
    OBVIOUS
  <2>2. \A a \in 0 .. 0, b \in Nat : g[<<a, b>>] = AndBody(g, a, b)
    BY DEF AndBody
  <2> QED
    BY <2>1, <2>2 DEF AndUpTo
<1>2. ASSUME NEW n \in Nat, n \in S PROVE n + 1 \in S
  <2>1. PICK g \in AndUpTo(n) : TRUE
    BY <1>2
  <2> DEFINE h == [p \in Nat \X Nat |-> IF p[1] = n + 1 THEN AndBody(g, p[1], p[2]) ELSE g[<<p[1], p[2]>>]]
  <2>2. g \in [Nat \X Nat -> Nat]
    BY <2>1 DEF AndUpTo
  <2>3. \A a, b \in Nat : AndBody(g, a, b) \in Nat
    BY <2>2, Halves DEF AndBody
  <2>4. h \in [Nat \X Nat -> Nat]
    BY <2>2, <2>3
  <2>5. ASSUME NEW a \in 0 .. n + 1, NEW b \in Nat
        PROVE  h[<<a, b>>] = AndBody(h, a, b)
    <3>1. h[<<a, b>>] = AndBody(g, a, b)
      BY <2>1 DEF AndUpTo
    <3>2. a # 0 /\ b # 0 => h[<<a \div 2, b \div 2>>] = g[<<a \div 2, b \div 2>>]
      BY Halves
    <3> HIDE DEF h
    <3> QED
      BY <3>1, <3>2 DEF AndBody
  <2>6. h \in AndUpTo(n + 1)
    <3> HIDE DEF h
    <3> QED
      BY <2>4, <2>5 DEF AndUpTo
  <2> QED
    BY <2>6
<1> HIDE DEF S
<1>3. Nat \subseteq S
  BY <1>1, <1>2, Induction
<1> QED
  BY <1>3 DEF S

LEMMA AndUnique ==
  ASSUME NEW n \in Nat, NEW m \in Nat, n <= m, NEW g \in AndUpTo(n), NEW h \in AndUpTo(m)
  PROVE  \A a \in 0 .. n, b \in Nat : g[<<a, b>>] = h[<<a, b>>]
<1> DEFINE T == {a \in 0 .. n : \E b \in Nat : g[<<a, b>>] # h[<<a, b>>]}
<1> SUFFICES ASSUME T # {} PROVE FALSE
  OBVIOUS
<1>1. PICK a \in T : \A y \in T : a <= y
  <2>1. T \in SUBSET Nat
    OBVIOUS
  <2> HIDE DEF T
  <2> QED
    BY <2>1, Least
<1>2. PICK b \in Nat : g[<<a, b>>] # h[<<a, b>>]
  BY <1>1
<1>3. g[<<a, b>>] = AndBody(g, a, b) /\ h[<<a, b>>] = AndBody(h, a, b)
  BY <1>1 DEF AndUpTo
<1>4. a # 0 /\ b # 0 => g[<<a \div 2, b \div 2>>] = h[<<a \div 2, b \div 2>>]
  <2> SUFFICES ASSUME a # 0, b # 0 PROVE g[<<a \div 2, b \div 2>>] = h[<<a \div 2, b \div 2>>]
    OBVIOUS
  <2>1. a \div 2 \in 0 .. n /\ a \div 2 < a /\ b \div 2 \in Nat
    BY <1>1, Halves
  <2>2. a \div 2 \notin T
    BY <1>1, <2>1
  <2> QED
    BY <2>1, <2>2
<1> QED
  BY <1>2, <1>3, <1>4 DEF AndBody

LEMMA AndDef == \A a, b \in Nat : And[<<a, b>>] = AndBody(And, a, b)
<1> DEFINE f == [p \in Nat \X Nat |-> (CHOOSE g \in AndUpTo(p[1]) : TRUE)[p]]
<1>1. ASSUME NEW n \in Nat, NEW g \in AndUpTo(n), NEW a \in 0 .. n, NEW b \in Nat
      PROVE  f[<<a, b>>] = g[<<a, b>>]
  <2>1. PICK h \in AndUpTo(a) : h = CHOOSE x \in AndUpTo(a) : TRUE
    BY AndExists
  <2>2. f[<<a, b>>] = h[<<a, b>>]
    BY <2>1
  <2> QED
    BY <2>2, AndUnique
<1>2. ASSUME NEW a \in Nat, NEW b \in Nat
      PROVE  f[<<a, b>>] = AndBody(f, a, b)
  <2>1. PICK g \in AndUpTo(a) : TRUE
    BY AndExists
  <2>2. g[<<a, b>>] = AndBody(g, a, b)
    BY <2>1 DEF AndUpTo
  <2>4. f[<<a, b>>] = g[<<a, b>>]
    <3> HIDE DEF f
    <3> QED
      BY <1>1, <2>1
  <2> HIDE DEF f
  <2>3. a # 0 /\ b # 0 => f[<<a \div 2, b \div 2>>] = g[<<a \div 2, b \div 2>>]
    <3>1. a # 0 => a \div 2 \in 0 .. a
      BY Halves
    <3>2. b # 0 => b \div 2 \in Nat
      BY Halves
    <3> QED
      BY <1>1, <2>1, <3>1, <3>2
  <2> QED
    BY <2>2, <2>3, <2>4 DEF AndBody
<1>3. f = [p \in Nat \X Nat |->
             IF p[1] = 0 \/ p[2] = 0 THEN 0
             ELSE ((p[1] % 2) * (p[2] % 2)) + 2 * f[<<p[1] \div 2, p[2] \div 2>>]]
  <2>1. f = [p \in Nat \X Nat |-> f[p]]
    OBVIOUS
  <2>2. \A p \in Nat \X Nat : f[p] = AndBody(f, p[1], p[2])
    <3> HIDE DEF f
    <3> QED
      BY <1>2
  <2> HIDE DEF f
  <2> QED
    BY <2>1, <2>2 DEF AndBody
<1> HIDE DEF f
<1>4. And = [p \in Nat \X Nat |->
             IF p[1] = 0 \/ p[2] = 0 THEN 0
             ELSE ((p[1] % 2) * (p[2] % 2)) + 2 * And[<<p[1] \div 2, p[2] \div 2>>]]
  BY <1>3, Zenon DEF And
<1> QED
  BY <1>4 DEF AndBody


(* Bits are only cleared.                                                  *)
LEMMA AndBound == \A a, b \in Nat : And[<<a, b>>] \in 0 .. a
<1> DEFINE T == {a \in Nat : \E b \in Nat : And[<<a, b>>] \notin 0 .. a}
<1> SUFFICES ASSUME T # {} PROVE FALSE
  OBVIOUS
<1>1. PICK a \in T : \A y \in T : a <= y
  <2>1. T \in SUBSET Nat
    OBVIOUS
  <2> HIDE DEF T
  <2> QED
    BY <2>1, Least
<1>2. PICK b \in Nat : And[<<a, b>>] \notin 0 .. a
  BY <1>1
<1>3. And[<<a, b>>] = AndBody(And, a, b)
  BY <1>1, AndDef
<1>4. CASE a = 0 \/ b = 0
  <2>1. And[<<a, b>>] = 0
    BY <1>3, <1>4 DEF AndBody
  <2> QED
    BY <1>1, <1>2, <2>1
<1>5. CASE a # 0 /\ b # 0
  <2> DEFINE low == (a % 2) * (b % 2)
             high == And[<<a \div 2, b \div 2>>]
  <2>1. And[<<a, b>>] = low + 2 * high
    BY <1>3, <1>5 DEF AndBody
  <2>2. a \div 2 \in Nat /\ a \div 2 < a /\ b \div 2 \in Nat
    BY <1>1, <1>5, Halves
  <2>3. high \in 0 .. (a \div 2)
    <3>1. a \div 2 \notin T
      BY <1>1, <2>2
    <3> QED
      BY <2>2, <3>1
  <2>4. a % 2 \in 0 .. 1 /\ b % 2 \in 0 .. 1 /\ a = 2 * (a \div 2) + (a % 2)
    BY <1>1, <1>5, Halves
  <2>5. low \in 0 .. (a % 2)
    <3>1. a % 2 = 0 \/ a % 2 = 1
      BY <2>4
    <3>2. b % 2 = 0 \/ b % 2 = 1
      BY <2>4
    <3> QED
      BY <3>1, <3>2
  <2> HIDE DEF low, high
  <2>6. low + 2 * high \in 0 .. a
    BY <2>2, <2>3, <2>4, <2>5
  <2> QED
    BY <1>2, <2>1, <2>6
<1> QED
  BY <1>4, <1>5

(* What is programmed over erased bits is what is read back.               *)
LEMMA AndStep ==
  ASSUME NEW n \in Nat, NEW m \in Nat, m = n + n + 1, \A b \in Nat : b <= n => And[<<n, b>>] = b
  PROVE  \A b \in Nat : b <= m => And[<<m, b>>] = b
<1> SUFFICES ASSUME NEW b \in Nat, b <= m PROVE And[<<m, b>>] = b
  OBVIOUS
<1>1. And[<<m, b>>] = AndBody(And, m, b)
  BY AndDef
<1>2. CASE b = 0
  BY <1>1, <1>2 DEF AndBody
<1>3. CASE b # 0
  <2>1. And[<<m, b>>] = ((m % 2) * (b % 2)) + 2 * And[<<m \div 2, b \div 2>>]
    BY <1>1, <1>3 DEF AndBody
  <2>2. m % 2 = 1 /\ m \div 2 = n
    OBVIOUS
  <2>3. b \div 2 \in Nat /\ b % 2 \in 0 .. 1 /\ b = 2 * (b \div 2) + (b % 2)
    BY <1>3, Halves
  <2>4. b \div 2 <= n
    BY <2>3
  <2>5. And[<<m \div 2, b \div 2>>] = b \div 2
    BY <2>2, <2>3, <2>4
  <2>6. (m % 2) * (b % 2) = b % 2
    BY <2>2, <2>3
  <2> HIDE <1>1
  <2> QED
    BY <2>1, <2>3, <2>5, <2>6
<1> QED
  BY <1>2, <1>3

Ones(n) == \A b \in Nat : b <= n => And[<<n, b>>] = b

LEMMA OnesStep == \A n, m \in Nat : m = n + n + 1 /\ Ones(n) => Ones(m)
BY AndStep DEF Ones

LEMMA AndOnes == Ones(3) /\ Ones(Erased) /\ Ones(LenMax) /\ Ones(IdMax)
<1>0. Ones(0)
  <2> SUFFICES ASSUME NEW b \in Nat, b <= 0 PROVE And[<<0, b>>] = b
    BY DEF Ones
  <2> QED
    BY AndDef DEF AndBody
<1>1. Ones(1)
  BY <1>0, OnesStep
<1>2. Ones(3)
  BY <1>1, OnesStep
<1>3. Ones(7)
  BY <1>2, OnesStep
<1>4. Ones(15)
  BY <1>3, OnesStep
<1>5. Ones(31)
  BY <1>4, OnesStep
<1>6. Ones(63)
  BY <1>5, OnesStep
<1>7. Ones(127)
  BY <1>6, OnesStep
<1>8. Ones(255)
  BY <1>7, OnesStep
<1>9. Ones(511)
  BY <1>8, OnesStep
<1>10. Ones(1023)
  BY <1>9, OnesStep
<1>11. Ones(2047)
  BY <1>10, OnesStep
<1>12. Ones(4095)
  BY <1>11, OnesStep
<1>13. Ones(8191)
  BY <1>12, OnesStep
<1>14. Ones(16383)
  BY <1>13, OnesStep
<1>15. Ones(32767)
  BY <1>14, OnesStep
<1>16. Ones(65535)
  BY <1>15, OnesStep
<1> QED
  BY <1>2, <1>8, <1>12, <1>16 DEF Erased, LenMax, IdMax


-----------------------------------------------------------------------------
(* A search that goes from p to next[p] until it meets an item of U, or    *)
(* the end of the zone: what it reads, as a recursive function.            *)

ChainBody(f, C, next, U, p) == IF p > C THEN {} ELSE IF p \in U THEN {p} ELSE {p} \cup f[next[p]]

IsChain(f, C, next, U) == f = [p \in Nat |-> ChainBody(f, C, next, U, p)]

LEMMA ChainExists ==
  ASSUME NEW C \in Nat, NEW next \in [Nat -> Nat], \A p \in Nat : next[p] > p, NEW U
  PROVE  \E f : IsChain(f, C, next, U)
<1> DEFINE Right(k) == {f \in [Nat -> SUBSET Nat] :
                          \A p \in Nat : p + k > C => f[p] = ChainBody(f, C, next, U, p)}
           S == {k \in Nat : Right(k) # {}}
<1>1. 0 \in S
  <2> DEFINE f == [p \in Nat |-> {}]
  <2>1. f \in Right(0)
    BY DEF ChainBody
  <2> QED
    BY <2>1
<1>2. ASSUME NEW k \in Nat, k \in S PROVE k + 1 \in S
  <2>1. PICK f \in Right(k) : TRUE
    BY <1>2
  <2>2. f \in [Nat -> SUBSET Nat] /\ \A p \in Nat : p + k > C => f[p] = ChainBody(f, C, next, U, p)
    BY <2>1
  <2> DEFINE g == [p \in Nat |-> IF p + k = C THEN ChainBody(f, C, next, U, p) ELSE f[p]]
  <2>3. \A p \in Nat : ChainBody(f, C, next, U, p) \in SUBSET Nat
    BY <2>2 DEF ChainBody
  <2>4. g \in [Nat -> SUBSET Nat]
    BY <2>2, <2>3
  <2>5. ASSUME NEW p \in Nat, p + (k + 1) > C PROVE g[p] = ChainBody(g, C, next, U, p)
    <3>1. g[next[p]] = f[next[p]]
      BY <2>5
    <3>2. g[p] = ChainBody(f, C, next, U, p)
      BY <2>2, <2>5
    <3> HIDE DEF g
    <3> QED
      BY <3>1, <3>2 DEF ChainBody
  <2>6. g \in Right(k + 1)
    <3> HIDE DEF g
    <3> QED
      BY <2>4, <2>5
  <2> HIDE DEF g, Right
  <2> QED
    BY <2>6
<1>3. C + 1 \in S
  <2> HIDE DEF S
  <2>1. Nat \subseteq S
    BY <1>1, <1>2, Induction
  <2> QED
    BY <2>1
<1>4. PICK f \in Right(C + 1) : TRUE
  BY <1>3
<1>5. f \in [Nat -> SUBSET Nat] /\ \A p \in Nat : f[p] = ChainBody(f, C, next, U, p)
  BY <1>4
<1>6. f = [p \in Nat |-> ChainBody(f, C, next, U, p)]
  BY <1>5
<1> QED
  BY <1>6 DEF IsChain

LEMMA ChainCases ==
  ASSUME NEW C \in Nat, NEW next, NEW U, NEW f, IsChain(f, C, next, U)
  PROVE  \A p \in Nat : /\ p > C => f[p] = {}
                        /\ p <= C /\ p \in U => f[p] = {p}
                        /\ p <= C /\ p \notin U => f[p] = {p} \cup f[next[p]]
<1> TAKE p \in Nat
<1>1. f[p] = ChainBody(f, C, next, U, p)
  BY DEF IsChain
<1>2. CASE p > C
  BY <1>1, <1>2 DEF ChainBody
<1>3. CASE p <= C
  <2>1. ~ (p > C)
    BY <1>3
  <2> QED
    BY <1>1, <2>1 DEF ChainBody
<1> QED
  BY <1>2, <1>3

(* It reads items from where it begins to the end of the zone.             *)
LEMMA ChainRange ==
  ASSUME NEW C \in Nat, NEW next \in [Nat -> Nat], \A p \in Nat : next[p] > p, NEW U,
         NEW f, IsChain(f, C, next, U)
  PROVE  \A p \in Nat : f[p] \subseteq p .. C /\ (p <= C => p \in f[p])
<1>1. \A p \in Nat : /\ p > C => f[p] = {}
                     /\ p <= C /\ p \in U => f[p] = {p}
                     /\ p <= C /\ p \notin U => f[p] = {p} \cup f[next[p]]
  BY ChainCases
<1> DEFINE T == {k \in Nat : \E p \in Nat : p + k = C /\ ~ f[p] \subseteq p .. C}
<1>2. T = {}
  <2> SUFFICES ASSUME T # {} PROVE FALSE
    OBVIOUS
  <2>1. PICK k \in T : \A j \in T : k <= j
    <3>1. T \in SUBSET Nat
      OBVIOUS
    <3> HIDE DEF T
    <3> QED
      BY <3>1, Least
  <2>2. PICK p \in Nat : p + k = C /\ ~ f[p] \subseteq p .. C
    BY <2>1
  <2>3. next[p] \in Nat /\ next[p] > p
    OBVIOUS
  <2>4. f[next[p]] \subseteq next[p] .. C
    <3>1. CASE next[p] > C
      BY <1>1, <2>3, <3>1
    <3>2. CASE next[p] <= C
      <4>1. C - next[p] \in Nat /\ C - next[p] < k /\ next[p] + (C - next[p]) = C
        BY <2>1, <2>2, <2>3, <3>2
      <4>2. C - next[p] \notin T
        BY <2>1, <4>1
      <4> QED
        BY <2>3, <4>1, <4>2
    <3> QED
      BY <2>3, <3>1, <3>2
  <2>5. f[p] \subseteq {p} \cup f[next[p]]
    BY <1>1
  <2>6. p \in p .. C /\ next[p] .. C \subseteq p .. C
    BY <2>1, <2>2, <2>3
  <2> QED
    BY <2>2, <2>4, <2>5, <2>6
<1> TAKE p \in Nat
<1>3. CASE p > C
  BY <1>1, <1>3
<1>4. CASE p <= C
  <2>1. C - p \notin T
    BY <1>2
  <2>2. C - p \in Nat /\ p + (C - p) = C
    BY <1>4
  <2>3. f[p] \subseteq p .. C
    BY <2>1, <2>2
  <2>4. p \in f[p]
    <3>1. p \in U \/ p \notin U
      OBVIOUS
    <3> QED
      BY <1>1, <1>4, <3>1
  <2> QED
    BY <2>3, <2>4
<1> QED
  BY <1>3, <1>4

(* It goes on from every item it reads.                                    *)
LEMMA ChainClosed ==
  ASSUME NEW C \in Nat, NEW next \in [Nat -> Nat], \A p \in Nat : next[p] > p, NEW U,
         NEW f, IsChain(f, C, next, U)
  PROVE  \A p \in Nat : \A q \in f[p] : q \notin U => f[next[q]] \subseteq f[p]
<1>1. \A p \in Nat : /\ p > C => f[p] = {}
                     /\ p <= C /\ p \in U => f[p] = {p}
                     /\ p <= C /\ p \notin U => f[p] = {p} \cup f[next[p]]
  BY ChainCases
<1> DEFINE Open(p) == \E q \in f[p] : q \notin U /\ ~ f[next[q]] \subseteq f[p]
           T == {k \in Nat : \E p \in Nat : p + k = C /\ Open(p)}
<1>2. T = {}
  <2> SUFFICES ASSUME T # {} PROVE FALSE
    OBVIOUS
  <2>1. PICK k \in T : \A j \in T : k <= j
    <3>1. T \in SUBSET Nat
      OBVIOUS
    <3> HIDE DEF T
    <3> QED
      BY <3>1, Least
  <2>2. PICK p \in Nat : p + k = C /\ Open(p)
    BY <2>1
  <2>3. next[p] \in Nat /\ next[p] > p
    OBVIOUS
  <2>4. PICK q \in f[p] : q \notin U /\ ~ f[next[q]] \subseteq f[p]
    BY <2>2
  <2>5. p <= C
    BY <2>1, <2>2
  <2>6. CASE p \in U
    <3>1. f[p] = {p}
      BY <1>1, <2>5, <2>6
    <3> QED
      BY <2>4, <2>6, <3>1
  <2>7. CASE p \notin U
    <3>1. f[p] = {p} \cup f[next[p]]
      BY <1>1, <2>5, <2>7
    <3>2. q \in f[next[p]]
      BY <2>4, <3>1
    <3>3. next[p] <= C
      <4>1. next[p] > C => f[next[p]] = {}
        BY <1>1, <2>3
      <4> QED
        BY <2>3, <3>2, <4>1
    <3>4. C - next[p] \in Nat /\ C - next[p] < k /\ next[p] + (C - next[p]) = C
      BY <2>1, <2>2, <2>3, <3>3
    <3>5. ~ Open(next[p])
      <4>1. C - next[p] \notin T
        <5>1. k \in Nat
          BY <2>1
        <5> HIDE DEF T
        <5> QED
          BY <2>1, <3>4, <5>1
      <4> HIDE DEF Open
      <4> QED
        BY <2>3, <3>4, <4>1
    <3>6. f[next[q]] \subseteq f[next[p]]
      BY <2>4, <3>2, <3>5
    <3> QED
      BY <2>4, <3>1, <3>6
  <2> QED
    BY <2>6, <2>7
<1> SUFFICES ASSUME NEW p \in Nat, Open(p) PROVE FALSE
  OBVIOUS
<1>3. p <= C
  <2>1. p > C => f[p] = {}
    BY <1>1
  <2> QED
    BY <2>1
<1>4. C - p \in Nat /\ p + (C - p) = C
  BY <1>3
<1> HIDE DEF Open
<1> QED
  BY <1>2, <1>4

(* And it reads nothing else.                                              *)
LEMMA ChainLeast ==
  ASSUME NEW C \in Nat, NEW next \in [Nat -> Nat], \A p \in Nat : next[p] > p, NEW U,
         NEW f, IsChain(f, C, next, U),
         NEW S, \A q \in S \cap Nat : q <= C /\ q \notin U => next[q] \in S
  PROVE  \A p \in S \cap Nat : f[p] \subseteq S
<1>1. \A p \in Nat : /\ p > C => f[p] = {}
                     /\ p <= C /\ p \in U => f[p] = {p}
                     /\ p <= C /\ p \notin U => f[p] = {p} \cup f[next[p]]
  BY ChainCases
<1> DEFINE T == {k \in Nat : \E p \in S \cap Nat : p + k = C /\ ~ f[p] \subseteq S}
<1>2. T = {}
  <2> SUFFICES ASSUME T # {} PROVE FALSE
    OBVIOUS
  <2>1. PICK k \in T : \A j \in T : k <= j
    <3>1. T \in SUBSET Nat
      OBVIOUS
    <3> HIDE DEF T
    <3> QED
      BY <3>1, Least
  <2>2. PICK p \in S \cap Nat : p + k = C /\ ~ f[p] \subseteq S
    BY <2>1
  <2>3. p <= C
    BY <2>1, <2>2
  <2>4. CASE p \in U
    <3>1. f[p] = {p}
      BY <1>1, <2>3, <2>4
    <3> QED
      BY <2>2, <3>1
  <2>5. CASE p \notin U
    <3>1. f[p] = {p} \cup f[next[p]]
      BY <1>1, <2>3, <2>5
    <3>2. next[p] \in S \cap Nat /\ next[p] > p
      BY <2>3, <2>5
    <3>3. f[next[p]] \subseteq S
      <4>1. CASE next[p] > C
        BY <1>1, <3>2, <4>1
      <4>2. CASE next[p] <= C
        <5>1. C - next[p] \in Nat /\ C - next[p] < k /\ next[p] + (C - next[p]) = C
          BY <2>1, <2>2, <3>2, <4>2
        <5>2. C - next[p] \notin T
          BY <2>1, <5>1
        <5> QED
          BY <3>2, <5>1, <5>2
      <4> QED
        BY <3>2, <4>1, <4>2
    <3> QED
      BY <2>2, <3>1, <3>3
  <2> QED
    BY <2>4, <2>5
<1> TAKE p \in S \cap Nat
<1>3. CASE p > C
  BY <1>1, <1>3
<1>4. CASE p <= C
  <2>1. C - p \in Nat /\ p + (C - p) = C
    BY <1>4
  <2> QED
    BY <1>2, <2>1
<1> QED
  BY <1>3, <1>4

-----------------------------------------------------------------------------
(* The ring of sectors, and the items of the zone in the order of the      *)
(* search: item p stands in row (p - 1) \div Items, column (p - 1) % Items.*)

LEMMA Distribute ==
  \A n, a, b \in Int : n * (a + b) = n * a + n * b /\ n * (a - b) = n * a - n * b /\ n * a \in Int
OBVIOUS

LEMMA ModDiv ==
  \A a \in Int, b \in Nat \ {0} :
    a % b \in 0 .. b - 1 /\ a \div b \in Int /\ a = b * (a \div b) + (a % b)
OBVIOUS

LEMMA ModUnique ==
  ASSUME NEW a \in Int, NEW b \in Nat \ {0}, NEW q \in Int, NEW r \in 0 .. b - 1, a = b * q + r
  PROVE  a \div b = q /\ a % b = r
OBVIOUS

LEMMA Sizes ==
  /\ SectorNum \in Nat \ {0} /\ SectorNum >= 3 /\ SectorNum <= 78
  /\ Items \in Nat \ {0} /\ Items >= 2
  /\ DataLen \in Nat \ {0}
BY FsAssumption

LEMMA SectorPart ==
  \A x \in Int : Sector(x) \in Int /\ \E q \in Int : x = SectorNum * q + Sector(x)
<1> TAKE x \in Int
<1>1. /\ x % SectorNum \in 0 .. SectorNum - 1 /\ x \div SectorNum \in Int
      /\ x = SectorNum * (x \div SectorNum) + (x % SectorNum)
  BY Sizes, ModDiv
<1>2. Sector(x) = x % SectorNum
  BY DEF Sector
<1>3. Sector(x) \in Int
  BY <1>1, <1>2, Sizes
<1> QED
  BY <1>1, <1>2, <1>3

LEMMA SectorIn == \A x \in Int : Sector(x) \in Sectors
BY Sizes, ModDiv DEF Sector, Sectors

LEMMA SectorIs == \A s \in Sectors : Sector(s) = s
BY Sizes, ModUnique DEF Sector, Sectors

LEMMA SectorTurn == \A x, k \in Int : Sector(x + k * SectorNum) = Sector(x)
<1> TAKE x, k \in Int
<1> DEFINE q == x \div SectorNum
<1>1. SectorNum \in Nat \ {0}
  BY Sizes
<1>2. q \in Int /\ x % SectorNum \in 0 .. SectorNum - 1 /\ x = SectorNum * q + (x % SectorNum)
  BY <1>1, ModDiv
<1>3. x + k * SectorNum = SectorNum * (q + k) + (x % SectorNum)
  BY <1>1, <1>2
<1> HIDE DEF q
<1>4. x + k * SectorNum \in Int /\ q + k \in Int
  BY <1>1, <1>2
<1> QED
  BY <1>1, <1>2, <1>3, <1>4, ModUnique DEF Sector

LEMMA SectorAdd == \A x, y \in Int : Sector(Sector(x) + y) = Sector(x + y)
<1> TAKE x, y \in Int
<1>1. SectorNum \in Nat \ {0}
  BY Sizes
<1>2. PICK q \in Int : x = SectorNum * q + Sector(x) /\ Sector(x) \in Int
  BY SectorPart
<1>3. x + y = (Sector(x) + y) + q * SectorNum
  <2>1. SectorNum * q = q * SectorNum /\ q * SectorNum \in Int
    BY <1>1, <1>2
  <2> QED
    BY <1>2, <2>1
<1> QED
  BY <1>2, <1>3, SectorTurn

LEMMA SectorInjective ==
  \A x, y \in Int : x <= y /\ y < x + SectorNum /\ Sector(x) = Sector(y) => x = y
<1> SUFFICES ASSUME NEW x \in Int, NEW y \in Int, x <= y, y < x + SectorNum, Sector(x) = Sector(y)
             PROVE  x = y
  OBVIOUS
<1>1. SectorNum \in Nat \ {0}
  BY Sizes
<1>2. PICK q \in Int : x = SectorNum * q + Sector(x) /\ Sector(x) \in Int
  BY SectorPart
<1>3. PICK r \in Int : y = SectorNum * r + Sector(y)
  BY SectorPart
<1>4. y - x = SectorNum * (r - q)
  BY <1>1, <1>2, <1>3
<1>5. y - x >= 0 /\ y - x < SectorNum
  BY <1>1
<1>7. r = q
  <2> DEFINE d == r - q
  <2>1. d \in Int /\ y - x = SectorNum * d
    BY <1>2, <1>3, <1>4
  <2> HIDE DEF d
  <2>2. SectorNum * d >= 0 /\ SectorNum * d < SectorNum
    BY <1>5, <2>1
  <2>3. ~ d >= 1 /\ ~ d <= -1
    BY <1>1, <2>1, <2>2
  <2>4. d = 0
    BY <2>1, <2>3
  <2> QED
    BY <1>2, <1>3, <2>4 DEF d
<1> QED
  BY <1>2, <1>3, <1>7

Row(p) == (p - 1) \div Items
Column(p) == ((p - 1) % Items) + 1

LEMMA RowColumn ==
  \A p \in Int : Row(p) \in Int /\ Column(p) \in 1 .. Items /\ p = Items * Row(p) + Column(p)
<1> TAKE p \in Int
<1>1. Items \in Nat \ {0} /\ p - 1 \in Int
  BY Sizes
<1>2. /\ (p - 1) % Items \in 0 .. Items - 1 /\ (p - 1) \div Items \in Int
      /\ p - 1 = Items * ((p - 1) \div Items) + ((p - 1) % Items)
  BY <1>1, ModDiv
<1> QED
  BY <1>1, <1>2 DEF Row, Column

LEMMA RowColumnIs ==
  ASSUME NEW p \in Int, NEW m \in Int, NEW c \in 1 .. Items, p = Items * m + c
  PROVE  Row(p) = m /\ Column(p) = c
<1>1. Items \in Nat \ {0} /\ p - 1 \in Int /\ c - 1 \in 0 .. Items - 1 /\ p - 1 = Items * m + (c - 1)
  BY Sizes
<1>2. (p - 1) \div Items = m /\ (p - 1) % Items = c - 1
  BY <1>1, ModUnique
<1> QED
  BY <1>1, <1>2 DEF Row, Column

LEMMA RowBound ==
  \A p \in 1 .. Capacity : Row(p) \in 0 .. SectorNum - 2
<1> TAKE p \in 1 .. Capacity
<1>1. Items \in Nat /\ Items > 0 /\ SectorNum \in Nat /\ p \in Int
  BY Sizes DEF Capacity
<1>2. Row(p) \in Int /\ Column(p) \in 1 .. Items /\ p = Items * Row(p) + Column(p)
  BY <1>1, RowColumn
<1>3. p <= Items * (SectorNum - 1) /\ p >= 1
  BY <1>1 DEF Capacity
<1>4. Row(p) > -1
  BY <1>1, <1>2, <1>3
<1>5. Row(p) < SectorNum - 1
  BY <1>1, <1>2, <1>3
<1> QED
  BY <1>1, <1>2, <1>4, <1>5

LEMMA FramesOf == \A len \in Nat : Frames(len) \in Nat /\ (len > 0 => Frames(len) >= 1)
<1> TAKE len \in Nat
<1>1. DataLen \in Nat \ {0}
  BY Sizes
<1>2. len % DataLen \in 0 .. DataLen - 1 /\ len \div DataLen \in Int
      /\ len = DataLen * (len \div DataLen) + (len % DataLen)
  BY <1>1, ModDiv
<1>3. len \div DataLen >= 0
  BY <1>1
<1>4. len % DataLen = 0 /\ len > 0 => len \div DataLen # 0
  BY <1>1, <1>2
<1> QED
  BY <1>1, <1>2, <1>3, <1>4 DEF Frames

-----------------------------------------------------------------------------
(* The search.                                                             *)

Zoned == item \in [Addresses -> Item] /\ ex \in Sectors

LEMMA Fields ==
  /\ Erased \in Nat /\ IdMax \in Nat /\ LenMax \in Nat
  /\ \A i1 \in Item : i1.pro \in Nat /\ i1.frame \in Nat /\ i1.id \in Nat /\ i1.len \in Nat
<1>1. Erased \in Nat /\ IdMax \in Nat /\ LenMax \in Nat
  BY DEF Erased, IdMax, LenMax
<1> QED
  BY <1>1 DEF Item

LEMMA AddrIn == ex \in Sectors => \A p \in Nat : Addr(p) \in Addresses
<1> SUFFICES ASSUME ex \in Sectors, NEW p \in Nat PROVE Addr(p) \in Addresses
  OBVIOUS
<1>1. Row(p) \in Int /\ Column(p) \in 1 .. Items
  BY RowColumn
<1>2. Addr(p) = <<Sector(ex + 1 + Row(p)), Column(p)>>
  BY DEF Addr, Row, Column
<1>3. ex + 1 + Row(p) \in Int
  BY <1>1, Sizes DEF Sectors
<1> QED
  BY <1>1, <1>2, <1>3, SectorIn DEF Addresses

LEMMA SkipUp == Zoned => \A p \in Nat : Skip(p) \in Nat /\ Skip(p) > p
<1> SUFFICES ASSUME Zoned, NEW p \in Nat PROVE Skip(p) \in Nat /\ Skip(p) > p
  OBVIOUS
<1> DEFINE i1 == item[Addr(p)]
           frames == IF i1.frame = MF_F /\ i1.len > 0 THEN Frames(i1.len) ELSE 1
           room == Items - ((p - 1) % Items)
           over == IF room = 1 THEN frames ELSE frames - room
<1>1. i1 \in Item
  BY AddrIn DEF Zoned
<1>2. i1.len \in Nat
  BY <1>1, Fields DEF Item
<1>3. frames \in Nat /\ frames >= 1
  BY <1>2, FramesOf
<1>4. Items \in Nat
  BY Sizes
<1>5. Skip(p) = IF frames < room \/ over < Items THEN p + frames
                ELSE IF frames > Items THEN p + frames - Items ELSE p + 1
  BY DEF Skip
<1> HIDE DEF frames, over, room
<1> QED
  BY <1>3, <1>4, <1>5

LEMMA VisitedChain ==
  ASSUME Zoned
  PROVE  \E f : /\ IsChain(f, Capacity, [p \in Nat |-> Skip(p)], {p \in Nat : item[Addr(p)].pro = UNUSED})
                /\ Visited = f[1]
<1> DEFINE next == [p \in Nat |-> Skip(p)]
           U == {p \in Nat : item[Addr(p)].pro = UNUSED}
           B(f) == [p \in Nat |-> IF p > Capacity THEN {}
                                  ELSE IF item[Addr(p)].pro = UNUSED THEN {p}
                                  ELSE {p} \cup f[Skip(p)]]
<1>1. next \in [Nat -> Nat] /\ \A p \in Nat : next[p] > p
  BY SkipUp
<1>2. Capacity \in Nat
  BY Sizes DEF Capacity
<1>3. \E f : IsChain(f, Capacity, next, U)
  <2> HIDE DEF next, U
  <2> QED
    BY <1>1, <1>2, ChainExists
<1>4. ASSUME NEW f PROVE IsChain(f, Capacity, next, U) <=> f = B(f)
  <2>1. ASSUME NEW p \in Nat
        PROVE ChainBody(f, Capacity, next, U, p) = B(f)[p]
    BY <2>1 DEF ChainBody
  <2>2. [p \in Nat |-> ChainBody(f, Capacity, next, U, p)] = B(f)
    <3> HIDE DEF next, U
    <3> QED
      BY <2>1
  <2> HIDE DEF next, U, B
  <2> QED
    BY <2>2 DEF IsChain
<1>5. \E f : f = B(f)
  <2> HIDE DEF B, next, U
  <2> QED
    BY <1>3, <1>4
<1>6. \E f : f = B(f) /\ Visited = f[1]
  BY <1>5, Zenon DEF Visited
<1> HIDE DEF B
<1> QED
  BY <1>4, <1>6

(* What the search reads: from the first item on, as far as it leads.      *)
LEMMA VisitedRange ==
  Zoned => 1 \in Visited /\ Visited \subseteq 1 .. Capacity
<1> SUFFICES ASSUME Zoned PROVE 1 \in Visited /\ Visited \subseteq 1 .. Capacity
  OBVIOUS
<1> DEFINE next == [p \in Nat |-> Skip(p)]
           U == {p \in Nat : item[Addr(p)].pro = UNUSED}
<1>1. next \in [Nat -> Nat] /\ \A p \in Nat : next[p] > p
  BY SkipUp
<1>2. Capacity \in Nat /\ 1 <= Capacity
  BY Sizes DEF Capacity
<1>3. PICK f : IsChain(f, Capacity, next, U) /\ Visited = f[1]
  BY VisitedChain
<1> HIDE DEF next, U
<1> QED
  BY <1>1, <1>2, <1>3, ChainRange

LEMMA VisitedClosed ==
  Zoned => \A p \in Visited : item[Addr(p)].pro # UNUSED /\ Skip(p) <= Capacity => Skip(p) \in Visited
<1> SUFFICES ASSUME Zoned, NEW p \in Visited, item[Addr(p)].pro # UNUSED, Skip(p) <= Capacity
             PROVE  Skip(p) \in Visited
  OBVIOUS
<1> DEFINE next == [q \in Nat |-> Skip(q)]
           U == {q \in Nat : item[Addr(q)].pro = UNUSED}
<1>1. next \in [Nat -> Nat] /\ \A q \in Nat : next[q] > q
  BY SkipUp
<1>2. Capacity \in Nat /\ p \in Nat
  BY Sizes, VisitedRange DEF Capacity
<1>3. PICK f : IsChain(f, Capacity, next, U) /\ Visited = f[1]
  BY VisitedChain
<1>4. next[p] = Skip(p) /\ p \notin U
  BY <1>2
<1> HIDE DEF next, U
<1>5. f[next[p]] \subseteq f[1]
  BY <1>1, <1>2, <1>3, <1>4, ChainClosed
<1>6. next[p] \in f[next[p]]
  BY <1>1, <1>2, <1>3, <1>4, ChainRange
<1> QED
  BY <1>3, <1>4, <1>5, <1>6

LEMMA VisitedLeast ==
  ASSUME Zoned, NEW S, 1 \in S,
         \A p \in S \cap Nat : p <= Capacity /\ item[Addr(p)].pro # UNUSED => Skip(p) \in S
  PROVE  Visited \subseteq S
<1> DEFINE next == [q \in Nat |-> Skip(q)]
           U == {q \in Nat : item[Addr(q)].pro = UNUSED}
<1>1. next \in [Nat -> Nat] /\ \A q \in Nat : next[q] > q
  BY SkipUp
<1>2. Capacity \in Nat
  BY Sizes DEF Capacity
<1>3. PICK f : IsChain(f, Capacity, next, U) /\ Visited = f[1]
  BY VisitedChain
<1>4. \A q \in S \cap Nat : q <= Capacity /\ q \notin U => next[q] \in S
  OBVIOUS
<1> HIDE DEF next, U
<1>5. \A q \in S \cap Nat : f[q] \subseteq S
  BY <1>1, <1>2, <1>3, <1>4, ChainLeast
<1> QED
  BY <1>3, <1>5

-----------------------------------------------------------------------------
(* Type correctness.  A call that marks has a frame to mark, one that puts *)
(* has a frame of one of the files to put: otherwise what is programmed    *)
(* would be no item.                                                       *)

FileCalled == \E f \in Files : call.id = f.id /\ call.len = f.len /\ call.val = f.val
CallInv ==
  /\ call.op = "write" => FileCalled
  /\ call.phase = "put" => call.op = "write" /\ call.k \in 1 .. Frames(call.len)
  /\ call.phase = "mark" => call.op \in {"write", "delete"} /\ call.k >= 1

TypeInv == TypeOK /\ CallInv

LEMMA FrameTyped == TypeInv /\ call.phase = "put" => Frame(call.k) \in Item
<1> SUFFICES ASSUME TypeInv, call.phase = "put" PROVE Frame(call.k) \in Item
  OBVIOUS
<1>1. PICK f \in Files : call.id = f.id /\ call.len = f.len /\ call.val = f.val
  BY DEF TypeInv, CallInv, FileCalled
<1>2. /\ f.id \in 1 .. IdMax - 1 /\ f.len \in 1 .. LenMax /\ f.val \in Nat
      /\ Frames(f.len) < 2 * Items
  BY FsAssumption
<1>3. call.k \in 1 .. Frames(f.len)
  BY <1>1 DEF TypeInv, CallInv
<1>4. call.k \in 1 .. 2 * Items
  <2>1. f.len \in Nat
    BY <1>2, Fields
  <2>2. Frames(f.len) \in Nat
    BY <2>1, FramesOf
  <2> QED
    BY <1>2, <1>3, <2>2, Sizes
<1>5. <<call.val, call.k>> \in Data
  BY <1>1, <1>4 DEF Data
<1>6. FrameKind(call.k) \in 0 .. 3
  BY DEF FrameKind, SF, MF_F, MF_C, MF_E
<1>7. call.id \in 0 .. IdMax /\ call.len \in 0 .. LenMax
  BY <1>1, <1>2, Fields
<1> QED
  BY <1>5, <1>6, <1>7 DEF Frame, Item, USED

LEMMA ProgramHeadTyped == \A old, new \in Item : ProgramHead(old, new) \in Item
<1> TAKE old, new \in Item
<1>1. /\ old.pro \in 0 .. 3 /\ old.frame \in 0 .. 3 /\ old.id \in 0 .. IdMax
      /\ old.len \in 0 .. LenMax /\ old.data \in Data
  BY DEF Item
<1>2. /\ And[<<old.pro, new.pro>>] \in 0 .. old.pro /\ And[<<old.frame, new.frame>>] \in 0 .. old.frame
      /\ And[<<old.id, new.id>>] \in 0 .. old.id /\ And[<<old.len, new.len>>] \in 0 .. old.len
  BY Fields, AndBound
<1>3. /\ And[<<old.pro, new.pro>>] \in 0 .. 3 /\ And[<<old.frame, new.frame>>] \in 0 .. 3
      /\ And[<<old.id, new.id>>] \in 0 .. IdMax /\ And[<<old.len, new.len>>] \in 0 .. LenMax
  BY <1>1, <1>2, Fields
<1> QED
  BY <1>1, <1>3 DEF ProgramHead, Item

LEMMA ProgramDataTyped == \A old, new \in Item : ProgramData(old, new) \in Item
<1> TAKE old, new \in Item
<1> DEFINE d == IF old.data \in {Blank, new.data} THEN new.data
                ELSE IF new.data = Blank THEN old.data ELSE Mixed
<1>1. d \in Data
  BY DEF Item, Data
<1>2. ProgramData(old, new) = [old EXCEPT !.data = d]
  BY DEF ProgramData
<1> HIDE DEF d
<1> QED
  BY <1>1, <1>2 DEF Item

LEMMA PutTyped ==
  ASSUME item \in [Addresses -> Item], NEW a, NEW i1, a \in Addresses => i1 \in Item, Put(a, i1),
         head \in [Sectors -> 0 .. Erased]
  PROVE  item' \in [Addresses -> Item] /\ head' \in [Sectors -> 0 .. Erased]
<1>1. item' = [b \in Addresses |-> IF b = a THEN i1 ELSE item[b]]
  BY DEF Put
<1>2. \A b \in Addresses : (IF b = a THEN i1 ELSE item[b]) \in Item
  OBVIOUS
<1> QED
  BY <1>1, <1>2 DEF Put

LEMMA FlashWriteTyped ==
  TypeInv /\ FlashWrite => item' \in [Addresses -> Item] /\ head' \in [Sectors -> 0 .. Erased]
<1> SUFFICES ASSUME TypeInv, FlashWrite
             PROVE  item' \in [Addresses -> Item] /\ head' \in [Sectors -> 0 .. Erased]
  OBVIOUS
<1>1. /\ item \in [Addresses -> Item] /\ head \in [Sectors -> 0 .. Erased]
      /\ call.at \in Addresses /\ call.to \in Addresses /\ call.k \in Nat
  BY DEF TypeInv, TypeOK, Call
<1>2. item[call.at] \in Item /\ item[call.to] \in Item
  BY <1>1
<1>3. ASSUME call.phase = "mark", Put(call.at, [item[call.at] EXCEPT !.pro = DELETED])
      PROVE  item' \in [Addresses -> Item] /\ head' \in [Sectors -> 0 .. Erased]
  <2>1. [item[call.at] EXCEPT !.pro = DELETED] \in Item
    BY <1>2 DEF Item, DELETED
  <2> QED
    BY <1>1, <1>3, <2>1, PutTyped
<1>4. ASSUME call.phase = "put",
             Put(free, ProgramData(ProgramHead(item[free], Frame(call.k)), Frame(call.k)))
      PROVE  item' \in [Addresses -> Item] /\ head' \in [Sectors -> 0 .. Erased]
  <2>1. free \in Addresses => ProgramData(ProgramHead(item[free], Frame(call.k)), Frame(call.k)) \in Item
    BY <1>1, <1>4, FrameTyped, ProgramHeadTyped, ProgramDataTyped
  <2> QED
    BY <1>1, <1>4, <2>1, PutTyped
<1>5. ASSUME call.phase = "copy", Put(call.to, ProgramHead(item[call.to], item[call.at]))
      PROVE  item' \in [Addresses -> Item] /\ head' \in [Sectors -> 0 .. Erased]
  BY <1>1, <1>2, <1>5, ProgramHeadTyped, PutTyped
<1>6. ASSUME call.phase = "data", Put(call.to, ProgramData(item[call.to], item[call.at]))
      PROVE  item' \in [Addresses -> Item] /\ head' \in [Sectors -> 0 .. Erased]
  BY <1>1, <1>2, <1>6, ProgramDataTyped, PutTyped
<1>7. ASSUME NEW s, PutIndex(s, call.k)
      PROVE  item' \in [Addresses -> Item] /\ head' \in [Sectors -> 0 .. Erased]
  <2>1. head' = [r \in Sectors |-> IF r = s THEN And[<<head[r], call.k>>] ELSE head[r]]
    BY <1>1, <1>7 DEF PutIndex
  <2>2. \A r \in Sectors : And[<<head[r], call.k>>] \in 0 .. Erased
    <3> TAKE r \in Sectors
    <3>1. head[r] \in 0 .. Erased /\ head[r] \in Nat
      BY <1>1, Fields
    <3>2. And[<<head[r], call.k>>] \in 0 .. head[r]
      BY <1>1, <3>1, AndBound
    <3> QED
      BY <3>1, <3>2, Fields
  <2> QED
    BY <1>1, <1>7, <2>1, <2>2 DEF PutIndex
<1> QED
  BY <1>3, <1>4, <1>5, <1>6, <1>7 DEF FlashWrite

LEMMA EraseTyped ==
  ASSUME TypeInv, NEW s, EraseSector(s)
  PROVE  item' \in [Addresses -> Item] /\ head' \in [Sectors -> 0 .. Erased]
<1>1. FreeItem \in Item
  BY Fields DEF FreeItem, Item, UNUSED, SF, Data
<1>2. item \in [Addresses -> Item] /\ head \in [Sectors -> 0 .. Erased]
  BY DEF TypeInv, TypeOK
<1>3. Erased \in 0 .. Erased
  BY Fields
<1> QED
  BY <1>1, <1>2, <1>3 DEF EraseSector

LEMMA AfterTyped == \A a \in Sectors \X (1 .. Items + 1) : After(a) \in Addresses
<1> TAKE a \in Sectors \X (1 .. Items + 1)
<1>1. a[1] \in Sectors /\ a[2] \in 1 .. Items + 1 /\ Items \in Nat \ {0}
  BY Sizes
<1>2. Sector(a[1] + 1) \in Sectors
  BY <1>1, SectorIn DEF Sectors
<1>3. a[2] < Items => a[2] + 1 \in 1 .. Items
  BY <1>1
<1>4. 1 \in 1 .. Items
  BY <1>1
<1> QED
  BY <1>1, <1>2, <1>3, <1>4 DEF After, Addresses

LEMMA AddressFree == Addresses \subseteq Sectors \X (1 .. Items + 1)
BY Sizes DEF Addresses

LEMMA FrontierTyped == Zoned => Frontier \in Sectors \X (1 .. Items + 1)
<1> SUFFICES ASSUME Zoned PROVE Frontier \in Sectors \X (1 .. Items + 1)
  OBVIOUS
<1>1. CASE FreeItems = {}
  <2>1. Sector(ex - 1) \in Sectors
    BY SectorIn DEF Zoned, Sectors
  <2> QED
    BY <1>1, <2>1, Sizes DEF Frontier
<1>2. CASE FreeItems # {}
  <2>1. PICK p \in FreeItems : p = CHOOSE q \in FreeItems : TRUE
    BY <1>2
  <2>2. p \in Nat
    BY <2>1, VisitedRange DEF FreeItems
  <2>3. Addr(p) \in Addresses
    BY <2>2, AddrIn DEF Zoned
  <2> QED
    BY <1>2, <2>1, <2>3, AddressFree DEF Frontier
<1> QED
  BY <1>1, <1>2

LEMMA NoCallTyped == NoCall \in Call /\ NoCall.at \in Addresses
BY Sizes DEF NoCall, Call, Addresses, Sectors

LEMMA MarkTyped ==
  ASSUME Zoned, NEW id \in Nat, Located(id) # {}
  PROVE  \E k \in Nat, a \in Addresses :
           Mark(id) = [NoCall EXCEPT !.phase = "mark", !.id = id, !.at = a, !.k = k]
<1>1. PICK p \in Located(id) : p = CHOOSE q \in Located(id) : TRUE
  OBVIOUS
<1>2. p \in Nat
  BY <1>1, VisitedRange DEF Located
<1>3. Addr(p) \in Addresses /\ item[Addr(p)] \in Item
  BY <1>2, AddrIn DEF Zoned
<1>4. Frames(item[Addr(p)].len) \in Nat
  BY <1>3, Fields, FramesOf
<1>5. Mark(id) = [NoCall EXCEPT !.phase = "mark", !.id = id, !.at = Addr(p),
                                !.k = Frames(item[Addr(p)].len)]
  BY <1>1 DEF Mark
<1> QED
  BY <1>3, <1>4, <1>5

LEMMA BegunTyped ==
  ASSUME Zoned, NEW f \in Files
  PROVE  \/ Begun(f) = [NoCall EXCEPT !.op = "write", !.phase = "put", !.id = f.id,
                                      !.len = f.len, !.val = f.val, !.k = 1]
         \/ \E k \in Nat \ {0}, a \in Addresses :
              Begun(f) = [NoCall EXCEPT !.op = "write", !.phase = "mark", !.id = f.id,
                                        !.len = f.len, !.val = f.val, !.at = a, !.k = k]
<1>1. CASE Located(f.id) = {} \/ Mark(f.id).k = 0
  BY <1>1 DEF Begun
<1>2. CASE Located(f.id) # {} /\ Mark(f.id).k # 0
  <2>1. f.id \in Nat
    BY FsAssumption, Fields
  <2>2. PICK k \in Nat, a \in Addresses :
          Mark(f.id) = [NoCall EXCEPT !.phase = "mark", !.id = f.id, !.at = a, !.k = k]
    BY <1>2, <2>1, MarkTyped
  <2>3. Mark(f.id).k = k
    BY <2>2 DEF NoCall
  <2>4. Begun(f) = [Mark(f.id) EXCEPT !.op = "write", !.len = f.len, !.val = f.val]
    BY <1>2 DEF Begun
  <2>5. Begun(f) = [NoCall EXCEPT !.op = "write", !.phase = "mark", !.id = f.id,
                                  !.len = f.len, !.val = f.val, !.at = a, !.k = k]
    BY <2>2, <2>4 DEF NoCall
  <2> QED
    BY <1>2, <2>3, <2>5
<1> QED
  BY <1>1, <1>2

LEMMA CopyFromTyped ==
  ASSUME call \in Call, NEW a \in Sectors \X (1 .. Items + 1)
  PROVE  \/ CopyFrom(a) = [call EXCEPT !.phase = "erase", !.at = <<a[1], 1>>] /\ <<a[1], 1>> \in Addresses
         \/ \E b \in Kept(a) : b \in Addresses /\ CopyFrom(a) = [call EXCEPT !.phase = "copy", !.at = b]
<1>1. CASE Kept(a) = {}
  BY <1>1, Sizes DEF CopyFrom, Addresses
<1>2. CASE Kept(a) # {}
  <2>1. PICK b \in Kept(a) : b = CHOOSE c \in Kept(a) : TRUE
    BY <1>2
  <2>2. b \in Addresses
    BY <2>1 DEF Kept
  <2> QED
    BY <1>2, <2>1, <2>2 DEF CopyFrom
<1> QED
  BY <1>1, <1>2

LEMMA TypeInit == Init => TypeInv
<1> SUFFICES ASSUME Init PROVE TypeInv
  OBVIOUS
<1>1. head \in [Sectors -> 0 .. Erased]
  <2>1. Erased \in 0 .. Erased /\ Foreign \in 0 .. Erased
    BY DEF Erased, Foreign
  <2> QED
    BY <2>1 DEF Init
<1>2. item \in [Addresses -> Item]
  <2>1. FreeItem \in Item
    BY Fields DEF FreeItem, Item, UNUSED, SF, Data
  <2> QED
    BY <2>1 DEF Init
<1>3. ex \in Sectors /\ free \in Sectors \X (1 .. Items + 1)
  BY Sizes DEF Init, Sectors
<1>4. call \in Call /\ CallInv
  BY NoCallTyped DEF Init, CallInv, NoCall
<1> QED
  BY <1>1, <1>2, <1>3, <1>4 DEF Init, TypeInv, TypeOK

(* The calls that begin, and the answers they get at once.                 *)
LEMMA TypeBegin ==
  TypeInv /\ (Refuse \/ HalInit \/ Format \/ Collect \/ (\E f \in Files : Write(f)) \/ (\E id \in Ids : Delete(id)))
    => TypeInv'
<1> SUFFICES ASSUME TypeInv PROVE
      (Refuse \/ HalInit \/ Format \/ Collect \/ (\E f \in Files : Write(f)) \/ (\E id \in Ids : Delete(id)))
        => TypeInv'
  OBVIOUS
<1>1. Zoned /\ call \in Call
  BY DEF TypeInv, TypeOK, Zoned
<1>2. ASSUME Refuse PROVE TypeInv'
  BY <1>2, NoCallTyped DEF Refuse, Return, flash, ram, TypeInv, TypeOK, CallInv, NoCall
<1>3. ASSUME HalInit PROVE TypeInv'
  <2>1. UNCHANGED <<flash, ram>>
    BY <1>3 DEF HalInit
  <2>2. CASE Return("UNINITIALIZED")
    BY <2>1, <2>2, NoCallTyped DEF Return, flash, ram, TypeInv, TypeOK, CallInv, NoCall
  <2>3. CASE Enter([NoCall EXCEPT !.op = "init", !.phase = "mount"])
    <3>1. [NoCall EXCEPT !.op = "init", !.phase = "mount"] \in Call
      BY NoCallTyped DEF Call, Calls
    <3> QED
      BY <2>1, <2>3, <3>1 DEF Enter, flash, ram, TypeInv, TypeOK, CallInv, NoCall
  <2> QED
    BY <1>3, <2>2, <2>3 DEF HalInit
<1>4. ASSUME Format PROVE TypeInv'
  <2>1. [NoCall EXCEPT !.op = "format", !.phase = "wipe"] \in Call
    BY NoCallTyped DEF Call, Calls
  <2> QED
    BY <1>4, <2>1 DEF Format, Enter, flash, ram, TypeInv, TypeOK, CallInv, NoCall
<1>5. ASSUME Collect PROVE TypeInv'
  <2>1. <<ex, 1>> \in Addresses
    BY <1>1, Sizes DEF Zoned, Addresses
  <2>2. [NoCall EXCEPT !.op = "collect", !.phase = "index", !.to = <<ex, 1>>] \in Call
    BY <2>1, NoCallTyped DEF Call, Calls
  <2> QED
    BY <1>5, <2>2 DEF Collect, Enter, flash, ram, TypeInv, TypeOK, CallInv, NoCall
<1>6. ASSUME NEW f \in Files, Write(f) PROVE TypeInv'
  <2>1. UNCHANGED <<flash, ram>>
    BY <1>6 DEF Write
  <2>2. CASE Return("NOT_ENOUGH_SIZE")
    BY <2>1, <2>2, NoCallTyped DEF Return, flash, ram, TypeInv, TypeOK, CallInv, NoCall
  <2>3. CASE Enter(Begun(f))
    <3>1. f.id \in Nat /\ f.len \in Nat /\ f.len > 0 /\ f.val \in Nat
      BY FsAssumption, Fields
    <3>2. /\ Begun(f) \in Call /\ Begun(f).op = "write"
          /\ Begun(f).id = f.id /\ Begun(f).len = f.len /\ Begun(f).val = f.val
          /\ Begun(f).phase = "put" => Begun(f).k = 1
          /\ Begun(f).phase = "mark" => Begun(f).k >= 1
      <4>1. CASE Begun(f) = [NoCall EXCEPT !.op = "write", !.phase = "put", !.id = f.id,
                                      !.len = f.len, !.val = f.val, !.k = 1]
        <5>1. [NoCall EXCEPT !.op = "write", !.phase = "put", !.id = f.id,
                             !.len = f.len, !.val = f.val, !.k = 1] \in Call
          BY <3>1, NoCallTyped DEF Call, Calls
        <5> QED
          BY <4>1, <5>1 DEF NoCall
      <4>2. ASSUME NEW k \in Nat \ {0}, NEW a \in Addresses,
                   Begun(f) = [NoCall EXCEPT !.op = "write", !.phase = "mark", !.id = f.id,
                                        !.len = f.len, !.val = f.val, !.at = a, !.k = k]
            PROVE  /\ Begun(f) \in Call /\ Begun(f).op = "write"
                   /\ Begun(f).id = f.id /\ Begun(f).len = f.len /\ Begun(f).val = f.val
                   /\ Begun(f).phase = "put" => Begun(f).k = 1
                   /\ Begun(f).phase = "mark" => Begun(f).k >= 1
        <5>1. Begun(f) \in Call
          BY <3>1, <4>2, NoCallTyped DEF Call, Calls
        <5> QED
          BY <4>2, <5>1 DEF NoCall
      <4> QED
        BY <1>1, <4>1, <4>2, BegunTyped
    <3>3. 1 \in 1 .. Frames(f.len)
      BY <3>1, FramesOf
    <3>4. call' = Begun(f) /\ ret' = "none"
      BY <2>3 DEF Enter
    <3>5. CallInv'
      BY <3>2, <3>3, <3>4 DEF CallInv, FileCalled
    <3> QED
      BY <2>1, <3>2, <3>4, <3>5 DEF flash, ram, TypeInv, TypeOK
  <2> QED
    BY <1>6, <2>2, <2>3 DEF Write
<1>7. ASSUME NEW id \in Ids, Delete(id) PROVE TypeInv'
  <2>1. UNCHANGED <<flash, ram>>
    BY <1>7 DEF Delete
  <2>2. ASSUME NEW code \in {"NOT_FIND_ID", "SUCCESS"}, Return(code) PROVE TypeInv'
    BY <2>1, <2>2, NoCallTyped DEF Return, flash, ram, TypeInv, TypeOK, CallInv, NoCall
  <2>3. CASE Located(id) # {} /\ Mark(id).k # 0 /\ Enter([Mark(id) EXCEPT !.op = "delete"])
    <3>1. id \in Nat
      BY FsAssumption, Fields DEF Ids
    <3>2. PICK k \in Nat, a \in Addresses :
            Mark(id) = [NoCall EXCEPT !.phase = "mark", !.id = id, !.at = a, !.k = k]
      BY <1>1, <2>3, <3>1, MarkTyped
    <3>3. call' = [NoCall EXCEPT !.op = "delete", !.phase = "mark", !.id = id, !.at = a, !.k = k]
      BY <2>3, <3>2 DEF Enter, NoCall
    <3>4. k # 0
      BY <2>3, <3>2 DEF NoCall
    <3>5. call' \in Call
      BY <3>1, <3>3, NoCallTyped DEF Call, Calls
    <3>6. CallInv'
      BY <3>2, <3>3, <3>4 DEF CallInv, NoCall
    <3> QED
      BY <2>1, <2>3, <3>5, <3>6 DEF Enter, flash, ram, TypeInv, TypeOK
  <2> QED
    BY <1>7, <2>2, <2>3 DEF Delete
<1> QED
  BY <1>2, <1>3, <1>4, <1>5, <1>6, <1>7

(* The steps of hal_fs_item_write and hal_fs_item_del.                     *)
LEMMA TypeFile == TypeInv /\ (MarkFrame \/ PutFrame) => TypeInv'
<1> SUFFICES ASSUME TypeInv PROVE MarkFrame \/ PutFrame => TypeInv'
  OBVIOUS
<1>1. call \in Call /\ call.at \in Addresses /\ call.k \in Nat /\ CallInv
  BY DEF TypeInv, TypeOK, Call
<1>2. ASSUME MarkFrame PROVE TypeInv'
  <2>1. item' \in [Addresses -> Item] /\ head' \in [Sectors -> 0 .. Erased]
    BY <1>2, FlashWriteTyped DEF MarkFrame
  <2>2. ready' \in BOOLEAN /\ ex' \in Sectors /\ free' \in Sectors \X (1 .. Items + 1)
    BY <1>2 DEF MarkFrame, ram, TypeInv, TypeOK
  <2>3. CASE call.k > 1 /\ call' = [call EXCEPT !.at = After(@), !.k = @ - 1] /\ UNCHANGED ret
    <3>1. After(call.at) \in Addresses
      BY <1>1, AfterTyped, AddressFree
    <3>2. call' \in Call
      <4>1. call.k - 1 \in Nat
        BY <1>1, <2>3
      <4> QED
        BY <1>1, <2>3, <3>1, <4>1 DEF Call
    <3>3. CallInv'
      BY <1>1, <1>2, <2>3 DEF CallInv, FileCalled, Call, MarkFrame
    <3> QED
      BY <2>1, <2>2, <2>3, <3>2, <3>3 DEF TypeInv, TypeOK
  <2>4. CASE Return("SUCCESS")
    BY <2>1, <2>2, <2>4, NoCallTyped DEF Return, TypeInv, TypeOK, CallInv, NoCall
  <2>5. CASE ~ call.k > 1 /\ call.op # "delete"
             /\ call' = [call EXCEPT !.phase = "put", !.at = NoCall.at] /\ UNCHANGED ret
    <3>1. call' \in Call
      BY <1>1, <2>5, NoCallTyped DEF Call
    <3>2. call.op = "write" /\ call.k = 1 /\ FileCalled
      BY <1>1, <1>2, <2>5 DEF MarkFrame, CallInv
    <3>3. 1 \in 1 .. Frames(call.len)
      <4>1. PICK f \in Files : call.len = f.len
        BY <3>2 DEF FileCalled
      <4>2. f.len \in Nat /\ f.len > 0
        BY FsAssumption, Fields
      <4> QED
        BY <4>1, <4>2, FramesOf
    <3>4. /\ call'.op = "write" /\ call'.phase = "put" /\ call'.k = 1 /\ call'.len = call.len
          /\ call'.id = call.id /\ call'.val = call.val
      BY <1>1, <2>5, <3>2 DEF Call
    <3>5. CallInv'
      <4>1. FileCalled'
        BY <3>2, <3>4 DEF FileCalled
      <4>2. call'.k \in 1 .. Frames(call'.len)
        BY <3>3, <3>4
      <4> QED
        BY <3>4, <4>1, <4>2 DEF CallInv
    <3> QED
      BY <2>1, <2>2, <2>5, <3>1, <3>5 DEF TypeInv, TypeOK
  <2> QED
    BY <1>2, <2>3, <2>4, <2>5 DEF MarkFrame
<1>3. ASSUME PutFrame PROVE TypeInv'
  <2>1. item' \in [Addresses -> Item] /\ head' \in [Sectors -> 0 .. Erased]
    BY <1>3, FlashWriteTyped DEF PutFrame
  <2>2. ready' \in BOOLEAN /\ ex' \in Sectors
    BY <1>3 DEF PutFrame, TypeInv, TypeOK
  <2>3. free' \in Sectors \X (1 .. Items + 1)
    <3>1. free \in Sectors \X (1 .. Items + 1)
      BY DEF TypeInv, TypeOK
    <3>2. After(free) \in Sectors \X (1 .. Items + 1)
      BY <3>1, AfterTyped, AddressFree
    <3>3. NextFree \in Sectors \X (1 .. Items + 1)
      BY <3>1, <3>2, Sizes DEF NextFree
    <3> QED
      BY <1>3, <3>3 DEF PutFrame
  <2>4. CASE call.k < Frames(call.len) /\ call' = [call EXCEPT !.k = @ + 1] /\ UNCHANGED ret
    <3>1. call' \in Call
      BY <1>1, <2>4 DEF Call
    <3>2. Frames(call.len) \in Nat
      BY <1>1, FramesOf DEF Call
    <3>3. CallInv'
      BY <1>1, <1>3, <2>4, <3>2 DEF CallInv, FileCalled, Call, PutFrame
    <3> QED
      BY <2>1, <2>2, <2>3, <2>4, <3>1, <3>3 DEF TypeInv, TypeOK
  <2>5. CASE Return("SUCCESS")
    BY <2>1, <2>2, <2>3, <2>5, NoCallTyped DEF Return, TypeInv, TypeOK, CallInv, NoCall
  <2> QED
    BY <1>3, <2>4, <2>5 DEF PutFrame
<1> QED
  BY <1>2, <1>3

(* The steps of hal_fs_init and hal_fs_format.                             *)
LEMMA TypeMount ==
  TypeInv /\ (Wipe \/ MountForeign \/ MountNew \/ Mount \/ PutHead) => TypeInv'
<1> SUFFICES ASSUME TypeInv PROVE Wipe \/ MountForeign \/ MountNew \/ Mount \/ PutHead => TypeInv'
  OBVIOUS
<1>1. call \in Call /\ call.k \in Nat /\ CallInv
  BY DEF TypeInv, TypeOK, Call
<1>2. ASSUME Wipe PROVE TypeInv'
  <2>1. item' \in [Addresses -> Item] /\ head' \in [Sectors -> 0 .. Erased]
    BY <1>2, EraseTyped DEF Wipe
  <2>2. call' \in Call /\ call'.op = call.op /\ call'.phase \notin {"put", "mark"}
        /\ call'.id = call.id /\ call'.len = call.len /\ call'.val = call.val
    <3>1. CASE call' = [call EXCEPT !.k = @ + 1]
      BY <1>1, <1>2, <3>1 DEF Wipe, Call
    <3>2. CASE call' = [call EXCEPT !.phase = "mount", !.k = 0]
      BY <1>1, <3>2 DEF Call
    <3> QED
      BY <1>2, <3>1, <3>2 DEF Wipe
  <2>3. CallInv'
    BY <1>1, <2>2 DEF CallInv, FileCalled
  <2> QED
    BY <1>2, <2>1, <2>2, <2>3 DEF Wipe, ram, TypeInv, TypeOK
<1>3. ASSUME MountForeign PROVE TypeInv'
  BY <1>3, NoCallTyped DEF MountForeign, Return, flash, ram, TypeInv, TypeOK, CallInv, NoCall
<1>4. ASSUME MountNew PROVE TypeInv'
  <2>1. call' \in Call /\ CallInv'
    BY <1>1, <1>4 DEF MountNew, Call, CallInv, FileCalled
  <2> QED
    BY <1>4, <2>1 DEF MountNew, flash, ram, TypeInv, TypeOK
<1>5. ASSUME Mount PROVE TypeInv'
  <2>1. CASE Indexed(0) = {}
    BY <1>5, <2>1, NoCallTyped DEF Mount, Return, flash, ram, TypeInv, TypeOK, CallInv, NoCall
  <2>2. CASE Indexed(0) # {}
    <3>1. ex' \in Sectors
      BY <1>5, <2>2, SectorIn DEF Mount, Indexed, Sectors
    <3>2. Zoned'
      BY <1>5, <3>1 DEF Mount, flash, Zoned, TypeInv, TypeOK
    <3>3. (Zoned => Frontier \in Sectors \X (1 .. Items + 1))'
      BY FrontierTyped, PTL
    <3>4. free' \in Sectors \X (1 .. Items + 1)
      BY <1>5, <2>2, <3>2, <3>3 DEF Mount
    <3> QED
      BY <1>5, <2>2, <3>1, <3>4, NoCallTyped DEF Mount, Return, flash, TypeInv, TypeOK, CallInv, NoCall
  <2> QED
    BY <2>1, <2>2
<1>6. ASSUME PutHead PROVE TypeInv'
  <2>1. item' \in [Addresses -> Item] /\ head' \in [Sectors -> 0 .. Erased]
    BY <1>6, FlashWriteTyped DEF PutHead
  <2>2. CASE call' = [call EXCEPT !.k = @ + 1] /\ UNCHANGED <<ram, ret>>
    <3>1. call' \in Call
      BY <1>1, <2>2 DEF Call
    <3>2. call'.op = call.op /\ call'.phase = "index" /\ call'.id = call.id
          /\ call'.len = call.len /\ call'.val = call.val
      BY <1>1, <1>6, <2>2 DEF PutHead, Call
    <3>3. CallInv'
      BY <1>1, <3>2 DEF CallInv, FileCalled
    <3> QED
      BY <2>1, <2>2, <3>1, <3>3 DEF ram, TypeInv, TypeOK
  <2>3. CASE ready' = TRUE /\ ex' = SectorNum - 1 /\ free' = <<0, 1>> /\ Return("SUCCESS")
    <3>1. ex' \in Sectors /\ free' \in Sectors \X (1 .. Items + 1)
      BY <2>3, Sizes DEF Sectors
    <3> QED
      BY <2>1, <2>3, <3>1, NoCallTyped DEF Return, TypeInv, TypeOK, CallInv, NoCall
  <2> QED
    BY <1>6, <2>2, <2>3 DEF PutHead
<1> QED
  BY <1>2, <1>3, <1>4, <1>5, <1>6

(* The steps of hal_fs_garbage_collect, a write that fails and a reset.    *)
LEMMA TypeCollect ==
  TypeInv /\ (CollectIndex \/ CopyHead \/ CopyData \/ EraseCopied) => TypeInv'
<1> SUFFICES ASSUME TypeInv PROVE CollectIndex \/ CopyHead \/ CopyData \/ EraseCopied => TypeInv'
  OBVIOUS
<1>1. /\ call \in Call /\ call.k \in Nat /\ call.at \in Addresses /\ call.to \in Addresses
      /\ ex \in Sectors /\ CallInv
  BY DEF TypeInv, TypeOK, Call
<1>2. ASSUME NEW a \in Sectors \X (1 .. Items + 1)
      PROVE  /\ CopyFrom(a) \in Call /\ CopyFrom(a).op = call.op
             /\ CopyFrom(a).phase \notin {"put", "mark"}
             /\ CopyFrom(a).id = call.id /\ CopyFrom(a).len = call.len /\ CopyFrom(a).val = call.val
  <2>1. ASSUME NEW b \in Addresses, CopyFrom(a) = [call EXCEPT !.phase = "copy", !.at = b]
        PROVE  /\ CopyFrom(a) \in Call /\ CopyFrom(a).op = call.op
               /\ CopyFrom(a).phase \notin {"put", "mark"}
               /\ CopyFrom(a).id = call.id /\ CopyFrom(a).len = call.len /\ CopyFrom(a).val = call.val
    BY <1>1, <2>1 DEF Call
  <2>2. ASSUME NEW b \in Addresses, CopyFrom(a) = [call EXCEPT !.phase = "erase", !.at = b]
        PROVE  /\ CopyFrom(a) \in Call /\ CopyFrom(a).op = call.op
               /\ CopyFrom(a).phase \notin {"put", "mark"}
               /\ CopyFrom(a).id = call.id /\ CopyFrom(a).len = call.len /\ CopyFrom(a).val = call.val
    BY <1>1, <2>2 DEF Call
  <2> QED
    BY <1>1, <2>1, <2>2, CopyFromTyped
<1>3. ASSUME CollectIndex PROVE TypeInv'
  <2>1. item' \in [Addresses -> Item] /\ head' \in [Sectors -> 0 .. Erased]
    BY <1>3, FlashWriteTyped DEF CollectIndex
  <2>2. <<Sector(ex + 1 + call.k), 1>> \in Sectors \X (1 .. Items + 1)
    BY <1>1, SectorIn, Sizes DEF Sectors
  <2>3. call' \in Call /\ CallInv'
    BY <1>1, <1>2, <1>3, <2>2 DEF CollectIndex, CallInv, FileCalled
  <2> QED
    BY <1>3, <2>1, <2>3 DEF CollectIndex, ram, TypeInv, TypeOK
<1>4. ASSUME CopyHead PROVE TypeInv'
  <2>1. item' \in [Addresses -> Item] /\ head' \in [Sectors -> 0 .. Erased]
    BY <1>4, FlashWriteTyped DEF CopyHead
  <2>2. call' \in Call /\ CallInv'
    BY <1>1, <1>4 DEF CopyHead, Call, CallInv, FileCalled
  <2> QED
    BY <1>4, <2>1, <2>2 DEF CopyHead, ram, TypeInv, TypeOK
<1>5. ASSUME CopyData PROVE TypeInv'
  <2>1. item' \in [Addresses -> Item] /\ head' \in [Sectors -> 0 .. Erased]
    BY <1>5, FlashWriteTyped DEF CopyData
  <2> DEFINE a == <<call.at[1], call.at[2] + 1>>
  <2>2. a \in Sectors \X (1 .. Items + 1)
    BY <1>1, Sizes DEF Addresses
  <2>3. call' = [CopyFrom(a) EXCEPT !.to = After(@)]
    BY <1>5 DEF CopyData
  <2> HIDE DEF a
  <2>4. CopyFrom(a) \in Call /\ CopyFrom(a).to \in Addresses
    BY <1>2, <2>2 DEF Call
  <2>5. After(CopyFrom(a).to) \in Addresses
    BY <2>4, AfterTyped, AddressFree
  <2>6. call' \in Call
    BY <2>3, <2>4, <2>5 DEF Call
  <2>7. /\ call'.op = call.op /\ call'.phase \notin {"put", "mark"}
        /\ call'.id = call.id /\ call'.len = call.len /\ call'.val = call.val
    BY <1>2, <2>2, <2>3, <2>4 DEF Call
  <2>8. CallInv'
    BY <1>1, <2>7 DEF CallInv, FileCalled
  <2> QED
    BY <1>5, <2>1, <2>6, <2>8 DEF CopyData, ram, TypeInv, TypeOK
<1>6. ASSUME EraseCopied PROVE TypeInv'
  <2>1. item' \in [Addresses -> Item] /\ head' \in [Sectors -> 0 .. Erased]
    BY <1>6, EraseTyped DEF EraseCopied
  <2>2. CASE call' = [call EXCEPT !.phase = "index", !.k = @ + 1]
    <3>1. call' \in Call
      <4>1. call.k + 1 \in Nat
        BY <1>1
      <4> QED
        BY <1>1, <2>2, <4>1 DEF Call
    <3>2. call'.op = call.op /\ call'.phase = "index"
          /\ call'.id = call.id /\ call'.len = call.len /\ call'.val = call.val
      BY <1>1, <2>2 DEF Call
    <3>3. CallInv'
      BY <1>1, <3>2 DEF CallInv, FileCalled
    <3> QED
      BY <1>6, <2>1, <3>1, <3>3 DEF EraseCopied, ram, TypeInv, TypeOK
  <2>3. CASE call' = [NoCall EXCEPT !.op = "collect", !.phase = "mount"]
    <3>1. [NoCall EXCEPT !.op = "collect", !.phase = "mount"] \in Call
      BY NoCallTyped DEF Call, Calls
    <3>2. CallInv'
      BY <2>3 DEF CallInv, NoCall
    <3> QED
      BY <1>6, <2>1, <2>3, <3>1, <3>2 DEF EraseCopied, ram, TypeInv, TypeOK
  <2> QED
    BY <1>6, <2>2, <2>3 DEF EraseCopied
<1> QED
  BY <1>3, <1>4, <1>5, <1>6

LEMMA TypeFails == TypeInv /\ (WriteFails \/ Restart) => TypeInv'
<1> SUFFICES ASSUME TypeInv PROVE WriteFails \/ Restart => TypeInv'
  OBVIOUS
<1>1. ASSUME WriteFails PROVE TypeInv'
  <2>1. item' \in [Addresses -> Item] /\ head' \in [Sectors -> 0 .. Erased]
    <3>1. CASE FlashWrite
      BY <3>1, FlashWriteTyped
    <3>2. CASE UNCHANGED flash
      BY <3>2 DEF flash, TypeInv, TypeOK
    <3> QED
      BY <1>1, <3>1, <3>2 DEF WriteFails
  <2>2. PICK code \in {"FATAL", "WRITE_FAILED"} : Return(code)
    BY <1>1 DEF WriteFails
  <2> QED
    BY <1>1, <2>1, <2>2, NoCallTyped DEF WriteFails, Return, ram, TypeInv, TypeOK, CallInv, NoCall
<1>2. ASSUME Restart PROVE TypeInv'
  <2>1. 0 \in Sectors /\ <<0, 1>> \in Sectors \X (1 .. Items + 1)
    BY Sizes DEF Sectors
  <2> QED
    BY <1>2, <2>1, NoCallTyped DEF Restart, Return, flash, TypeInv, TypeOK, CallInv, NoCall
<1> QED
  BY <1>1, <1>2

LEMMA TypeStep == TypeInv /\ [Next]_vars => TypeInv'
<1>1. TypeInv /\ UNCHANGED vars => TypeInv'
  BY DEF vars, TypeInv, TypeOK, CallInv, FileCalled
<1> QED
  BY <1>1, TypeBegin, TypeFile, TypeMount, TypeCollect, TypeFails DEF Next

(* Type correctness: whatever calls are made, whichever writes fail and    *)
(* whenever the supply does, flash holds items and indexes and RAM an      *)
(* address of the zone.                                                    *)
THEOREM TypeCorrect == Spec => []TypeOK
<1>1. Spec => []TypeInv
  BY TypeInit, TypeStep, PTL DEF Spec
<1>2. TypeInv => TypeOK
  BY DEF TypeInv
<1> QED
  BY <1>1, <1>2, PTL

-----------------------------------------------------------------------------
(* From here on no flash write fails and the supply fails in no call: the  *)
(* zone is a ring of sectors of which one, e, is erased, and its items are *)
(* numbered from the sector behind e.                                      *)

Place(e, p) == <<Sector(e + 1 + Row(p)), Column(p)>>

LEMMA PlaceIn == \A e, p \in Int : Place(e, p) \in Addresses
<1> TAKE e, p \in Int
<1>1. Row(p) \in Int /\ Column(p) \in 1 .. Items
  BY RowColumn
<1>2. Sector(e + 1 + Row(p)) \in Sectors
  BY <1>1, SectorIn
<1> QED
  BY <1>1, <1>2 DEF Place, Addresses

LEMMA PlaceAt ==
  ASSUME NEW e \in Int, NEW m \in Int, NEW j \in 1 .. Items
  PROVE  Place(e, Items * m + j) = <<Sector(e + 1 + m), j>>
<1>1. Items * m + j \in Int
  BY Sizes
<1>2. Row(Items * m + j) = m /\ Column(Items * m + j) = j
  BY <1>1, RowColumnIs
<1> QED
  BY <1>2 DEF Place

LEMMA RowIs ==
  ASSUME NEW p \in Int, NEW m \in Int, m * Items < p, p <= (m + 1) * Items
  PROVE  Row(p) = m /\ Column(p) = p - m * Items
<1>1. p - m * Items \in 1 .. Items /\ p = Items * m + (p - m * Items)
  BY Sizes
<1> QED
  BY <1>1, RowColumnIs

LEMMA RowOrder ==
  ASSUME NEW p \in Int, NEW q \in Int, p <= q
  PROVE  Row(p) <= Row(q)
<1>1. /\ Row(p) \in Int /\ Column(p) \in 1 .. Items /\ p = Items * Row(p) + Column(p)
      /\ Row(q) \in Int /\ Column(q) \in 1 .. Items /\ q = Items * Row(q) + Column(q)
  BY RowColumn
<1>2. Items \in Nat \ {0}
  BY Sizes
<1> DEFINE d == Row(p) - Row(q)
<1>3. d \in Int /\ p - q = Items * d + (Column(p) - Column(q))
  <2>1. Items * d = Items * Row(p) - Items * Row(q) /\ Items * Row(p) \in Int /\ Items * Row(q) \in Int
    BY <1>1, <1>2, Distribute
  <2> QED
    BY <1>1, <2>1
<1>4. Column(p) - Column(q) > - Items
  BY <1>1, <1>2
<1> HIDE DEF d
<1>5. ~ d >= 1
  BY <1>1, <1>2, <1>3, <1>4
<1> QED
  BY <1>1, <1>3, <1>5 DEF d

LEMMA PlaceInjective ==
  ASSUME NEW e \in Int, NEW p \in 1 .. SectorNum * Items, NEW q \in 1 .. SectorNum * Items,
         Place(e, p) = Place(e, q)
  PROVE  p = q
<1>1. Items \in Nat \ {0} /\ SectorNum \in Nat \ {0} /\ p \in Int /\ q \in Int /\ SectorNum * Items \in Int
  BY Sizes
<1>2. /\ Row(p) \in Int /\ Column(p) \in 1 .. Items /\ p = Items * Row(p) + Column(p)
      /\ Row(q) \in Int /\ Column(q) \in 1 .. Items /\ q = Items * Row(q) + Column(q)
  BY <1>1, RowColumn
<1>3. Sector(e + 1 + Row(p)) = Sector(e + 1 + Row(q)) /\ Column(p) = Column(q)
  BY DEF Place
<1>4. Row(1) = 0 /\ Row(SectorNum * Items) = SectorNum - 1
  <2>1. 1 = Items * 0 + 1 /\ SectorNum * Items = Items * (SectorNum - 1) + Items
    BY <1>1
  <2> QED
    BY <1>1, <2>1, RowColumnIs
<1>5. 0 <= Row(p) /\ Row(p) <= SectorNum - 1 /\ 0 <= Row(q) /\ Row(q) <= SectorNum - 1
  BY <1>1, <1>4, RowOrder
<1>6. Row(p) = Row(q)
  <2>1. CASE Row(p) <= Row(q)
    BY <1>1, <1>2, <1>3, <1>5, <2>1, SectorInjective
  <2>2. CASE Row(q) <= Row(p)
    BY <1>1, <1>2, <1>3, <1>5, <2>2, SectorInjective
  <2> QED
    BY <1>2, <2>1, <2>2
<1> QED
  BY <1>2, <1>3, <1>6

LEMMA PlaceAfter == \A e, p \in Int : After(Place(e, p)) = Place(e, p + 1)
<1> TAKE e, p \in Int
<1>1. Items \in Nat \ {0}
  BY Sizes
<1>2. Row(p) \in Int /\ Column(p) \in 1 .. Items /\ p = Items * Row(p) + Column(p)
  BY RowColumn
<1>3. CASE Column(p) < Items
  <2>1. p + 1 = Items * Row(p) + (Column(p) + 1) /\ Column(p) + 1 \in 1 .. Items
    BY <1>1, <1>2, <1>3
  <2>2. Row(p + 1) = Row(p) /\ Column(p + 1) = Column(p) + 1
    BY <1>2, <2>1, RowColumnIs
  <2> QED
    BY <1>3, <2>2 DEF Place, After
<1>4. CASE Column(p) = Items
  <2>1. p + 1 = Items * (Row(p) + 1) + 1 /\ 1 \in 1 .. Items /\ Row(p) + 1 \in Int
    BY <1>1, <1>2, <1>4
  <2>2. Row(p + 1) = Row(p) + 1 /\ Column(p + 1) = 1
    BY <1>2, <2>1, RowColumnIs
  <2>3. Sector(Sector(e + 1 + Row(p)) + 1) = Sector((e + 1 + Row(p)) + 1)
    BY <1>2, SectorAdd
  <2>4. (e + 1 + Row(p)) + 1 = e + 1 + (Row(p) + 1)
    BY <1>2
  <2>5. ~ Column(p) < Items
    BY <1>1, <1>4
  <2> QED
    BY <2>2, <2>3, <2>4, <2>5 DEF Place, After
<1> QED
  BY <1>1, <1>2, <1>3, <1>4

LEMMA PlaceTurn == \A e, p \in Int : Place(Sector(e), p) = Place(e, p)
<1> TAKE e, p \in Int
<1>1. Row(p) \in Int
  BY RowColumn
<1>2. Sector(e) \in Int
  BY SectorPart
<1>3. Sector(e) + 1 + Row(p) = Sector(e) + (1 + Row(p)) /\ e + 1 + Row(p) = e + (1 + Row(p))
  BY <1>1, <1>2
<1>4. Sector(Sector(e) + (1 + Row(p))) = Sector(e + (1 + Row(p)))
  BY <1>1, SectorAdd
<1> QED
  BY <1>3, <1>4 DEF Place

(* The same item, numbered from the sector before.                         *)
LEMMA PlaceBefore == \A e, p \in Int : Place(Sector(e - 1), p + Items) = Place(e, p)
<1> TAKE e, p \in Int
<1>1. Items \in Nat \ {0}
  BY Sizes
<1>2. Row(p) \in Int /\ Column(p) \in 1 .. Items /\ p = Items * Row(p) + Column(p)
  BY RowColumn
<1>3. p + Items = Items * (Row(p) + 1) + Column(p) /\ Row(p) + 1 \in Int /\ p + Items \in Int /\ e - 1 \in Int
  <2>1. Items * (Row(p) + 1) = Items * Row(p) + Items * 1 /\ Items * Row(p) \in Int
    BY <1>1, <1>2, Distribute
  <2> QED
    BY <1>1, <1>2, <2>1
<1>4. Row(p + Items) = Row(p) + 1 /\ Column(p + Items) = Column(p)
  BY <1>2, <1>3, RowColumnIs
<1>5. Place(Sector(e - 1), p + Items) = Place(e - 1, p + Items)
  BY <1>3, PlaceTurn
<1>6. (e - 1) + 1 + (Row(p) + 1) = e + 1 + Row(p)
  BY <1>2
<1> QED
  BY <1>4, <1>5, <1>6 DEF Place

LEMMA CapacityIs ==
  /\ Capacity \in Nat /\ Capacity >= 2 * Items /\ Capacity = Items * (SectorNum - 1)
  /\ SectorNum * Items = Capacity + Items
<1>1. Items * (SectorNum - 1) = Items * SectorNum - Items * 1 /\ Items * SectorNum \in Int
  BY Sizes, Distribute
<1>2. Items * SectorNum = Items * 2 + Items * (SectorNum - 2) /\ Items * (SectorNum - 2) \in Int
  BY Sizes, Distribute
<1>3. Items * (SectorNum - 2) >= Items
  BY Sizes
<1>4. Capacity = Items * (SectorNum - 1) /\ SectorNum * Items = Items * SectorNum
  BY Sizes DEF Capacity
<1> QED
  BY <1>1, <1>2, <1>3, <1>4, Sizes

LEMMA PlaceOutside ==
  ASSUME NEW e \in Sectors, NEW p \in 1 .. Capacity
  PROVE  Place(e, p) \in Addresses /\ Place(e, p)[1] # e
<1>1. Row(p) \in 0 .. SectorNum - 2 /\ e \in Int /\ p \in Int
  BY RowBound, Sizes, CapacityIs DEF Sectors
<1>2. Place(e, p)[1] = Sector(e + 1 + Row(p)) /\ Sector(e) = e
  BY SectorIs DEF Place
<1>3. Sector(e) # Sector(e + 1 + Row(p))
  BY <1>1, SectorInjective, Sizes
<1> QED
  BY <1>1, <1>2, <1>3, PlaceIn

LEMMA PlaceOnto ==
  ASSUME NEW e \in Sectors, NEW a \in Addresses, a[1] # e
  PROVE  \E p \in 1 .. Capacity : a = Place(e, p)
<1> DEFINE m == Sector(a[1] - e - 1)
<1>1. a[1] \in Int /\ e \in Int /\ a[2] \in 1 .. Items /\ a = <<a[1], a[2]>>
      /\ Sector(a[1]) = a[1] /\ Sector(e) = e
  BY SectorIs, Sizes DEF Addresses, Sectors
<1>2. m \in 0 .. SectorNum - 1
  BY <1>1, SectorIn DEF Sectors
<1>3. Sector(m + (e + 1)) = Sector(a[1] - e - 1 + (e + 1))
  BY <1>1, SectorAdd
<1> HIDE DEF m
<1>4. Sector(e + 1 + m) = a[1]
  <2>1. a[1] - e - 1 + (e + 1) = a[1] /\ m + (e + 1) = e + 1 + m
    BY <1>1, <1>2
  <2> QED
    BY <1>1, <1>3, <2>1
<1>5. m # SectorNum - 1
  <2> SUFFICES ASSUME m = SectorNum - 1 PROVE FALSE
    OBVIOUS
  <2>1. e + 1 + m = e + 1 * SectorNum
    BY <1>1, Sizes
  <2>2. Sector(e + 1 * SectorNum) = Sector(e)
    BY <1>1, SectorTurn
  <2> QED
    BY <1>1, <1>4, <2>1, <2>2
<1> DEFINE p == Items * m + a[2]
<1>6. Place(e, p) = <<Sector(e + 1 + m), a[2]>>
  BY <1>1, <1>2, PlaceAt
<1>7. p \in 1 .. Capacity
  <2>1. Items * m \in Int /\ Items * m >= 0
    BY <1>2, Sizes, Distribute
  <2>2. Items * (SectorNum - 1) = Items * m + Items * (SectorNum - 1 - m)
    BY <1>2, Sizes, Distribute
  <2>3. Items * (SectorNum - 1 - m) >= Items
    BY <1>2, <1>5, Sizes
  <2>4. Items * (SectorNum - 1 - m) \in Int
    BY <1>2, Sizes, Distribute
  <2> QED
    BY <1>1, <2>1, <2>2, <2>3, <2>4, Sizes, CapacityIs
<1> QED
  BY <1>1, <1>4, <1>6, <1>7

(* The free position when c - 1 items were written.                        *)
Spot(e, c) == IF c <= Capacity THEN Place(e, c) ELSE <<Sector(e - 1), Items + 1>>

LEMMA SpotAddress ==
  ASSUME NEW e \in Sectors, NEW c \in 1 .. Capacity + 1
  PROVE  Spot(e, c) \in Addresses <=> c <= Capacity
<1>1. c <= Capacity => Spot(e, c) \in Addresses
  BY PlaceOutside, CapacityIs DEF Spot
<1>2. <<Sector(e - 1), Items + 1>> \notin Addresses
  BY Sizes DEF Addresses
<1> QED
  BY <1>1, <1>2 DEF Spot

LEMMA LastPlace ==
  ASSUME NEW e \in Sectors
  PROVE  Row(Capacity) = SectorNum - 2 /\ Column(Capacity) = Items
         /\ Place(e, Capacity) = <<Sector(e - 1), Items>>
<1>1. Capacity = Items * (SectorNum - 2) + Items /\ SectorNum - 2 \in Int /\ Items \in 1 .. Items
  <2>1. Items * (SectorNum - 1) = Items * (SectorNum - 2) + Items * 1 /\ Items * (SectorNum - 2) \in Int
    <3>1. SectorNum - 1 = (SectorNum - 2) + 1
      BY Sizes
    <3> QED
      BY <3>1, Sizes, Distribute
  <2> QED
    BY <2>1, Sizes, CapacityIs
<1>2. Row(Capacity) = SectorNum - 2 /\ Column(Capacity) = Items
  BY <1>1, CapacityIs, RowColumnIs
<1>3. Sector(e + 1 + (SectorNum - 2)) = Sector(e - 1)
  <2>1. e + 1 + (SectorNum - 2) = (e - 1) + 1 * SectorNum /\ e - 1 \in Int
    BY Sizes DEF Sectors
  <2> QED
    BY <2>1, SectorTurn
<1> QED
  BY <1>2, <1>3 DEF Place

LEMMA SpotNext ==
  ASSUME ex \in Sectors, NEW c \in 1 .. Capacity, free = Spot(ex, c)
  PROVE  NextFree = Spot(ex, c + 1)
<1>1. free = Place(ex, c) /\ c \in Int /\ ex \in Int
  BY CapacityIs DEF Spot, Sectors
<1>2. After(free) = Place(ex, c + 1)
  BY <1>1, PlaceAfter
<1>3. Row(c) \in 0 .. SectorNum - 2 /\ Column(c) \in 1 .. Items /\ c = Items * Row(c) + Column(c)
      /\ free[1] = Sector(ex + 1 + Row(c)) /\ free[2] = Column(c)
  BY <1>1, RowBound, RowColumn DEF Place
<1>4. CASE c = Capacity
  <2>1. free = <<Sector(ex - 1), Items>>
    BY <1>1, <1>4, LastPlace
  <2>2. Sector(free[1] + 1) = ex
    <3>1. Sector(Sector(ex - 1) + 1) = Sector(ex - 1 + 1) /\ ex - 1 + 1 = ex
      BY <1>1, SectorAdd
    <3> QED
      BY <2>1, <3>1, SectorIs
  <2>3. ~ c + 1 <= Capacity
    BY <1>1, <1>4
  <2> QED
    BY <2>1, <2>2, <2>3 DEF NextFree, Spot
<1>5. CASE c < Capacity
  <2>1. c + 1 <= Capacity /\ c + 1 \in 1 .. Capacity
    BY <1>5, CapacityIs
  <2>2. ~ (free[2] = Items /\ Sector(free[1] + 1) = ex)
    <3> SUFFICES ASSUME free[2] = Items, Sector(free[1] + 1) = ex PROVE FALSE
      OBVIOUS
    <3>1. ~ free[2] < Items
      BY Sizes
    <3>2. After(free) = <<ex, 1>>
      BY <3>1 DEF After
    <3>3. Place(ex, c + 1)[1] # ex
      BY <2>1, PlaceOutside
    <3> QED
      BY <1>2, <3>2, <3>3
  <2> QED
    BY <1>2, <2>1, <2>2 DEF NextFree, Spot
<1> QED
  BY <1>4, <1>5, CapacityIs

(* hal_fs_get_free_size.                                                   *)
LEMMA FreeSizeIs ==
  ASSUME ex \in Sectors, NEW c \in 1 .. Capacity + 1, free = Spot(ex, c)
  PROVE  FreeSize = DataLen * (Capacity + 1 - c)
<1>0. Capacity \in Nat /\ c \in Int /\ ex \in Int
  BY CapacityIs DEF Sectors
<1>1. CASE c = Capacity + 1
  <2>1. free[2] > Items /\ Capacity + 1 - c = 0
    BY <1>0, <1>1, Sizes DEF Spot
  <2>2. DataLen * 0 = 0
    BY Sizes
  <2> QED
    BY <2>1, <2>2 DEF FreeSize
<1>2. CASE c <= Capacity
  <2>1. /\ Row(c) \in 0 .. SectorNum - 2 /\ Column(c) \in 1 .. Items /\ c = Items * Row(c) + Column(c)
        /\ free[1] = Sector(ex + 1 + Row(c)) /\ free[2] = Column(c)
    BY <1>0, <1>2, RowBound, RowColumn DEF Place, Spot
  <2>2. PICK q \in Int : ex + 1 + Row(c) = SectorNum * q + free[1] /\ free[1] \in Int
    BY <1>0, <2>1, SectorPart
  <2>3. Sector(ex - free[1] - 1) = SectorNum - 2 - Row(c)
    <3>1. ex - free[1] - 1 = (SectorNum - 2 - Row(c)) + (q - 1) * SectorNum
      <4>1. (q - 1) * SectorNum = SectorNum * (q - 1) /\ SectorNum * (q - 1) = SectorNum * q - SectorNum * 1
            /\ SectorNum * q \in Int
        BY <2>2, Sizes, Distribute
      <4> QED
        BY <1>0, <2>1, <2>2, <4>1, Sizes
    <3>2. SectorNum - 2 - Row(c) \in Sectors
      BY <2>1, Sizes DEF Sectors
    <3>3. SectorNum - 2 - Row(c) \in Int /\ q - 1 \in Int
      BY <2>1, <2>2, Sizes
    <3> QED
      BY <3>1, <3>2, <3>3, SectorTurn, SectorIs
  <2>4. (SectorNum - 2 - Row(c)) * Items + Items + 1 - Column(c) = Capacity + 1 - c
    <3>1. (SectorNum - 2 - Row(c)) * Items = Items * (SectorNum - 2 - Row(c))
      BY <2>1, Sizes
    <3>2. Items * ((SectorNum - 1) - (1 + Row(c))) = Items * (SectorNum - 1) - Items * (1 + Row(c))
      BY <2>1, Sizes, Distribute
    <3>3. Items * (1 + Row(c)) = Items * 1 + Items * Row(c) /\ Items * Row(c) \in Int
      BY <2>1, Sizes, Distribute
    <3>4. SectorNum - 2 - Row(c) = (SectorNum - 1) - (1 + Row(c))
      BY <2>1, Sizes
    <3>5. (SectorNum - 2 - Row(c)) * Items = Capacity - (Items + Items * Row(c))
      BY <3>1, <3>2, <3>3, <3>4, CapacityIs, Sizes
    <3> HIDE <1>2
    <3> QED
      BY <1>0, <2>1, <3>3, <3>5, Sizes
  <2>5. ~ free[2] > Items
    BY <2>1, Sizes
  <2> QED
    BY <2>1, <2>3, <2>4, <2>5 DEF FreeSize
<1> QED
  BY <1>0, <1>1, <1>2

-----------------------------------------------------------------------------
(* A zone z of which c - 1 items were written: the files stand in it one   *)
(* behind the other.  The first frame of a long file is followed by its    *)
(* other frames, which have its property and its id, and each of these     *)
(* has such a first frame before it.                                       *)

Zone(e) == [p \in 1 .. Capacity |-> item[Place(e, p)]]

Continues(i1) == i1.frame \in {MF_C, MF_E}

Written(i1) ==
  /\ i1 \in Item /\ i1.pro \in {USED, DELETED}
  /\ i1.frame = SF => Frames(i1.len) = 1
  /\ i1.frame = MF_F => i1.len > 0 /\ Frames(i1.len) >= 2

Linear(z, c) == \A p \in 1 .. Capacity : IF p < c THEN Written(z[p]) ELSE z[p] = FreeItem

Tiled(z, c) ==
  \A h \in 1 .. c - 1 : z[h].frame = MF_F =>
     /\ h + Frames(z[h].len) <= c
     /\ \A j \in h + 1 .. h + Frames(z[h].len) - 1 :
          Continues(z[j]) /\ z[j].pro = z[h].pro /\ z[j].id = z[h].id

Covered(z, c) ==
  \A p \in 1 .. c - 1 : Continues(z[p]) =>
     \E h \in 1 .. p - 1 : z[h].frame = MF_F /\ p < h + Frames(z[h].len)

Sound(z, c) == c \in 1 .. Capacity + 1 /\ Linear(z, c) /\ Tiled(z, c) /\ Covered(z, c)

LEMMA FrameCases ==
  \A i1 \in Item : /\ i1.frame = SF \/ i1.frame = MF_F \/ Continues(i1)
                   /\ ~ (i1.frame = SF /\ i1.frame = MF_F)
                   /\ ~ (i1.frame = MF_F /\ Continues(i1)) /\ ~ (i1.frame = SF /\ Continues(i1))
BY DEF Item, Continues, SF, MF_F, MF_C, MF_E

LEMMA SkipBounds ==
  ASSUME Zoned, NEW p \in 1 .. Capacity
  PROVE  /\ Skip(p) \in Nat /\ Skip(p) > p
         /\ item[Place(ex, p)].frame # MF_F => Skip(p) = p + 1
         /\ item[Place(ex, p)].frame = MF_F /\ item[Place(ex, p)].len > 0
              => Skip(p) <= p + Frames(item[Place(ex, p)].len)
<1> DEFINE i1 == item[Addr(p)]
           frames == IF i1.frame = MF_F /\ i1.len > 0 THEN Frames(i1.len) ELSE 1
           room == Items - ((p - 1) % Items)
           over == IF room = 1 THEN frames ELSE frames - room
<1>0. Addr(p) = Place(ex, p) /\ p \in Nat
  BY CapacityIs DEF Addr, Place, Row, Column
<1>1. i1 \in Item
  BY <1>0, AddrIn DEF Zoned
<1>2. i1.len \in Nat
  BY <1>1, Fields
<1>3. frames \in Nat /\ frames >= 1
  BY <1>2, FramesOf
<1>4. Items \in Nat
  BY Sizes
<1>5. Skip(p) = IF frames < room \/ over < Items THEN p + frames
                ELSE IF frames > Items THEN p + frames - Items ELSE p + 1
  BY DEF Skip
<1>6. i1.frame # MF_F => frames = 1
  OBVIOUS
<1>7. i1.frame = MF_F /\ i1.len > 0 => frames = Frames(i1.len)
  OBVIOUS
<1>8. frames = 1 => Skip(p) = p + 1
  <2> HIDE DEF frames, over, room
  <2> QED
    BY <1>0, <1>3, <1>4, <1>5, Sizes
<1>9. Skip(p) <= p + frames
  <2> HIDE DEF frames, over, room
  <2> QED
    BY <1>0, <1>3, <1>4, <1>5
<1> HIDE DEF i1, frames
<1> QED
  BY <1>0, <1>6, <1>7, <1>8, <1>9, SkipUp DEF i1

(* The search stays within what was written.                               *)
LEMMA SearchInside ==
  ASSUME Zoned, NEW c, Sound(Zone(ex), c)
  PROVE  Visited \subseteq 1 .. c
<1> DEFINE z == Zone(ex)
<1>0. c \in 1 .. Capacity + 1 /\ Capacity \in Nat /\ c \in Nat
  BY CapacityIs DEF Sound
<1>1. ASSUME NEW p \in (1 .. c) \cap Nat, p <= Capacity, item[Addr(p)].pro # UNUSED
      PROVE  Skip(p) \in 1 .. c
  <2>1. p \in 1 .. Capacity /\ Addr(p) = Place(ex, p) /\ z[p] = item[Place(ex, p)]
    BY <1>0, <1>1 DEF Addr, Place, Row, Column, Zone
  <2> HIDE DEF z
  <2>2. p < c /\ Written(z[p])
    BY <1>0, <1>1, <2>1 DEF Sound, Linear, FreeItem, z
  <2>3. z[p].frame = MF_F => p + Frames(z[p].len) <= c /\ z[p].len > 0
    BY <1>0, <2>1, <2>2 DEF Sound, Tiled, Written, z
  <2>4. /\ Skip(p) \in Nat /\ Skip(p) > p
        /\ z[p].frame # MF_F => Skip(p) = p + 1
        /\ z[p].frame = MF_F /\ z[p].len > 0 => Skip(p) <= p + Frames(z[p].len)
    BY <2>1, SkipBounds
  <2>5. z[p] \in Item
    BY <2>2 DEF Written
  <2>6. Frames(z[p].len) \in Nat
    BY <2>5, Fields, FramesOf
  <2> QED
    BY <1>0, <2>1, <2>2, <2>3, <2>4, <2>6
<1>2. 1 \in 1 .. c
  BY <1>0
<1> QED
  BY <1>1, <1>2, VisitedLeast

(* It reads the first frame of every file, and the end.                    *)
LEMMA SearchHeads ==
  ASSUME Zoned, NEW c, Sound(Zone(ex), c), NEW q \in 1 .. c, q <= Capacity,
         q = c \/ ~ Continues(Zone(ex)[q])
  PROVE  q \in Visited
<1> DEFINE z == Zone(ex)
           Stop(x) == x <= Capacity /\ (x = c \/ ~ Continues(z[x]))
           T == {x \in 1 .. c : Stop(x) /\ x \notin Visited}
<1>0. c \in 1 .. Capacity + 1 /\ Capacity \in Nat /\ c \in Nat
  BY CapacityIs DEF Sound
<1> SUFFICES ASSUME T # {} PROVE FALSE
  OBVIOUS
<1>1. PICK y \in T : \A x \in T : y <= x
  <2>1. T \in SUBSET Nat
    BY <1>0
  <2> HIDE DEF T
  <2> QED
    BY <2>1, Least
<1>2. y \in 1 .. c /\ y <= Capacity /\ Stop(y) /\ y \notin Visited /\ y > 1
  <2>1. 1 \in Visited
    BY VisitedRange
  <2> QED
    BY <1>0, <1>1, <2>1
<1>3. \A p \in 1 .. c - 1 : /\ p \in 1 .. Capacity /\ Written(z[p]) /\ z[p] \in Item
                            /\ z[p] = item[Place(ex, p)] /\ z[p] = item[Addr(p)]
                            /\ Frames(z[p].len) \in Nat
  <2> TAKE p \in 1 .. c - 1
  <2>0. p \in 1 .. Capacity
    BY <1>0
  <2>1. p \in 1 .. Capacity /\ z[p] = item[Place(ex, p)] /\ Addr(p) = Place(ex, p)
    BY <2>0 DEF Zone, Addr, Place, Row, Column
  <2>2. Written(z[p])
    BY <1>0, <2>1 DEF Sound, Linear
  <2>3. z[p] \in Item
    BY <2>2 DEF Written
  <2> HIDE DEF z
  <2> QED
    BY <2>1, <2>2, <2>3, Fields, FramesOf
<1>4. /\ \A h \in 1 .. c - 1 : z[h].frame = MF_F =>
           /\ h + Frames(z[h].len) <= c /\ z[h].len > 0
           /\ \A j \in h + 1 .. h + Frames(z[h].len) - 1 : Continues(z[j])
      /\ \A p \in 1 .. c - 1 : Continues(z[p]) =>
           \E h \in 1 .. p - 1 : z[h].frame = MF_F /\ p < h + Frames(z[h].len)
  BY <1>3 DEF Sound, Tiled, Covered, Written
<1> HIDE DEF z
<1>5. PICK h \in 1 .. y - 1 : /\ ~ Continues(z[h])
                              /\ z[h].frame # MF_F => h = y - 1
                              /\ z[h].frame = MF_F => y = h + Frames(z[h].len)
  <2>1. y - 1 \in 1 .. c - 1
    BY <1>0, <1>2
  <2>2. CASE Continues(z[y - 1])
    <3>1. PICK h \in 1 .. y - 2 : z[h].frame = MF_F /\ y - 1 < h + Frames(z[h].len)
      BY <1>4, <2>1, <2>2
    <3>2. h \in 1 .. c - 1
      BY <1>0, <2>1, <3>1
    <3>3. ~ y < h + Frames(z[h].len)
      <4> SUFFICES ASSUME y < h + Frames(z[h].len) PROVE FALSE
        OBVIOUS
      <4>1. y \in h + 1 .. h + Frames(z[h].len) - 1
        BY <1>0, <1>2, <1>3, <3>1, <3>2
      <4>2. Continues(z[y]) /\ y < c
        BY <1>0, <1>2, <1>3, <1>4, <3>1, <3>2, <4>1
      <4> QED
        BY <1>0, <1>2, <4>2
    <3>4. y = h + Frames(z[h].len)
      BY <1>0, <1>2, <1>3, <3>1, <3>2, <3>3
    <3>5. ~ Continues(z[h])
      BY <1>3, <3>1, <3>2, FrameCases
    <3> QED
      BY <1>0, <1>2, <3>1, <3>4, <3>5
  <2>3. CASE ~ Continues(z[y - 1])
    <3>1. z[y - 1].frame = MF_F => y = (y - 1) + Frames(z[y - 1].len)
      <4> SUFFICES ASSUME z[y - 1].frame = MF_F PROVE y = (y - 1) + Frames(z[y - 1].len)
        OBVIOUS
      <4>1. Frames(z[y - 1].len) >= 2 /\ Frames(z[y - 1].len) \in Nat
        BY <1>3, <2>1 DEF Written
      <4>2. y \in (y - 1) + 1 .. (y - 1) + Frames(z[y - 1].len) - 1
        BY <1>0, <1>2, <4>1
      <4>3. Continues(z[y]) /\ y < c
        BY <1>0, <1>2, <1>4, <2>1, <4>1, <4>2
      <4> QED
        BY <1>0, <1>2, <4>3
    <3> QED
      BY <1>0, <1>2, <2>1, <2>3, <3>1
  <2> QED
    BY <2>2, <2>3
<1>6. h \in Visited
  <2>1. h \in 1 .. c /\ h <= Capacity /\ h < y
    BY <1>0, <1>2
  <2>2. h \notin T
    BY <1>0, <1>1, <2>1
  <2> QED
    BY <1>5, <2>1, <2>2
<1> DEFINE R == {k \in Nat : y - k \in Visited /\ h <= y - k /\ y - k < y}
<1>7. PICK k \in R : \A x \in R : k <= x
  <2>1. R \in SUBSET Nat
    OBVIOUS
  <2>2. y - h \in R
    <3>1. y - (y - h) = h /\ y - h \in Nat /\ h < y
      BY <1>0, <1>2
    <3> QED
      BY <1>6, <3>1
  <2> HIDE DEF R
  <2> QED
    BY <2>1, <2>2, Least
<1> DEFINE j == y - k
<1>8. j \in h .. y - 1 /\ j \in Visited /\ j \in 1 .. c - 1 /\ j \in Nat
  BY <1>0, <1>2, <1>7
<1>9. \A x \in Visited : ~ (j < x /\ x < y)
  <2> SUFFICES ASSUME NEW x \in Visited, j < x, x < y PROVE FALSE
    OBVIOUS
  <2>1. x \in Nat
    BY VisitedRange
  <2>2. y - x \in Nat /\ y - (y - x) = x /\ h <= x /\ y - x < k
    BY <1>0, <1>2, <1>7, <1>8, <2>1
  <2>3. y - x \in R /\ k \in Nat
    BY <1>7, <2>2
  <2> HIDE DEF R, j
  <2> QED
    BY <1>7, <2>2, <2>3
<1> HIDE DEF j, R, T, Stop
<1>10. Skip(j) \in Nat /\ Skip(j) > j /\ Skip(j) <= y
  <2>1. j \in 1 .. Capacity
    BY <1>3, <1>8
  <2>2. /\ Skip(j) \in Nat /\ Skip(j) > j
        /\ z[j].frame # MF_F => Skip(j) = j + 1
        /\ z[j].frame = MF_F /\ z[j].len > 0 => Skip(j) <= j + Frames(z[j].len)
    BY <1>3, <1>8, <2>1, SkipBounds
  <2>3. CASE z[j].frame # MF_F
    BY <1>0, <1>2, <1>8, <2>2, <2>3
  <2>4. CASE z[j].frame = MF_F
    <3>1. j = h
      <4> SUFFICES ASSUME j # h PROVE FALSE
        OBVIOUS
      <4>1. j \in h + 1 .. y - 1 /\ h \in 1 .. c - 1
        BY <1>0, <1>2, <1>8
      <4>2. z[h].frame = MF_F
        BY <1>0, <1>2, <1>5, <4>1
      <4>3. Continues(z[j])
        <5>1. j \in h + 1 .. h + Frames(z[h].len) - 1
          <6>0. y = h + Frames(z[h].len)
            BY <1>5, <4>2
          <6>1. Frames(z[h].len) \in Nat /\ y \in Int /\ h \in Int
            BY <1>0, <1>2, <1>3, <4>1
          <6> HIDE DEF z
          <6> QED
            BY <4>1, <6>0, <6>1
        <5> QED
          BY <1>4, <4>1, <4>2, <5>1
      <4> QED
        BY <1>3, <1>8, <2>4, <4>3, FrameCases
    <3> QED
      BY <1>4, <1>5, <1>8, <2>2, <2>4, <3>1
  <2> QED
    BY <2>2, <2>3, <2>4
<1>11. Skip(j) \in Visited
  <2>1. Skip(j) <= Capacity
    BY <1>0, <1>2, <1>10
  <2>2. item[Addr(j)].pro # UNUSED
    BY <1>3, <1>8 DEF Written, UNUSED, USED, DELETED
  <2> QED
    BY <1>8, <2>1, <2>2, VisitedClosed
<1> QED
  BY <1>0, <1>2, <1>9, <1>10, <1>11

LEMMA ZoneItem ==
  ASSUME NEW p \in 1 .. Capacity
  PROVE  Zone(ex)[p] = item[Place(ex, p)] /\ Addr(p) = Place(ex, p) /\ p \in Nat
BY CapacityIs DEF Zone, Addr, Place, Row, Column

(* fs_init and hal_fs_garbage_collect find the first item not written.     *)
LEMMA FrontierIs ==
  ASSUME Zoned, NEW c, Sound(Zone(ex), c)
  PROVE  Frontier = Spot(ex, c)
<1>0. c \in 1 .. Capacity + 1 /\ Capacity \in Nat /\ c \in Nat
  BY CapacityIs DEF Sound
<1>1. ASSUME NEW p \in FreeItems PROVE p = c /\ c <= Capacity
  <2>1. p \in Visited /\ item[Addr(p)].pro = UNUSED
    BY DEF FreeItems
  <2>2. p \in 1 .. c /\ p \in 1 .. Capacity
    BY <2>1, SearchInside, VisitedRange
  <2>3. Zone(ex)[p].pro = UNUSED
    BY <2>1, <2>2, ZoneItem
  <2>4. ~ p < c
    <3>1. p < c => Written(Zone(ex)[p])
      BY <2>2 DEF Sound, Linear
    <3> QED
      BY <2>3, <3>1 DEF Written, UNUSED, USED, DELETED
  <2> QED
    BY <1>0, <2>2, <2>4
<1>2. CASE c <= Capacity
  <2>1. c \in 1 .. c /\ c \in 1 .. Capacity
    BY <1>0, <1>2
  <2>2. c \in Visited
    BY <1>2, <2>1, SearchHeads
  <2>3. Zone(ex)[c] = FreeItem
    <3>1. ~ c < c
      BY <1>0
    <3> QED
      BY <2>1, <3>1 DEF Sound, Linear
  <2>4. item[Addr(c)].pro = UNUSED /\ Addr(c) = Place(ex, c)
    BY <2>1, <2>3, ZoneItem DEF FreeItem
  <2>5. FreeItems = {c}
    <3>1. c \in FreeItems
      BY <2>2, <2>4 DEF FreeItems
    <3> QED
      BY <1>1, <3>1
  <2>6. Frontier = Addr(CHOOSE p \in {c} : TRUE)
    BY <2>5 DEF Frontier
  <2>7. (CHOOSE p \in {c} : TRUE) = c
    OBVIOUS
  <2> QED
    BY <1>2, <2>4, <2>6, <2>7 DEF Spot
<1>3. CASE ~ c <= Capacity
  <2>1. FreeItems = {}
    BY <1>1, <1>3
  <2> QED
    BY <1>3, <2>1 DEF Frontier, Spot
<1> QED
  BY <1>2, <1>3

(* A search for an id ends at the first frame of a file.                   *)
LEMMA LocatesHead ==
  ASSUME Zoned, NEW c, Sound(Zone(ex), c), NEW id, NEW p \in Located(id)
  PROVE  p \in 1 .. c - 1 /\ p \in 1 .. Capacity /\ ~ Continues(Zone(ex)[p])
<1> DEFINE z == Zone(ex)
<1>0. c \in 1 .. Capacity + 1 /\ Capacity \in Nat /\ c \in Nat
  BY CapacityIs DEF Sound
<1>1. /\ p \in Visited /\ item[Addr(p)].pro = USED /\ item[Addr(p)].id = id
      /\ \A q \in Visited : item[Addr(q)].pro = USED /\ item[Addr(q)].id = id => p <= q
  BY DEF Located
<1>2. p \in 1 .. c /\ p \in 1 .. Capacity
  BY <1>1, SearchInside, VisitedRange
<1>3. z[p].pro = USED /\ z[p].id = id
  BY <1>1, <1>2, ZoneItem
<1>4. p \in 1 .. c - 1
  <2>1. ~ p < c => z[p] = FreeItem
    BY <1>2 DEF Sound, Linear
  <2>2. FreeItem.pro # USED
    BY DEF FreeItem, UNUSED, USED
  <2> HIDE DEF z
  <2> QED
    BY <1>0, <1>2, <1>3, <2>1, <2>2
<1>5. ASSUME Continues(z[p]) PROVE FALSE
  <2>1. PICK h \in 1 .. p - 1 : z[h].frame = MF_F /\ p < h + Frames(z[h].len)
    BY <1>4, <1>5 DEF Sound, Covered
  <2>2. h \in 1 .. c - 1 /\ h \in 1 .. c /\ h \in 1 .. Capacity /\ h < p
    BY <1>0, <1>4
  <2>3. Written(z[h]) /\ z[h] \in Item
    BY <2>2 DEF Sound, Linear, Written
  <2>4. Frames(z[h].len) \in Nat
    <3> HIDE DEF z
    <3> QED
      BY <2>3, Fields, FramesOf
  <2>5. p \in h + 1 .. h + Frames(z[h].len) - 1
    <3> HIDE DEF z
    <3> QED
      BY <1>0, <1>4, <2>1, <2>2, <2>4
  <2>6. z[p].pro = z[h].pro /\ z[p].id = z[h].id
    BY <2>1, <2>2, <2>5 DEF Sound, Tiled
  <2>7. h \in Visited
    BY <2>1, <2>2, <2>3, FrameCases, SearchHeads
  <2>8. p <= h
    BY <1>1, <1>3, <2>2, <2>6, <2>7, ZoneItem
  <2> QED
    BY <1>0, <1>4, <2>2, <2>8
<1> QED
  BY <1>2, <1>4, <1>5

-----------------------------------------------------------------------------
(* What the calls make of a zone.                                          *)

Zones == [1 .. Capacity -> Item]

LEMMA FreshSound ==
  ASSUME NEW z, \A p \in 1 .. Capacity : z[p] = FreeItem
  PROVE  Sound(z, 1)
<1>1. 1 \in 1 .. Capacity + 1
  BY CapacityIs
<1>2. \A p \in 1 .. Capacity : ~ p < 1
  BY CapacityIs
<1>3. 1 .. 1 - 1 = {}
  OBVIOUS
<1> QED
  BY <1>1, <1>2, <1>3 DEF Sound, Linear, Tiled, Covered

(* The zone when k frames from m on are marked deleted.                    *)
Marked(z, m, k) ==
  [p \in 1 .. Capacity |-> IF p \in m .. m + k - 1 THEN [z[p] EXCEPT !.pro = DELETED] ELSE z[p]]

LEMMA MarkedSound ==
  ASSUME NEW z, NEW c, Sound(z, c), NEW m \in 1 .. c - 1, ~ Continues(z[m]),
         NEW n, n = Frames(z[m].len)
  PROVE  m + n <= c /\ Sound(Marked(z, m, n), c)
<1> DEFINE y == Marked(z, m, n)
<1>0. c \in 1 .. Capacity + 1 /\ Capacity \in Nat /\ c \in Nat /\ m \in Nat /\ m >= 1 /\ m < c
  BY CapacityIs DEF Sound
<1>1. \A p \in 1 .. c - 1 : p \in 1 .. Capacity /\ Written(z[p]) /\ z[p] \in Item /\ Frames(z[p].len) \in Nat
  <2> TAKE p \in 1 .. c - 1
  <2>0. p \in 1 .. Capacity
    BY <1>0
  <2>1. Written(z[p]) /\ z[p] \in Item
    BY <1>0, <2>0 DEF Sound, Linear, Written
  <2> QED
    BY <2>0, <2>1, Fields, FramesOf
<1>2. \A p \in 1 .. Capacity : z[p] \in Item
  <2>1. FreeItem \in Item
    BY Fields DEF FreeItem, Item, UNUSED, SF, Data
  <2> QED
    BY <1>0, <1>1, <2>1 DEF Sound, Linear
<1>3. \A h \in 1 .. c - 1 : z[h].frame = MF_F =>
           /\ h + Frames(z[h].len) <= c
           /\ \A j \in h + 1 .. h + Frames(z[h].len) - 1 :
                Continues(z[j]) /\ z[j].pro = z[h].pro /\ z[j].id = z[h].id
  BY DEF Sound, Tiled
<1>4. n \in Nat /\ m + n <= c
  <2>1. CASE z[m].frame = SF
    <3>1. n = 1
      BY <1>1, <2>1 DEF Written
    <3> QED
      BY <1>0, <3>1
  <2>2. CASE z[m].frame = MF_F
    BY <1>1, <1>3, <2>2
  <2> QED
    BY <1>1, <2>1, <2>2, FrameCases
<1>5. \A p \in 1 .. Capacity :
        /\ y[p].frame = z[p].frame /\ y[p].len = z[p].len /\ y[p].id = z[p].id
        /\ p \in m .. m + n - 1 => y[p].pro = DELETED
        /\ p \notin m .. m + n - 1 => y[p] = z[p]
        /\ y[p] \in Item
  <2> TAKE p \in 1 .. Capacity
  <2>1. z[p] \in Item
    BY <1>2
  <2>2. y[p] = IF p \in m .. m + n - 1 THEN [z[p] EXCEPT !.pro = DELETED] ELSE z[p]
    BY DEF Marked
  <2> HIDE DEF y
  <2> QED
    BY <2>1, <2>2 DEF Item, DELETED
<1> HIDE DEF y
<1>6. Linear(y, c)
  <2> SUFFICES ASSUME NEW p \in 1 .. Capacity PROVE IF p < c THEN Written(y[p]) ELSE y[p] = FreeItem
    BY DEF Linear
  <2>1. CASE p < c
    <3>1. Written(z[p])
      BY <1>0, <1>1, <2>1
    <3> QED
      BY <1>5, <2>1, <3>1 DEF Written
  <2>2. CASE ~ p < c
    <3>1. p \notin m .. m + n - 1
      BY <1>0, <1>4, <2>2
    <3> QED
      BY <1>5, <2>2, <3>1 DEF Sound, Linear
  <2> QED
    BY <2>1, <2>2
<1>7. Tiled(y, c)
  <2> SUFFICES ASSUME NEW h \in 1 .. c - 1, y[h].frame = MF_F
               PROVE  /\ h + Frames(y[h].len) <= c
                      /\ \A j \in h + 1 .. h + Frames(y[h].len) - 1 :
                           Continues(y[j]) /\ y[j].pro = y[h].pro /\ y[j].id = y[h].id
    BY DEF Tiled
  <2> DEFINE k == Frames(z[h].len)
  <2>1. z[h].frame = MF_F /\ y[h].len = z[h].len /\ h \in 1 .. Capacity /\ k \in Nat
    BY <1>1, <1>5
  <2>2. /\ h + k <= c
        /\ \A j \in h + 1 .. h + k - 1 : Continues(z[j]) /\ z[j].pro = z[h].pro /\ z[j].id = z[h].id
    BY <1>3, <2>1
  <2> HIDE DEF k
  <2>3. h = m => k = n
    BY DEF k
  <2>4. h < m => h + k <= m
    <3> SUFFICES ASSUME h < m, m < h + k PROVE FALSE
      BY <1>0, <2>1
    <3>1. m \in h + 1 .. h + k - 1
      BY <1>0, <2>1
    <3> QED
      BY <2>2, <3>1
  <2>5. h > m => m + n <= h
    <3> SUFFICES ASSUME h > m, h < m + n PROVE FALSE
      BY <1>0, <1>4, <2>1
    <3>1. h \in m + 1 .. m + n - 1
      BY <1>0, <1>4, <2>1
    <3>2. z[m].frame = MF_F
      <4>1. n # 1
        BY <1>0, <2>1, <3>1
      <4> QED
        BY <1>1, <4>1, FrameCases DEF Written
    <3>3. Continues(z[h])
      BY <1>3, <3>1, <3>2
    <3> QED
      BY <1>1, <2>1, <3>3, FrameCases
  <2>6. ASSUME NEW j \in h + 1 .. h + k - 1
        PROVE  Continues(y[j]) /\ y[j].pro = y[h].pro /\ y[j].id = y[h].id
    <3>1. j \in 1 .. Capacity
      BY <1>0, <2>1, <2>2
    <3>2. Continues(z[j]) /\ z[j].pro = z[h].pro /\ z[j].id = z[h].id
      BY <2>2
    <3>3. j \in m .. m + n - 1 <=> h \in m .. m + n - 1
      BY <1>0, <1>4, <2>1, <2>3, <2>4, <2>5
    <3> QED
      BY <1>5, <2>1, <3>1, <3>2, <3>3 DEF Continues
  <2> QED
    BY <2>1, <2>2, <2>6 DEF k
<1>8. Covered(y, c)
  <2> SUFFICES ASSUME NEW p \in 1 .. c - 1, Continues(y[p])
               PROVE  \E h \in 1 .. p - 1 : y[h].frame = MF_F /\ p < h + Frames(y[h].len)
    BY DEF Covered
  <2>1. Continues(z[p])
    BY <1>1, <1>5 DEF Continues
  <2>2. PICK h \in 1 .. p - 1 : z[h].frame = MF_F /\ p < h + Frames(z[h].len)
    BY <2>1 DEF Sound, Covered
  <2>3. h \in 1 .. Capacity
    BY <1>0
  <2> QED
    BY <1>5, <2>2, <2>3
<1> QED
  BY <1>0, <1>4, <1>6, <1>7, <1>8 DEF Sound, y

(* The zone when the frames from k on of the running write are put at c.   *)
Filled(z, c, k) ==
  [p \in 1 .. Capacity |-> IF p \in c .. c + Frames(call.len) - k THEN Frame(k + p - c) ELSE z[p]]

LEMMA FrameWritten ==
  ASSUME TypeInv, FileCalled, NEW k \in 1 .. Frames(call.len)
  PROVE  /\ Written(Frame(k)) /\ Frame(k).pro = USED /\ Frame(k).id = call.id /\ Frame(k).len = call.len
         /\ k = 1 => ~ Continues(Frame(k)) /\ (Frame(k).frame = MF_F <=> Frames(call.len) > 1)
         /\ k > 1 => Continues(Frame(k))
<1>1. PICK f \in Files : call.id = f.id /\ call.len = f.len /\ call.val = f.val
  BY DEF FileCalled
<1>2. /\ f.id \in 1 .. IdMax - 1 /\ f.len \in 1 .. LenMax /\ f.val \in Nat
      /\ Frames(f.len) < 2 * Items
  BY FsAssumption
<1>3. f.len \in Nat /\ f.len > 0
  BY <1>2, Fields
<1>4. Frames(call.len) \in Nat /\ Frames(call.len) >= 1 /\ Frames(call.len) < 2 * Items
  BY <1>1, <1>2, <1>3, FramesOf
<1>5. k \in 1 .. 2 * Items
  BY <1>4, Sizes
<1>6. <<call.val, k>> \in Data
  BY <1>1, <1>5 DEF Data
<1>7. FrameKind(k) \in 0 .. 3
  BY DEF FrameKind, SF, MF_F, MF_C, MF_E
<1>8. call.id \in 0 .. IdMax /\ call.len \in 0 .. LenMax
  BY <1>1, <1>2, Fields
<1>9. /\ Frame(k) \in Item /\ Frame(k).pro = USED /\ Frame(k).id = call.id /\ Frame(k).len = call.len
      /\ Frame(k).frame = FrameKind(k)
  BY <1>6, <1>7, <1>8 DEF Frame, Item, USED
<1>10. /\ Frames(call.len) = 1 => FrameKind(k) = SF /\ k = 1
       /\ Frames(call.len) > 1 /\ k = 1 => FrameKind(k) = MF_F
       /\ Frames(call.len) > 1 /\ k > 1 => FrameKind(k) \in {MF_C, MF_E}
  BY <1>4 DEF FrameKind
<1>11. SF # MF_F /\ SF \notin {MF_C, MF_E} /\ MF_F \notin {MF_C, MF_E}
  BY DEF SF, MF_F, MF_C, MF_E
<1>12. Written(Frame(k))
  BY <1>1, <1>3, <1>4, <1>9, <1>10, <1>11 DEF Written
<1> QED
  BY <1>4, <1>9, <1>10, <1>11, <1>12 DEF Continues

LEMMA FilledSound ==
  ASSUME TypeInv, FileCalled, NEW z, NEW c, Sound(z, c), c + Frames(call.len) <= Capacity + 1
  PROVE  Sound(Filled(z, c, 1), c + Frames(call.len))
<1> DEFINE y == Filled(z, c, 1)
           n == Frames(call.len)
           d == c + n
<1>0. c \in 1 .. Capacity + 1 /\ Capacity \in Nat /\ c \in Nat
  BY CapacityIs DEF Sound
<1>1. n \in Nat /\ n >= 1
  <2>1. PICK f \in Files : call.len = f.len
    BY DEF FileCalled
  <2>2. f.len \in Nat /\ f.len > 0
    BY FsAssumption, Fields
  <2> QED
    BY <2>1, <2>2, FramesOf
<1>2. \A p \in 1 .. Capacity : /\ p \in c .. c + n - 1 => y[p] = Frame(1 + p - c)
                               /\ p \notin c .. c + n - 1 => y[p] = z[p]
  BY DEF Filled
<1>3. c + n <= Capacity + 1
  OBVIOUS
<1>4. \A p \in c .. c + n - 1 :
        /\ p \in 1 .. Capacity /\ 1 + p - c \in 1 .. n
        /\ Written(y[p]) /\ y[p].pro = USED /\ y[p].id = call.id /\ Frames(y[p].len) = n
        /\ p = c => ~ Continues(y[p]) /\ (y[p].frame = MF_F <=> n > 1)
        /\ p > c => Continues(y[p])
  <2> TAKE p \in c .. c + n - 1
  <2> HIDE DEF y
  <2>1. p \in 1 .. Capacity /\ 1 + p - c \in 1 .. n /\ (p = c => 1 + p - c = 1) /\ (p > c => 1 + p - c > 1)
    BY <1>0, <1>1, <1>3
  <2>2. y[p] = Frame(1 + p - c)
    BY <1>2, <2>1
  <2>3. /\ Written(Frame(1 + p - c)) /\ Frame(1 + p - c).pro = USED /\ Frame(1 + p - c).id = call.id
        /\ Frame(1 + p - c).len = call.len
        /\ 1 + p - c = 1 => ~ Continues(Frame(1 + p - c)) /\ (Frame(1 + p - c).frame = MF_F <=> n > 1)
        /\ 1 + p - c > 1 => Continues(Frame(1 + p - c))
    BY <2>1, FrameWritten
  <2> QED
    BY <2>1, <2>2, <2>3
<1>d. d = c + n /\ d \in Nat
  BY <1>0, <1>1
<1> HIDE DEF y, n, d
<1>5. \A p \in 1 .. c - 1 : p \in 1 .. Capacity /\ y[p] = z[p] /\ Written(z[p]) /\ z[p] \in Item
                            /\ Frames(z[p].len) \in Nat
  <2> TAKE p \in 1 .. c - 1
  <2>1. p \in 1 .. Capacity /\ p \notin c .. c + n - 1 /\ p < c
    BY <1>0, <1>1
  <2>2. Written(z[p]) /\ z[p] \in Item
    BY <2>1 DEF Sound, Linear, Written
  <2> QED
    BY <1>2, <2>1, <2>2, Fields, FramesOf
<1>6. Linear(y, d)
  <2> SUFFICES ASSUME NEW p \in 1 .. Capacity PROVE IF p < d THEN Written(y[p]) ELSE y[p] = FreeItem
    BY DEF Linear
  <2>1. CASE p < c
    BY <1>0, <1>1, <1>d, <1>5, <2>1
  <2>2. CASE c <= p /\ p < c + n
    BY <1>0, <1>1, <1>d, <1>4, <2>2
  <2>3. CASE c + n <= p
    <3>1. p \notin c .. c + n - 1 /\ ~ p < c /\ ~ p < d
      BY <1>0, <1>1, <1>d, <2>3
    <3> QED
      BY <1>2, <3>1 DEF Sound, Linear
  <2> QED
    BY <1>0, <1>1, <1>d, <2>1, <2>2, <2>3
<1>7. Tiled(y, d)
  <2> SUFFICES ASSUME NEW h \in 1 .. d - 1, y[h].frame = MF_F
               PROVE  /\ h + Frames(y[h].len) <= d
                      /\ \A j \in h + 1 .. h + Frames(y[h].len) - 1 :
                           Continues(y[j]) /\ y[j].pro = y[h].pro /\ y[j].id = y[h].id
    BY DEF Tiled
  <2>1. CASE h < c
    <3>1. h \in 1 .. c - 1
      BY <1>0, <1>1, <1>d, <2>1
    <3>2. /\ h + Frames(z[h].len) <= c
          /\ \A j \in h + 1 .. h + Frames(z[h].len) - 1 :
               Continues(z[j]) /\ z[j].pro = z[h].pro /\ z[j].id = z[h].id
      BY <1>5, <3>1 DEF Sound, Tiled
    <3>3. Frames(y[h].len) = Frames(z[h].len) /\ Frames(z[h].len) \in Nat
      BY <1>5, <3>1
    <3>4. \A j \in h + 1 .. h + Frames(z[h].len) - 1 : j \in 1 .. c - 1
      BY <1>0, <3>1, <3>2, <3>3
    <3> QED
      BY <1>0, <1>1, <1>d, <1>5, <3>1, <3>2, <3>3, <3>4
  <2>2. CASE ~ h < c
    <3>1. h \in c .. c + n - 1
      BY <1>0, <1>1, <1>d, <2>2
    <3>2. h = c
      <4>1. y[h] \in Item
        BY <1>4, <3>1 DEF Written
      <4>2. ~ Continues(y[h])
        BY <4>1, FrameCases
      <4> QED
        BY <1>0, <1>1, <1>d, <1>4, <3>1, <4>2
    <3>3. Frames(y[h].len) = n
      BY <1>4, <3>1
    <3>4. ASSUME NEW j \in h + 1 .. h + n - 1
          PROVE  Continues(y[j]) /\ y[j].pro = y[h].pro /\ y[j].id = y[h].id
      <4>1. j \in c .. c + n - 1 /\ j > c
        BY <1>0, <1>1, <1>d, <3>2
      <4> QED
        BY <1>4, <3>1, <4>1
    <3> QED
      BY <1>0, <1>1, <1>d, <3>2, <3>3, <3>4
  <2> QED
    BY <2>1, <2>2
<1>8. Covered(y, d)
  <2> SUFFICES ASSUME NEW p \in 1 .. d - 1, Continues(y[p])
               PROVE  \E h \in 1 .. p - 1 : y[h].frame = MF_F /\ p < h + Frames(y[h].len)
    BY DEF Covered
  <2>1. CASE p < c
    <3>1. p \in 1 .. c - 1
      BY <1>0, <1>1, <1>d, <2>1
    <3>2. PICK h \in 1 .. p - 1 : z[h].frame = MF_F /\ p < h + Frames(z[h].len)
      BY <1>5, <3>1 DEF Sound, Covered
    <3>3. h \in 1 .. c - 1
      BY <1>0, <3>1
    <3> QED
      BY <1>5, <3>2, <3>3
  <2>2. CASE ~ p < c
    <3>1. p \in c .. c + n - 1
      BY <1>0, <1>1, <1>d, <2>2
    <3>2. p # c
      BY <1>4, <3>1
    <3>3. p > c /\ n > 1 /\ c \in 1 .. p - 1 /\ c \in c .. c + n - 1
      BY <1>0, <1>1, <1>d, <3>1, <3>2
    <3>4. y[c].frame = MF_F /\ Frames(y[c].len) = n
      BY <1>4, <3>3
    <3>5. p < c + Frames(y[c].len)
      BY <1>0, <1>1, <1>d, <3>1, <3>4
    <3> QED
      BY <3>3, <3>4, <3>5
  <2> QED
    BY <2>1, <2>2
<1>9. d \in 1 .. Capacity + 1
  BY <1>0, <1>1, <1>d, <1>3 DEF n
<1> QED
  BY <1>6, <1>7, <1>8, <1>9 DEF Sound, y, n, d

-----------------------------------------------------------------------------
(* What a collection makes of a zone: its used items, in their order.      *)

(* g counts the numbers of U, from the least to the greatest.              *)
Enumerates(g, m, U) ==
  /\ m \in Nat /\ g \in [1 .. m -> Nat]
  /\ \A i \in 1 .. m : g[i] \in U
  /\ \A i, j \in 1 .. m : i < j => g[i] < g[j]
  /\ \A p \in U : \E i \in 1 .. m : g[i] = p

LEMMA Enumerable ==
  \A N \in Nat : \A U \in SUBSET (1 .. N) : \E m \in 0 .. N : \E g : Enumerates(g, m, U)
<1> DEFINE S == {N \in Nat : \A U \in SUBSET (1 .. N) : \E m \in 0 .. N : \E g : Enumerates(g, m, U)}
<1>1. 0 \in S
  <2> SUFFICES ASSUME NEW U \in SUBSET (1 .. 0) PROVE \E m \in 0 .. 0 : \E g : Enumerates(g, m, U)
    OBVIOUS
  <2> DEFINE g == [i \in 1 .. 0 |-> 0]
  <2>1. U = {} /\ 1 .. 0 = {}
    OBVIOUS
  <2>2. Enumerates(g, 0, U)
    BY <2>1 DEF Enumerates
  <2> HIDE DEF g
  <2>3. 0 \in 0 .. 0
    OBVIOUS
  <2> QED
    BY <2>2, <2>3
<1>2. ASSUME NEW N \in Nat, N \in S PROVE N + 1 \in S
  <2> SUFFICES ASSUME NEW U \in SUBSET (1 .. N + 1)
               PROVE  \E m \in 0 .. N + 1 : \E g : Enumerates(g, m, U)
    OBVIOUS
  <2> DEFINE V == U \cap (1 .. N)
  <2>1. V \in SUBSET (1 .. N) /\ (N + 1 \notin U => U = V) /\ (N + 1 \in U => U = V \cup {N + 1})
    <3>1. \A p \in U : p \in 1 .. N \/ p = N + 1
      BY <1>2
    <3> QED
      BY <3>1
  <2>0. \A W \in SUBSET (1 .. N) : \E m \in 0 .. N : \E g : Enumerates(g, m, W)
    BY <1>2
  <2> HIDE DEF V
  <2>2. PICK m \in 0 .. N : \E g : Enumerates(g, m, V)
    BY <2>0, <2>1
  <2> USE DEF V
  <2>3. PICK g : Enumerates(g, m, V)
    BY <2>2
  <2>4. m \in 0 .. N + 1 /\ m \in Nat /\ m + 1 \in 0 .. N + 1
    BY <1>2
  <2> HIDE DEF S
  <2>5. CASE N + 1 \notin U
    BY <2>1, <2>3, <2>4, <2>5
  <2>6. CASE N + 1 \in U
    <3> DEFINE h == [i \in 1 .. m + 1 |-> IF i = m + 1 THEN N + 1 ELSE g[i]]
    <3>1. \A i \in 1 .. m : g[i] \in V /\ g[i] \in Nat /\ g[i] < N + 1
      BY <2>3 DEF Enumerates
    <3>2. U = V \cup {N + 1}
      BY <2>1, <2>6
    <3>3. /\ \A i \in 1 .. m : i \in 1 .. m + 1 /\ h[i] = g[i]
          /\ m + 1 \in 1 .. m + 1 /\ h[m + 1] = N + 1
          /\ \A i \in 1 .. m + 1 : i = m + 1 \/ i \in 1 .. m
      BY <2>4
    <3>4. h \in [1 .. m + 1 -> Nat]
      BY <2>4, <3>1
    <3> HIDE DEF h, V
    <3>5. \A i \in 1 .. m + 1 : h[i] \in U
      BY <3>1, <3>2, <3>3
    <3>6. ASSUME NEW i \in 1 .. m + 1, NEW j \in 1 .. m + 1, i < j PROVE h[i] < h[j]
      <4>1. i \in 1 .. m
        BY <2>4, <3>6
      <4>2. CASE j = m + 1
        BY <3>1, <3>3, <4>1, <4>2
      <4>3. CASE j \in 1 .. m
        BY <2>3, <3>3, <3>6, <4>1, <4>3 DEF Enumerates
      <4> QED
        BY <3>3, <4>2, <4>3
    <3>7. ASSUME NEW p \in U PROVE \E i \in 1 .. m + 1 : h[i] = p
      <4>1. CASE p \in V
        BY <2>3, <3>3, <4>1 DEF Enumerates
      <4> QED
        BY <3>2, <3>3, <4>1
    <3>8. Enumerates(h, m + 1, U)
      BY <2>4, <3>4, <3>5, <3>6, <3>7 DEF Enumerates
    <3> QED
      BY <2>4, <3>8
  <2> QED
    BY <2>5, <2>6
<1> HIDE DEF S
<1>3. Nat \subseteq S
  BY <1>1, <1>2, Induction
<1> QED
  BY <1>3 DEF S

(* Numbers of U in a row have numbers in a row.                            *)
LEMMA InARow ==
  ASSUME NEW U, NEW m, NEW g, Enumerates(g, m, U), NEW i \in 1 .. m
  PROVE  \A n \in Nat : (\A x \in g[i] .. g[i] + n : x \in U) => i + n \in 1 .. m /\ g[i + n] = g[i] + n
<1> DEFINE Row0(n) == (\A x \in g[i] .. g[i] + n : x \in U) => i + n \in 1 .. m /\ g[i + n] = g[i] + n
           T == {n \in Nat : ~ Row0(n)}
<1>0. m \in Nat /\ i \in Nat /\ g[i] \in Nat /\ \A j \in 1 .. m : g[j] \in Nat
  BY DEF Enumerates
<1> SUFFICES ASSUME T # {} PROVE FALSE
  OBVIOUS
<1>1. PICK n \in T : \A k \in T : n <= k
  <2>1. T \in SUBSET Nat
    OBVIOUS
  <2> HIDE DEF T
  <2> QED
    BY <2>1, Least
<1>2. n \in Nat /\ (\A x \in g[i] .. g[i] + n : x \in U) /\ ~ (i + n \in 1 .. m /\ g[i + n] = g[i] + n)
  BY <1>1
<1>3. n # 0
  BY <1>0, <1>2
<1>4. n - 1 \in Nat /\ n - 1 \notin T
  BY <1>1, <1>2, <1>3
<1>5. \A x \in g[i] .. g[i] + (n - 1) : x \in U
  BY <1>0, <1>2, <1>4
<1>6. i + (n - 1) \in 1 .. m /\ g[i + (n - 1)] = g[i] + (n - 1)
  BY <1>4, <1>5
<1> HIDE DEF T
<1>7. g[i] + n \in U
  <2>1. g[i] + n \in g[i] .. g[i] + n
    BY <1>0, <1>2
  <2> QED
    BY <1>2, <2>1
<1>8. PICK j \in 1 .. m : g[j] = g[i] + n
  BY <1>7 DEF Enumerates
<1>9. \A a, b \in 1 .. m : a < b => g[a] < g[b]
  BY DEF Enumerates
<1> DEFINE a == i + (n - 1)
<1>10. a \in 1 .. m /\ g[a] = g[i] + (n - 1)
  BY <1>6
<1>11. j > a
  <2>1. j # a
    BY <1>0, <1>2, <1>8, <1>10
  <2>2. ~ j < a
    <3> SUFFICES ASSUME j < a PROVE FALSE
      OBVIOUS
    <3>1. g[j] < g[a]
      BY <1>9, <1>10
    <3> HIDE DEF a
    <3> QED
      BY <1>0, <1>2, <1>8, <1>10, <3>1
  <2> HIDE DEF a
  <2> QED
    BY <1>0, <1>10, <2>1, <2>2
<1>12. j = a + 1
  <2> SUFFICES ASSUME j # a + 1 PROVE FALSE
    OBVIOUS
  <2> HIDE DEF a
  <2>1. a + 1 \in 1 .. m /\ a + 1 < j /\ a < a + 1
    BY <1>0, <1>10, <1>11
  <2>2. g[a] < g[a + 1] /\ g[a + 1] < g[j]
    BY <1>9, <1>10, <2>1
  <2> QED
    BY <1>0, <1>2, <1>8, <1>10, <2>1, <2>2
<1>13. j = i + n
  BY <1>0, <1>2, <1>12
<1> QED
  BY <1>2, <1>8, <1>13

(* F is z without its deleted items; g says where its n - 1 items were.    *)
Compacts(F, n, g, z, c) ==
  /\ Sound(F, n) /\ Enumerates(g, n - 1, {p \in 1 .. c - 1 : z[p].pro = USED})
  /\ \A i \in 1 .. n - 1 : F[i] = z[g[i]] /\ F[i].pro = USED

LEMMA CompactsOf ==
  ASSUME NEW z, NEW c, Sound(z, c)
  PROVE  \E F, g : \E n \in 1 .. c : Compacts(F, n, g, z, c)
<1> DEFINE U == {p \in 1 .. c - 1 : z[p].pro = USED}
<1>0. c \in 1 .. Capacity + 1 /\ Capacity \in Nat /\ c \in Nat /\ c - 1 \in Nat
  BY CapacityIs DEF Sound
<1>1. U \in SUBSET (1 .. c - 1)
  OBVIOUS
<1>2. PICK m \in 0 .. c - 1 : \E g : Enumerates(g, m, U)
  <2> HIDE DEF U
  <2> QED
    BY <1>0, <1>1, Enumerable
<1>3. PICK g : Enumerates(g, m, U)
  BY <1>2
<1> DEFINE F == [p \in 1 .. Capacity |-> IF p <= m THEN z[g[p]] ELSE FreeItem]
           n == m + 1
<1>4. n \in 1 .. c /\ n \in 1 .. Capacity + 1 /\ m \in Nat /\ n - 1 = m /\ n \in Nat /\ m <= Capacity
  BY <1>0
<1>5. \A i \in 1 .. m : /\ i \in 1 .. Capacity /\ F[i] = z[g[i]] /\ g[i] \in U /\ g[i] \in 1 .. c - 1
                        /\ z[g[i]].pro = USED /\ g[i] \in Nat
  <2> TAKE i \in 1 .. m
  <2>1. g[i] \in U /\ g[i] \in Nat
    BY <1>3 DEF Enumerates
  <2>2. i \in 1 .. Capacity /\ i <= m
    BY <1>0, <1>4
  <2>3. F[i] = z[g[i]]
    BY <2>2
  <2> QED
    BY <2>1, <2>2, <2>3
<1>6. \A p \in 1 .. c - 1 : p \in 1 .. Capacity /\ Written(z[p]) /\ z[p] \in Item /\ Frames(z[p].len) \in Nat
  <2> TAKE p \in 1 .. c - 1
  <2>0. p \in 1 .. Capacity
    BY <1>0
  <2>1. Written(z[p]) /\ z[p] \in Item
    BY <1>0, <2>0 DEF Sound, Linear, Written
  <2> QED
    BY <2>0, <2>1, Fields, FramesOf
<1>7. \A p \in 1 .. Capacity : ~ p < n => F[p] = FreeItem
  BY <1>4
<1>8. \A h \in 1 .. c - 1 : z[h].frame = MF_F =>
           /\ h + Frames(z[h].len) <= c
           /\ \A j \in h + 1 .. h + Frames(z[h].len) - 1 :
                Continues(z[j]) /\ z[j].pro = z[h].pro /\ z[j].id = z[h].id
  BY DEF Sound, Tiled
<1>9. \A p \in 1 .. c - 1 : p \in U <=> z[p].pro = USED
  OBVIOUS
<1>10. \A a, b \in 1 .. m : a < b => g[a] < g[b]
  BY <1>3 DEF Enumerates
<1>11. \A p \in U : \E i \in 1 .. m : g[i] = p
  BY <1>3 DEF Enumerates
<1> HIDE DEF F, U, n
(* The frames of a used file stay in a row.                                *)
<1>12. ASSUME NEW i \in 1 .. m, z[g[i]].frame = MF_F, NEW k \in Nat, k < Frames(z[g[i]].len)
       PROVE  i + k \in 1 .. m /\ g[i + k] = g[i] + k
  <2>1. \A x \in g[i] .. g[i] + k : x \in U
    <3> TAKE x \in g[i] .. g[i] + k
    <3>1. g[i] \in 1 .. c - 1 /\ g[i] \in Nat /\ z[g[i]].pro = USED /\ g[i] \in U
      BY <1>5
    <3>2. Frames(z[g[i]].len) \in Nat /\ g[i] + Frames(z[g[i]].len) <= c
      BY <1>6, <1>8, <1>12, <3>1
    <3>3. x \in 1 .. c - 1 /\ (x = g[i] \/ x \in g[i] + 1 .. g[i] + Frames(z[g[i]].len) - 1)
      BY <1>0, <1>12, <3>1, <3>2
    <3>4. z[x].pro = USED
      BY <1>8, <1>12, <3>1, <3>3
    <3> QED
      BY <1>9, <3>3, <3>4
  <2> QED
    BY <1>3, <2>1, InARow
<1>13. Linear(F, n)
  <2> SUFFICES ASSUME NEW p \in 1 .. Capacity PROVE IF p < n THEN Written(F[p]) ELSE F[p] = FreeItem
    BY DEF Linear
  <2>1. CASE p < n
    <3>1. p \in 1 .. m
      BY <1>4, <2>1 DEF n
    <3> QED
      BY <1>5, <1>6, <2>1, <3>1
  <2> QED
    BY <1>7, <2>1
<1>14. Tiled(F, n)
  <2> SUFFICES ASSUME NEW h \in 1 .. n - 1, F[h].frame = MF_F
               PROVE  /\ h + Frames(F[h].len) <= n
                      /\ \A j \in h + 1 .. h + Frames(F[h].len) - 1 :
                           Continues(F[j]) /\ F[j].pro = F[h].pro /\ F[j].id = F[h].id
    BY DEF Tiled
  <2> DEFINE y == g[h]
             k == Frames(z[y].len)
  <2>1. h \in 1 .. m /\ F[h] = z[y] /\ y \in 1 .. c - 1 /\ k \in Nat /\ z[y].frame = MF_F /\ k >= 2
        /\ z[y].pro = USED
    BY <1>4, <1>5, <1>6 DEF Written
  <2>2. k - 1 \in Nat /\ k - 1 < k
    BY <2>1
  <2>3. h + (k - 1) \in 1 .. m
    BY <1>12, <2>1, <2>2
  <2>4. h + k <= n
    BY <1>4, <2>1, <2>3
  <2>5. ASSUME NEW j \in h + 1 .. h + k - 1
        PROVE  Continues(F[j]) /\ F[j].pro = F[h].pro /\ F[j].id = F[h].id
    <3>1. j - h \in Nat /\ j - h < k /\ h + (j - h) = j /\ j - h >= 1
      BY <2>1
    <3>2. j \in 1 .. m /\ g[j] = y + (j - h)
      BY <1>12, <2>1, <3>1
    <3>3. y + (j - h) \in y + 1 .. y + k - 1
      BY <2>1, <3>1
    <3>4. Continues(z[g[j]]) /\ z[g[j]].pro = z[y].pro /\ z[g[j]].id = z[y].id
      BY <1>8, <2>1, <3>2, <3>3
    <3> QED
      BY <1>5, <2>1, <3>2, <3>4
  <2> QED
    BY <2>1, <2>4, <2>5
<1>15. Covered(F, n)
  <2> SUFFICES ASSUME NEW p \in 1 .. n - 1, Continues(F[p])
               PROVE  \E h \in 1 .. p - 1 : F[h].frame = MF_F /\ p < h + Frames(F[h].len)
    BY DEF Covered
  <2>1. p \in 1 .. m /\ F[p] = z[g[p]] /\ g[p] \in 1 .. c - 1 /\ z[g[p]].pro = USED
    BY <1>4, <1>5
  <2>2. PICK h \in 1 .. g[p] - 1 : z[h].frame = MF_F /\ g[p] < h + Frames(z[h].len)
    BY <2>1 DEF Sound, Covered
  <2>3. h \in 1 .. c - 1 /\ h < g[p] /\ g[p] \in Nat /\ h \in Nat
    BY <1>0, <2>1
  <2>4. Frames(z[h].len) \in Nat
    BY <1>6, <2>3
  <2>5. g[p] \in h + 1 .. h + Frames(z[h].len) - 1
    BY <2>2, <2>3, <2>4
  <2>6. z[h].pro = USED
    BY <1>8, <2>1, <2>2, <2>3, <2>5
  <2>7. PICK i \in 1 .. m : g[i] = h
    BY <1>9, <1>11, <2>3, <2>6
  <2>8. g[p] - h \in Nat /\ g[p] - h < Frames(z[h].len) /\ g[p] - h >= 1
    BY <2>2, <2>3, <2>4
  <2>9. i + (g[p] - h) \in 1 .. m /\ g[i + (g[p] - h)] = h + (g[p] - h)
    BY <1>12, <2>2, <2>7, <2>8
  <2>10. i + (g[p] - h) = p
    <3> DEFINE q == i + (g[p] - h)
    <3>1. q \in 1 .. m /\ g[q] = g[p]
      BY <2>3, <2>9
    <3> HIDE DEF q
    <3>2. ~ q < p /\ ~ p < q
      BY <1>5, <1>10, <2>1, <3>1
    <3> QED
      BY <1>4, <2>1, <3>1, <3>2 DEF q
  <2>11. i \in 1 .. p - 1 /\ p < i + Frames(z[h].len)
    BY <2>1, <2>3, <2>4, <2>8, <2>10
  <2>12. F[i] = z[h]
    BY <1>5, <2>7
  <2> QED
    BY <2>2, <2>11, <2>12
<1>16. Compacts(F, n, g, z, c)
  BY <1>3, <1>4, <1>5, <1>13, <1>14, <1>15 DEF Compacts, Sound, U
<1> QED
  BY <1>4, <1>16


-----------------------------------------------------------------------------
(* The inductive invariant: what flash and RAM hold in each phase of each  *)
(* call.  Between calls a zone that was mounted is old: behind the erased  *)
(* sector e the others have the indexes 0, 1, 2 ... and c - 1 items.       *)

Ring(e) ==
  /\ head[e] = Erased
  /\ \A m \in 0 .. SectorNum - 2 : head[Sector(e + 1 + m)] = m
  /\ \A a \in Addresses : a[1] = e => item[a] = FreeItem

Old(e, c) == Ring(e) /\ Sound(Zone(e), c)

Blanked == (\A s \in Sectors : head[s] = Erased) /\ (\A a \in Addresses : item[a] = FreeItem)
Mountable == Blanked \/ Bad # {} \/ \E e \in Sectors : \E c \in 1 .. Capacity + 1 : Old(e, c)

Resting(c) == ready /\ Old(ex, c) /\ free = Spot(ex, c)
Idle == call = NoCall /\ ((ready /\ \E c \in 1 .. Capacity + 1 : Resting(c)) \/ (~ready /\ Mountable))

(* hal_fs_init and hal_fs_format.                                          *)
Initing == call.op = "init" /\ call.phase = "mount" /\ call.k = 0 /\ ~ready /\ Mountable
Wiping ==
  /\ call.op = "format" /\ call.phase = "wipe" /\ ~ready /\ call.k \in Sectors
  /\ \A s \in Sectors : s < call.k => head[s] = Erased
  /\ \A a \in Addresses : a[1] < call.k => item[a] = FreeItem
Wiped == call.op = "format" /\ call.phase = "mount" /\ call.k = 0 /\ ~ready /\ Blanked
Indexing ==
  /\ call.op \in {"init", "format"} /\ call.phase = "index" /\ ~ready /\ call.k \in 0 .. SectorNum - 2
  /\ \A s \in Sectors : head[s] = IF s < call.k THEN s ELSE Erased
  /\ \A a \in Addresses : item[a] = FreeItem

(* hal_fs_item_del and hal_fs_item_write: the zone is sound with the       *)
(* frames that are still to be marked, or to be put, as they will be.      *)
Marking(c, m) ==
  /\ call.phase = "mark" /\ ready /\ Ring(ex) /\ free = Spot(ex, c)
  /\ c \in 1 .. Capacity + 1 /\ m \in 1 .. Capacity /\ call.at = Place(ex, m) /\ m + call.k <= c
  /\ Sound(Marked(Zone(ex), m, call.k), c)
  /\ call.op = "write" => c + Frames(call.len) <= Capacity + 1
Putting(c) ==
  /\ call.phase = "put" /\ ready /\ Ring(ex) /\ free = Spot(ex, c)
  /\ c \in 1 .. Capacity /\ c + Frames(call.len) - call.k <= Capacity
  /\ \A p \in c .. Capacity : Zone(ex)[p] = FreeItem
  /\ Sound(Filled(Zone(ex), c, call.k), c + Frames(call.len) - call.k + 1)

(* hal_fs_garbage_collect, when it has copied up to item s of the zone and *)
(* as far as item c of the zone it makes, whose first sector was the       *)
(* exchange sector: that zone will be F, with n - 1 items, and the items   *)
(* still to come are the used ones from s on.                              *)
Source(p) == item[Place(ex, p)]
Target(q) == item[Place(Sector(ex - 1), q)]

Moving(c, s, n, F, g) ==
  /\ Sound(F, n) /\ \A i \in 1 .. n - 1 : F[i].pro = USED
  /\ c \in 1 .. n /\ s \in 1 .. Capacity + 1 /\ c <= s
  /\ \A q \in 1 .. c - 1 : Target(q) = F[q]
  /\ \A i \in c .. n - 1 : g[i] \in s .. Capacity /\ Source(g[i]) = F[i]
  /\ \A i, j \in c .. n - 1 : i < j => g[i] < g[j]
  /\ \A p \in s .. Capacity : Source(p).pro = USED => \E i \in c .. n - 1 : g[i] = p
  /\ \E f \in 1 .. Capacity + 1 : \A p \in s .. Capacity :
       IF p < f THEN Source(p).pro \in {USED, DELETED} ELSE Source(p) = FreeItem

(* The k-th sector is being copied; on says that its target has its index. *)
Room(c) == \A q \in c .. (call.k + 1) * Items : Target(q) = FreeItem
Moved(c, s, on, n, F) ==
  /\ call.op = "collect" /\ ready /\ call.k \in 0 .. SectorNum - 2
  /\ \A i \in 0 .. SectorNum - 2 : i < call.k \/ (i = call.k /\ on) => head[Sector(ex + i)] = i
  /\ \A i \in 0 .. SectorNum - 2 : call.k <= i => head[Sector(ex + 1 + i)] = i
  /\ ~on => head[Sector(ex + call.k)] = Erased
  /\ s >= call.k * Items + 1 /\ s <= (call.k + 1) * Items + 1
  /\ call.to = Place(Sector(ex - 1), c)
  /\ n \in 1 .. Capacity + 1 /\ \E g : Moving(c, s, n, F, g)

ToIndex(c, n, F) ==
  /\ call.phase = "index" /\ Moved(c, call.k * Items + 1, FALSE, n, F) /\ Room(c)
ToCopy(c, s, n, F) ==
  /\ call.phase = "copy" /\ Moved(c, s, TRUE, n, F) /\ Room(c)
  /\ s <= (call.k + 1) * Items /\ Source(s).pro = USED /\ call.at = Place(ex, s)
ToData(c, s, n, F) ==
  /\ call.phase = "data" /\ Moved(c, s, TRUE, n, F) /\ Room(c + 1)
  /\ s <= (call.k + 1) * Items /\ Source(s).pro = USED /\ call.at = Place(ex, s)
  /\ Target(c) = [Source(s) EXCEPT !.data = Blank]
ToErase(c, n, F) ==
  /\ call.phase = "erase" /\ Moved(c, (call.k + 1) * Items + 1, TRUE, n, F) /\ Room(c)
  /\ call.at[1] = Sector(ex + 1 + call.k)
Collecting(n, F) ==
  \/ (\E c \in Nat : ToIndex(c, n, F)) \/ (\E c \in Nat : ToErase(c, n, F))
  \/ (\E c \in Nat, s \in Nat : ToCopy(c, s, n, F)) \/ (\E c \in Nat, s \in Nat : ToData(c, s, n, F))
Collected(c) ==
  /\ call.op = "collect" /\ call.phase = "mount" /\ ready
  /\ Old(Sector(ex - 1), c) /\ \A p \in 1 .. c - 1 : Zone(Sector(ex - 1))[p].pro = USED

Modes ==
  \/ Idle \/ Initing \/ Wiping \/ Wiped \/ Indexing
  \/ (\E c \in Nat, m \in Nat : Marking(c, m)) \/ (\E c \in Nat : Putting(c))
  \/ (\E n, F : Collecting(n, F)) \/ (\E c \in Nat : Collected(c))

IInv == TypeInv /\ Modes

-----------------------------------------------------------------------------
(* The mode that a phase of a call belongs to.                             *)


LEMMA ModeCases ==
  ASSUME IInv
  PROVE  /\ call.op = "none" => Idle
         /\ call.phase = "wipe" => Wiping
         /\ call.phase = "index" /\ call.op # "collect" => Indexing
         /\ call.phase = "index" /\ call.op = "collect" => \E n, F : \E c \in Nat : ToIndex(c, n, F)
         /\ call.phase = "mark" => \E c \in Nat, m \in Nat : Marking(c, m)
         /\ call.phase = "put" => \E c \in Nat : Putting(c)
         /\ call.phase = "copy" => \E n, F : \E c \in Nat, s \in Nat : ToCopy(c, s, n, F)
         /\ call.phase = "data" => \E n, F : \E c \in Nat, s \in Nat : ToData(c, s, n, F)
         /\ call.phase = "erase" => \E n, F : \E c \in Nat : ToErase(c, n, F)
         /\ call.phase = "mount" => Initing \/ Wiped \/ \E c \in Nat : Collected(c)
<1>1. /\ Idle => call.op = "none" /\ call.phase = "none"
      /\ Initing => call.op = "init" /\ call.phase = "mount"
      /\ Wiping => call.op = "format" /\ call.phase = "wipe"
      /\ Wiped => call.op = "format" /\ call.phase = "mount"
      /\ Indexing => call.op \in {"init", "format"} /\ call.phase = "index"
  BY DEF Idle, NoCall, Initing, Wiping, Wiped, Indexing
<1>2. /\ (\E c \in Nat, m \in Nat : Marking(c, m)) => call.op \in {"write", "delete"} /\ call.phase = "mark"
      /\ (\E c \in Nat : Putting(c)) => call.op = "write" /\ call.phase = "put"
  BY DEF IInv, TypeInv, CallInv, Marking, Putting
<1>3. /\ \A c, n, F : ToIndex(c, n, F) => call.op = "collect" /\ call.phase = "index"
      /\ \A c, s, n, F : ToCopy(c, s, n, F) => call.op = "collect" /\ call.phase = "copy"
      /\ \A c, s, n, F : ToData(c, s, n, F) => call.op = "collect" /\ call.phase = "data"
      /\ \A c, n, F : ToErase(c, n, F) => call.op = "collect" /\ call.phase = "erase"
      /\ (\E c \in Nat : Collected(c)) => call.op = "collect" /\ call.phase = "mount"
  BY DEF ToIndex, ToCopy, ToData, ToErase, Collected, Moved
<1> QED
  BY <1>1, <1>2, <1>3 DEF IInv, Modes, Collecting

-----------------------------------------------------------------------------
(* Rings.                                                                  *)

LEMMA OldUnchanged ==
  ASSUME UNCHANGED flash
  PROVE  /\ \A e : Ring(e)' <=> Ring(e)
         /\ \A e : Zone(e)' = Zone(e)
         /\ \A e, c : Old(e, c)' <=> Old(e, c)
         /\ Bad' = Bad /\ (Blanked' <=> Blanked) /\ (Mountable' <=> Mountable)
<1>1. head' = head /\ item' = item
  BY DEF flash
<1>2. \A e : Ring(e)' <=> Ring(e)
  BY <1>1 DEF Ring
<1>3. \A e : Zone(e)' = Zone(e)
  BY <1>1 DEF Zone
<1>4. \A e, c : Old(e, c)' <=> Old(e, c)
  BY <1>2, <1>3 DEF Old
<1>5. Bad' = Bad /\ (Blanked' <=> Blanked)
  BY <1>1 DEF Bad, Blanked
<1> QED
  BY <1>2, <1>3, <1>4, <1>5 DEF Mountable

LEMMA SectorBefore == \A e \in Sectors : e \in Int /\ Sector(e - 1) \in Sectors
<1>1. \A e \in Sectors : e \in Int /\ e - 1 \in Int
  BY Sizes DEF Sectors
<1> QED
  BY <1>1, SectorIn

(* The sectors of the zone are e, e + 1, ..., e + SectorNum - 1.           *)
LEMMA Around ==
  ASSUME NEW e \in Sectors, NEW s \in Sectors
  PROVE  s = e \/ \E m \in 0 .. SectorNum - 2 : s = Sector(e + 1 + m)
<1>1. CASE e < s
  <2>1. s - e - 1 \in 0 .. SectorNum - 2 /\ e + 1 + (s - e - 1) = s
    BY <1>1, Sizes DEF Sectors
  <2> QED
    BY <2>1, SectorIs
<1>2. CASE s < e
  <2>1. s + SectorNum - e - 1 \in 0 .. SectorNum - 2 /\ e + 1 + (s + SectorNum - e - 1) = s + 1 * SectorNum
    BY <1>2, Sizes DEF Sectors
  <2>2. Sector(s + 1 * SectorNum) = s
    BY SectorIs, SectorTurn DEF Sectors
  <2> QED
    BY <2>1, <2>2
<1> QED
  BY <1>1, <1>2 DEF Sectors

LEMMA RingApart ==
  \A e \in Sectors : \A i, j \in 0 .. SectorNum - 1 : Sector(e + i) = Sector(e + j) => i = j
<1> SUFFICES ASSUME NEW e \in Sectors, NEW i \in 0 .. SectorNum - 1, NEW j \in 0 .. SectorNum - 1,
                    Sector(e + i) = Sector(e + j)
             PROVE  i = j
  OBVIOUS
<1>1. e \in Int /\ i \in Int /\ j \in Int /\ SectorNum \in Nat
  BY Sizes DEF Sectors
<1>2. CASE i <= j
  <2>1. e + i <= e + j /\ e + j < (e + i) + SectorNum
    BY <1>1, <1>2
  <2>2. e + i = e + j
    BY <1>1, <2>1, SectorInjective
  <2> QED
    BY <1>1, <2>2
<1>3. CASE j <= i
  <2>1. e + j <= e + i /\ e + i < (e + j) + SectorNum
    BY <1>1, <1>3
  <2>2. e + j = e + i
    BY <1>1, <2>1, SectorInjective
  <2> QED
    BY <1>1, <2>2
<1> QED
  BY <1>1, <1>2, <1>3

(* fs_init finds one sector of index 0, the one behind e, and none that is *)
(* not its own.                                                            *)
LEMMA RingMounts ==
  ASSUME NEW e \in Sectors, Ring(e)
  PROVE  Bad = {} /\ Indexed(0) = {Sector(e + 1)} /\ Indexed(Erased) # Sectors /\ Sector(Sector(e + 1) - 1) = e
<1>1. /\ e \in Int /\ SectorNum \in Nat /\ SectorNum >= 3 /\ SectorNum <= 78 /\ Sector(e + 1) \in Sectors
      /\ e + 1 + 0 = e + 1
  BY Sizes, SectorIn DEF Sectors
<1>2. \A s \in Sectors : head[s] = Erased \/ \E m \in 0 .. SectorNum - 2 : s = Sector(e + 1 + m) /\ head[s] = m
  BY Around DEF Ring
<1>3. Bad = {}
  <2>1. \A m \in 0 .. SectorNum - 2 : ~ m >= SectorNum - 1
    BY <1>1
  <2>2. \A s \in Sectors : ~ (head[s] # Erased /\ head[s] >= SectorNum - 1)
    BY <1>2, <2>1
  <2> QED
    BY <2>2 DEF Bad
<1>4. head[Sector(e + 1)] = 0
  <2>1. 0 \in 0 .. SectorNum - 2
    BY <1>1
  <2>2. head[Sector(e + 1 + 0)] = 0
    BY <2>1 DEF Ring
  <2> QED
    BY <1>1, <2>2
<1>5. Indexed(0) = {Sector(e + 1)}
  <2>1. ASSUME NEW s \in Sectors, head[s] = 0 PROVE s = Sector(e + 1)
    <3>1. PICK m \in 0 .. SectorNum - 2 : s = Sector(e + 1 + m) /\ head[s] = m
      BY <1>2, <2>1 DEF Erased
    <3>2. m = 0
      BY <2>1, <3>1
    <3> QED
      BY <1>1, <3>1, <3>2
  <2> QED
    BY <1>1, <1>4, <2>1 DEF Indexed
<1>6. Sector(e + 1) \notin Indexed(Erased)
  BY <1>4 DEF Indexed, Erased
<1>7. Sector(Sector(e + 1) - 1) = e
  <2>1. Sector(Sector(e + 1) + (-1)) = Sector((e + 1) + (-1))
    BY <1>1, SectorAdd
  <2>2. (e + 1) + (-1) = e /\ Sector(e + 1) + (-1) = Sector(e + 1) - 1
    BY <1>1 DEF Sectors
  <2> QED
    BY <2>1, <2>2, SectorIs
<1> QED
  BY <1>1, <1>3, <1>5, <1>6, <1>7


-----------------------------------------------------------------------------
(* Steps between calls and at their beginning, and the calls that mount.   *)

LEMMA ModesInit == Init => Modes
<1> SUFFICES ASSUME Init PROVE Mountable
  BY DEF Init, Modes, Idle
<1>1. PICK foreign \in {{}, {0}} : head = [s \in Sectors |-> IF s \in foreign THEN Foreign ELSE Erased]
  BY DEF Init
<1>2. CASE foreign = {}
  BY <1>1, <1>2 DEF Init, Mountable, Blanked
<1>3. CASE foreign = {0}
  <2>1. 0 \in Sectors /\ head[0] = Foreign
    BY <1>1, <1>3, Sizes DEF Sectors
  <2>2. 0 \in Bad
    BY <2>1, Sizes DEF Bad, Foreign, Erased
  <2> QED
    BY <2>2 DEF Mountable
<1> QED
  BY <1>1, <1>2, <1>3

LEMMA StaysIdle ==
  ASSUME Idle, UNCHANGED <<flash, ram>>, call' = NoCall
  PROVE  Idle'
<1>1. ready' = ready /\ ex' = ex /\ free' = free
  BY DEF ram
<1>2. CASE ready /\ \E c \in 1 .. Capacity + 1 : Resting(c)
  <2>1. PICK c \in 1 .. Capacity + 1 : Resting(c)
    BY <1>2
  <2>2. Old(ex, c)'
    BY <1>1, <2>1, OldUnchanged DEF Resting, Old, Ring, Zone
  <2>3. Resting(c)'
    BY <1>1, <2>1, <2>2 DEF Resting, Spot, Place, Capacity
  <2>4. \E d \in 1 .. Capacity + 1 : Resting(d)'
    BY <2>3
  <2> QED
    BY <1>1, <2>4, <1>2 DEF Idle, Capacity
<1>3. CASE ~ready /\ Mountable
  <2>1. Mountable'
    BY <1>3, OldUnchanged
  <2> QED
    BY <1>1, <1>3, <2>1 DEF Idle
<1> QED
  BY <1>2, <1>3 DEF Idle

LEMMA OldMountable == (\E e \in Sectors : \E c \in 1 .. Capacity + 1 : Old(e, c)) => Mountable
BY DEF Mountable

LEMMA ModesBegin ==
  IInv /\ (Refuse \/ HalInit \/ Format \/ Restart) /\ Cuts = {} => Modes'
<1> SUFFICES ASSUME IInv, Cuts = {} PROVE Refuse \/ HalInit \/ Format \/ Restart => Modes'
  OBVIOUS
<1>1. call.op = "none" => Idle
  BY ModeCases
<1>2. TypeOK
  BY DEF IInv, TypeInv
<1>3. ASSUME Refuse PROVE Modes'
  BY <1>1, <1>3, StaysIdle DEF Refuse, Calling, Return, Modes
<1>4. ASSUME HalInit PROVE Modes'
  <2>1. CASE ready
    BY <1>1, <1>4, <2>1, StaysIdle DEF HalInit, Calling, Return, Modes
  <2>2. CASE ~ready
    <3>1. Mountable' /\ ~ready'
      BY <1>1, <1>4, <2>2, OldUnchanged DEF HalInit, Calling, Idle, ram
    <3>2. call'.op = "init" /\ call'.phase = "mount" /\ call'.k = 0
      BY <1>4, <2>2 DEF HalInit, Enter, NoCall
    <3> QED
      BY <3>1, <3>2 DEF Modes, Initing
  <2> QED
    BY <2>1, <2>2
<1>5. ASSUME Format PROVE Modes'
  <2>1. call'.op = "format" /\ call'.phase = "wipe" /\ call'.k = 0 /\ ~ready'
    BY <1>5 DEF Format, Enter, NoCall
  <2>2. 0 \in Sectors /\ (\A s \in Sectors : ~ s < 0) /\ (\A a \in Addresses : ~ a[1] < 0)
    BY Sizes DEF Sectors, Addresses
  <2> QED
    BY <2>1, <2>2 DEF Modes, Wiping
<1>6. ASSUME Restart PROVE Modes'
  <2>1. Idle /\ UNCHANGED flash /\ call' = NoCall /\ ~ready'
    BY <1>1, <1>6 DEF Restart, Return
  <2>2. Mountable
    <3>1. CASE ready
      <4>1. PICK c \in 1 .. Capacity + 1 : Old(ex, c)
        BY <2>1, <3>1 DEF Idle, Resting
      <4>2. ex \in Sectors
        BY <1>2 DEF TypeOK
      <4> QED
        BY <4>1, <4>2, OldMountable
    <3> QED
      BY <2>1, <3>1 DEF Idle
  <2> QED
    BY <2>1, <2>2, OldUnchanged DEF Modes, Idle
<1> QED
  BY <1>3, <1>4, <1>5, <1>6

FrontierFound == \A c : Sound(Zone(ex), c) => Frontier = Spot(ex, c)
LEMMA FrontierFact == Zoned => FrontierFound
BY FrontierIs DEF FrontierFound


LEMMA MountsOld ==
  ASSUME TypeOK, Mount, NEW e \in Sectors, NEW c \in 1 .. Capacity + 1, Old(e, c)
  PROVE  Idle' /\ Resting(c)' /\ ex' = e
<1>1. Bad = {} /\ Indexed(0) = {Sector(e + 1)} /\ Sector(Sector(e + 1) - 1) = e
  BY RingMounts DEF Old
<1>2. ex' = e /\ ready' /\ free' = Frontier' /\ call' = NoCall /\ UNCHANGED flash
  BY <1>1 DEF Mount, Return
<1>3. Zoned'
  BY <1>2 DEF TypeOK, Zoned, flash
<1>4. Ring(e)' /\ Zone(e)' = Zone(e) /\ Sound(Zone(e), c)
  BY <1>2, OldUnchanged DEF Old
<1>5. Ring(ex)' /\ Zone(ex)' = Zone(e)
  BY <1>2, <1>4 DEF Ring, Zone
<1>6. Old(ex, c)'
  BY <1>4, <1>5 DEF Old
<1>7. Frontier' = Spot(ex, c)'
  <2>1. (Zoned => FrontierFound)'
    BY FrontierFact, PTL
  <2> QED
    BY <1>3, <1>6, <2>1 DEF Old, FrontierFound
<1>8. Resting(c)'
  BY <1>2, <1>6, <1>7 DEF Resting
<1> QED
  BY <1>2, <1>8 DEF Idle, Capacity

LEMMA BlankMounts == Blanked => Bad = {} /\ Indexed(Erased) = Sectors
BY DEF Blanked, Bad, Indexed

LEMMA ModesMount == IInv /\ (MountForeign \/ MountNew \/ Mount) => Modes'
<1> SUFFICES ASSUME IInv, MountForeign \/ MountNew \/ Mount PROVE Modes'
  OBVIOUS
<1>1. TypeOK
  BY DEF IInv, TypeInv
<1>2. call.phase = "mount"
  BY DEF MountForeign, MountNew, Mount
<1>3. \/ Initing \/ Wiped
      \/ \E e \in Sectors : \E c \in 1 .. Capacity + 1 : Old(e, c)
  <2>1. ASSUME NEW c \in Nat, Collected(c) PROVE \E e \in Sectors : \E d \in 1 .. Capacity + 1 : Old(e, d)
    <3>1. Sector(ex - 1) \in Sectors
      BY <1>1, SectorBefore DEF TypeOK
    <3> QED
      BY <2>1, <3>1 DEF Collected, Old, Sound
  <2> QED
    BY <1>2, <2>1, ModeCases
<1>4. ASSUME NEW e \in Sectors, NEW c \in 1 .. Capacity + 1, Old(e, c) PROVE Modes'
  <2>1. Bad = {} /\ Indexed(Erased) # Sectors
    BY <1>4, RingMounts DEF Old
  <2>2. Mount
    BY <2>1 DEF MountForeign, MountNew
  <2> QED
    BY <1>1, <1>4, <2>2, MountsOld DEF Modes
<1>5. ASSUME Blanked, call.k = 0, ~ready, call.op \in {"init", "format"} PROVE Modes'
  <2>1. MountNew
    BY <1>5, BlankMounts DEF MountForeign, Mount
  <2>2. call' = [call EXCEPT !.phase = "index"] /\ head' = head /\ item' = item /\ ready' = ready
    BY <2>1 DEF MountNew, flash, ram
  <2>3. call'.op = call.op /\ call'.phase = "index" /\ call'.k = 0
    BY <1>1, <1>5, <2>2 DEF TypeOK, Call
  <2>4. 0 \in 0 .. SectorNum - 2 /\ \A s \in Sectors : ~ s < 0
    BY Sizes DEF Sectors
  <2> QED
    BY <1>5, <2>2, <2>3, <2>4 DEF Modes, Indexing, Blanked
<1>6. CASE Initing
  <2>1. CASE Bad # {}
    <3>1. MountForeign
      BY <2>1, BlankMounts DEF MountNew, Mount, Bad, Indexed
    <3>2. Mountable' /\ ~ready' /\ call' = NoCall
      BY <1>6, <3>1, OldUnchanged DEF MountForeign, Return, Initing, ram
    <3> QED
      BY <3>2 DEF Modes, Idle
  <2> QED
    BY <1>4, <1>5, <1>6, <2>1 DEF Initing, Mountable
<1>7. CASE Wiped
  BY <1>5, <1>7 DEF Wiped
<1> QED
  BY <1>3, <1>4, <1>6, <1>7

LEMMA ModesWipe == IInv /\ Wipe => Modes'
<1> SUFFICES ASSUME IInv, Wipe PROVE Modes'
  OBVIOUS
<1>1. Wiping /\ TypeOK
  BY ModeCases DEF Wipe, IInv, TypeInv
<1>2. /\ head' = [head EXCEPT ![call.k] = Erased]
      /\ item' = [a \in Addresses |-> IF a[1] = call.k THEN FreeItem ELSE item[a]]
      /\ ~ready' /\ call.k \in Sectors /\ call.op = "format" /\ call.phase = "wipe"
  BY <1>1 DEF Wipe, EraseSector, ram, Wiping
<1>3. call.k \in Int /\ SectorNum \in Nat /\ \A a \in Addresses : a[1] \in Sectors /\ a[1] \in Int
  BY <1>2, Sizes DEF Sectors, Addresses
<1>4. /\ \A s \in Sectors : s < call.k + 1 => head'[s] = Erased
      /\ \A a \in Addresses : a[1] < call.k + 1 => item'[a] = FreeItem
  <2>1. \A s \in Sectors : s < call.k + 1 => s < call.k \/ s = call.k
    BY <1>3 DEF Sectors
  <2>2. \A s \in Sectors : s < call.k + 1 => head'[s] = Erased
    BY <1>1, <1>2, <2>1 DEF Wiping, TypeOK
  <2>3. \A a \in Addresses : a[1] < call.k + 1 => item'[a] = FreeItem
    BY <1>1, <1>2, <1>3, <2>1 DEF Wiping
  <2> QED
    BY <2>2, <2>3
<1>5. CASE call.k < SectorNum - 1
  <2>1. call'.op = "format" /\ call'.phase = "wipe" /\ call'.k = call.k + 1
    BY <1>1, <1>2, <1>5 DEF Wipe, TypeOK, Call
  <2>2. call'.k \in Sectors
    BY <1>2, <1>3, <1>5, <2>1 DEF Sectors
  <2> QED
    BY <1>2, <1>4, <2>1, <2>2 DEF Modes, Wiping
<1>6. CASE ~ call.k < SectorNum - 1
  <2>1. call'.op = "format" /\ call'.phase = "mount" /\ call'.k = 0
    BY <1>1, <1>2, <1>6 DEF Wipe, TypeOK, Call
  <2>2. \A s \in Sectors : s < call.k + 1
    BY <1>2, <1>3, <1>6 DEF Sectors
  <2>3. Blanked'
    BY <1>3, <1>4, <2>2 DEF Blanked
  <2> QED
    BY <1>2, <2>1, <2>3 DEF Modes, Wiped
<1> QED
  BY <1>5, <1>6


(* An index programmed on an erased head is what is read back.             *)
LEMMA IndexProgrammed == \A k \in 0 .. SectorNum - 1 : And[<<Erased, k>>] = k
<1> SUFFICES ASSUME NEW k \in 0 .. SectorNum - 1 PROVE And[<<Erased, k>>] = k
  OBVIOUS
<1>1. k \in 0 .. Erased
  BY Sizes DEF Erased
<1> QED
  BY <1>1, AndOnes DEF Ones

LEMMA ModesPutHead == IInv /\ PutHead => Modes'
<1> SUFFICES ASSUME IInv, PutHead PROVE Modes'
  OBVIOUS
<1>1. Indexing /\ TypeOK
  BY ModeCases DEF PutHead, IInv, TypeInv
<1>2. /\ call.phase = "index" /\ call.op \in {"init", "format"} /\ ~ready /\ call.k \in 0 .. SectorNum - 2
      /\ \A s \in Sectors : head[s] = IF s < call.k THEN s ELSE Erased
      /\ \A a \in Addresses : item[a] = FreeItem
  BY <1>1 DEF Indexing
<1>3. call.k \in Sectors /\ call.k \in Int /\ SectorNum \in Nat /\ SectorNum >= 3 /\ 0 + call.k = call.k
  BY <1>2, Sizes DEF Sectors
<1>4. head' = [head EXCEPT ![call.k] = call.k] /\ item' = item
  <2>1. PutIndex(Sector(0 + call.k), call.k)
    BY <1>2 DEF PutHead, FlashWrite
  <2>2. Sector(0 + call.k) = call.k /\ head[call.k] = Erased
    BY <1>2, <1>3, SectorIs
  <2>3. And[<<Erased, call.k>>] = call.k
    BY <1>2, <1>3, IndexProgrammed
  <2> QED
    BY <2>1, <2>2, <2>3 DEF PutIndex
<1>5. \A s \in Sectors : head'[s] = IF s < call.k + 1 THEN s ELSE Erased
  <2> TAKE s \in Sectors
  <2>1. s \in Int /\ (s < call.k + 1 <=> s < call.k \/ s = call.k)
    BY <1>3 DEF Sectors
  <2>2. head'[s] = IF s = call.k THEN call.k ELSE head[s]
    BY <1>1, <1>3, <1>4 DEF TypeOK
  <2> QED
    BY <1>2, <1>3, <2>1, <2>2
<1>6. CASE call.k < SectorNum - 2
  <2>1. call'.op = call.op /\ call'.phase = "index" /\ call'.k = call.k + 1 /\ ready' = ready
    BY <1>1, <1>2, <1>6 DEF PutHead, TypeOK, Call, ram
  <2>2. call'.k \in 0 .. SectorNum - 2
    BY <1>2, <1>3, <1>6, <2>1
  <2> QED
    BY <1>2, <1>4, <1>5, <2>1, <2>2 DEF Modes, Indexing
<1>7. CASE ~ call.k < SectorNum - 2
  <2> DEFINE e == SectorNum - 1
  <2>1. ready' /\ ex' = e /\ free' = <<0, 1>> /\ call' = NoCall
    BY <1>7 DEF PutHead, Return
  <2>2. call.k + 1 = e /\ e \in Sectors /\ e \in Int /\ ~ e < e
    BY <1>2, <1>3, <1>7 DEF Sectors
  <2>3. \A m \in 0 .. SectorNum - 2 : Sector(e + 1 + m) = m /\ m < e /\ m \in Sectors
    <3> TAKE m \in 0 .. SectorNum - 2
    <3>1. e + 1 + m = m + 1 * SectorNum /\ m \in Sectors /\ m \in Int /\ m < e
      BY <1>3 DEF Sectors
    <3>2. Sector(m + 1 * SectorNum) = Sector(m)
      BY <3>1, SectorTurn
    <3> HIDE DEF e
    <3> QED
      BY <3>1, <3>2, SectorIs
  <2> HIDE DEF e
  <2>4. Ring(e)'
    BY <1>2, <1>4, <1>5, <2>2, <2>3 DEF Ring
  <2>5. Sound(Zone(e)', 1)
    <3>1. \A p \in 1 .. Capacity : Zone(e)'[p] = FreeItem
      <4> TAKE p \in 1 .. Capacity
      <4>1. p \in Int /\ Place(e, p) \in Addresses
        BY <2>2, CapacityIs, PlaceIn
      <4>2. Zone(e)'[p] = item[Place(e, p)]
        BY <1>4 DEF Zone, Place, Capacity, Sector, Row, Column
      <4> QED
        BY <1>2, <4>1, <4>2
    <3> QED
      BY <3>1, FreshSound
  <2>6. <<0, 1>> = Spot(e, 1) /\ 1 \in 1 .. Capacity + 1
    <3>1. Row(1) = 0 /\ Column(1) = 1
      <4>1. 1 = Items * 0 + 1 /\ 1 \in 1 .. Items
        BY Sizes
      <4> QED
        BY <4>1, RowColumnIs
    <3>2. 0 \in 0 .. SectorNum - 2
      BY <1>3
    <3>3. Sector(e + 1 + 0) = 0
      BY <2>3, <3>2
    <3>4. 1 <= Capacity /\ 1 \in 1 .. Capacity + 1
      BY CapacityIs, Sizes
    <3> QED
      BY <3>1, <3>3, <3>4 DEF Spot, Place
  <2>7. Resting(1)'
    <3>1. Ring(ex)' /\ Zone(ex)' = Zone(e)' /\ Spot(ex, 1)' = Spot(e, 1)
      BY <2>1, <2>4 DEF Ring, Zone, Spot, Place, Capacity, Sector, Row, Column
    <3> QED
      BY <2>1, <2>5, <2>6, <3>1 DEF Resting, Old
  <2> QED
    BY <2>1, <2>6, <2>7 DEF Modes, Idle, Capacity
<1> QED
  BY <1>6, <1>7


-----------------------------------------------------------------------------
(* hal_fs_item_write and hal_fs_item_del.                                  *)

(* An item programmed in the zone leaves the erased sector alone.          *)
LEMMA ZonePut ==
  ASSUME TypeOK, NEW e \in Sectors, NEW m \in 1 .. Capacity, NEW i1,
         head' = head, item' = [item EXCEPT ![Place(e, m)] = i1]
  PROVE  /\ Ring(e) => Ring(e)'
         /\ \A p \in 1 .. Capacity : Zone(e)'[p] = IF p = m THEN i1 ELSE Zone(e)[p]
<1>1. /\ e \in Int /\ Capacity \in Nat /\ Place(e, m) \in Addresses /\ Place(e, m)[1] # e
      /\ item \in [Addresses -> Item]
  BY SectorBefore, CapacityIs, PlaceOutside, PlaceIn DEF TypeOK
<1>2. Ring(e) => Ring(e)'
  BY <1>1 DEF Ring
<1>3. ASSUME NEW p \in 1 .. Capacity
      PROVE  Zone(e)'[p] = IF p = m THEN i1 ELSE Zone(e)[p]
  <2>1. p \in 1 .. SectorNum * Items /\ m \in 1 .. SectorNum * Items
    BY CapacityIs, Sizes
  <2>2. p \in Int /\ Place(e, p) \in Addresses /\ (Place(e, p) = Place(e, m) <=> p = m)
    BY <1>1, <2>1, PlaceIn, PlaceInjective
  <2>3. item'[Place(e, p)] = IF p = m THEN i1 ELSE item[Place(e, p)]
    BY <1>1, <2>2
  <2>4. Zone(e)'[p] = item'[Place(e, p)] /\ Zone(e)[p] = item[Place(e, p)]
    BY DEF Zone, Place, Capacity, Sector, Row, Column
  <2> QED
    BY <2>3, <2>4
<1> QED
  BY <1>2, <1>3

LEMMA ZoneFunction == \A e : Zone(e) = [p \in 1 .. Capacity |-> Zone(e)[p]]
BY DEF Zone

(* A zone is sound for what its items are.                                 *)
LEMMA SoundSame ==
  ASSUME NEW z, NEW y, NEW c, Sound(z, c), \A p \in 1 .. Capacity : y[p] = z[p]
  PROVE  Sound(y, c)
<1>0. c \in 1 .. Capacity + 1 /\ Capacity \in Nat
  BY CapacityIs DEF Sound
<1>1. \A p \in 1 .. c - 1 : p \in 1 .. Capacity /\ y[p] = z[p]
  BY <1>0
<1>2. Linear(y, c)
  BY DEF Sound, Linear
<1>3. Tiled(y, c)
  <2> SUFFICES ASSUME NEW h \in 1 .. c - 1, y[h].frame = MF_F
               PROVE  /\ h + Frames(y[h].len) <= c
                      /\ \A j \in h + 1 .. h + Frames(y[h].len) - 1 :
                           Continues(y[j]) /\ y[j].pro = y[h].pro /\ y[j].id = y[h].id
    BY DEF Tiled
  <2>1. /\ h + Frames(z[h].len) <= c /\ y[h] = z[h]
        /\ \A j \in h + 1 .. h + Frames(z[h].len) - 1 :
             Continues(z[j]) /\ z[j].pro = z[h].pro /\ z[j].id = z[h].id
    BY <1>1 DEF Sound, Tiled
  <2>2. Frames(z[h].len) \in Nat
    <3>1. h \in 1 .. Capacity /\ h < c
      BY <1>0
    <3>2. z[h] \in Item
      BY <3>1 DEF Sound, Linear, Written
    <3> QED
      BY <3>2, Fields, FramesOf
  <2>3. \A j \in h + 1 .. h + Frames(z[h].len) - 1 : j \in 1 .. c - 1
    BY <1>0, <2>1, <2>2
  <2> QED
    BY <1>1, <2>1, <2>3
<1>4. Covered(y, c)
  <2> SUFFICES ASSUME NEW p \in 1 .. c - 1, Continues(y[p])
               PROVE  \E h \in 1 .. p - 1 : y[h].frame = MF_F /\ p < h + Frames(y[h].len)
    BY DEF Covered
  <2>1. PICK h \in 1 .. p - 1 : z[h].frame = MF_F /\ p < h + Frames(z[h].len)
    BY <1>1 DEF Sound, Covered
  <2>2. h \in 1 .. c - 1
    BY <1>0
  <2> QED
    BY <1>1, <2>1, <2>2
<1> QED
  BY <1>0, <1>2, <1>3, <1>4 DEF Sound

(* A file that fits is put behind the items that there are.                *)
PutsBehind ==
  \A c : /\ call.phase = "put" /\ call.k = 1
         /\ Resting(c) /\ c + Frames(call.len) <= Capacity + 1
         => Putting(c) /\ c \in Nat

LEMMA BeginsPutting == TypeInv => PutsBehind
<1> SUFFICES ASSUME TypeInv, NEW c, call.phase = "put", call.k = 1, Resting(c),
                    c + Frames(call.len) <= Capacity + 1
             PROVE  Putting(c) /\ c \in Nat
  BY DEF PutsBehind
<1>1. ready /\ Ring(ex) /\ free = Spot(ex, c) /\ Sound(Zone(ex), c)
  BY DEF Resting, Old
<1>2. FileCalled /\ 1 \in 1 .. Frames(call.len) /\ Frames(call.len) \in Nat
  <2>1. call.len \in Nat
    BY DEF TypeInv, TypeOK, Call
  <2> QED
    BY <2>1, FramesOf DEF TypeInv, CallInv
<1>3. c \in 1 .. Capacity + 1 /\ Capacity \in Nat
  BY <1>1, CapacityIs DEF Sound
<1>4. c \in 1 .. Capacity /\ c + Frames(call.len) - 1 <= Capacity
      /\ c + Frames(call.len) - 1 + 1 = c + Frames(call.len) /\ c \in Nat
  BY <1>2, <1>3
<1>5. Sound(Filled(Zone(ex), c, 1), c + Frames(call.len))
  BY <1>1, <1>2, FilledSound
<1>6. \A p \in c .. Capacity : Zone(ex)[p] = FreeItem
  <2>1. \A p \in c .. Capacity : p \in 1 .. Capacity /\ ~ p < c
    BY <1>4
  <2> QED
    BY <1>1, <2>1 DEF Sound, Linear
<1> QED
  BY <1>1, <1>4, <1>5, <1>6 DEF Putting

(* The zone that a deletion makes stays the same, frame by frame, until it *)
(* is there.                                                               *)
LEMMA MarksOn ==
  ASSUME IInv, MarkFrame, NEW c \in Nat, NEW m \in Nat, Marking(c, m)
  PROVE  \/ /\ Marking(c, m + 1)' /\ m + 1 \in Nat
            /\ call'.phase = "mark" /\ call'.op = call.op /\ call'.id = call.id
            /\ call'.len = call.len /\ call'.val = call.val
            /\ Marked(Zone(ex), m + 1, call.k)' = Marked(Zone(ex), m, call.k)
         \/ /\ ready' /\ Resting(c)' /\ c \in (1 .. Capacity + 1)'
            /\ \A p \in 1 .. Capacity : Zone(ex)'[p] = Marked(Zone(ex), m, call.k)[p]
            /\ \/ call.op = "delete" /\ call' = NoCall
               \/ /\ call.op = "write" /\ Putting(c)'
                  /\ call'.phase = "put" /\ call'.k = 1 /\ call'.op = "write" /\ call'.id = call.id
                  /\ call'.len = call.len /\ call'.val = call.val
<1>1. TypeOK /\ call.phase = "mark" /\ call.op \in {"write", "delete"} /\ call.k >= 1 /\ call.k \in Nat
  BY DEF IInv, TypeInv, CallInv, MarkFrame, TypeOK, Call
<1>3. /\ ready /\ Ring(ex) /\ free = Spot(ex, c) /\ c \in 1 .. Capacity + 1 /\ m \in 1 .. Capacity
      /\ call.at = Place(ex, m) /\ m + call.k <= c /\ Sound(Marked(Zone(ex), m, call.k), c)
      /\ ex \in Sectors /\ Capacity \in Nat /\ ex \in Int
  BY <1>1, CapacityIs, SectorBefore DEF Marking, TypeOK
<1>4. ready' = ready /\ ex' = ex /\ free' = free
  BY DEF MarkFrame, ram
<1> DEFINE z == Zone(ex)
           y == Zone(ex)'
           i1 == [z[m] EXCEPT !.pro = DELETED]
<1>5. Ring(ex)' /\ \A p \in 1 .. Capacity : y[p] = IF p = m THEN i1 ELSE z[p]
  <2>1. head' = head /\ item' = [item EXCEPT ![call.at] = [item[call.at] EXCEPT !.pro = DELETED]]
    BY <1>1 DEF MarkFrame, FlashWrite, Put
  <2>2. i1 = [item[Place(ex, m)] EXCEPT !.pro = DELETED]
    BY <1>3, ZoneItem
  <2>3. item' = [item EXCEPT ![Place(ex, m)] = i1]
    BY <1>3, <2>1, <2>2
  <2>4. PICK e \in Sectors : e = ex
    BY <1>3
  <2>5. Ring(e)' /\ \A p \in 1 .. Capacity : Zone(e)'[p] = IF p = m THEN i1 ELSE Zone(e)[p]
    <3> HIDE DEF i1, y, z
    <3>1. item' = [item EXCEPT ![Place(e, m)] = i1]
      BY <2>3, <2>4
    <3>2. m \in 1 .. Capacity
      BY <1>3
    <3>3. Ring(e)
      BY <1>3, <2>4
    <3>4. TypeOK /\ head' = head
      BY <1>1, <2>1
    <3>5. /\ Ring(e) => Ring(e)'
          /\ \A p \in 1 .. Capacity : Zone(e)'[p] = IF p = m THEN i1 ELSE Zone(e)[p]
      BY <3>1, <3>2, <3>4, ZonePut
    <3> QED
      BY <3>3, <3>5
  <2>6. Ring(ex)' /\ y = Zone(e)'
    BY <1>4, <2>4, <2>5 DEF Ring, Zone
  <2> QED
    BY <2>4, <2>5, <2>6
<1>6. Marked(y, m + 1, call.k - 1) = Marked(z, m, call.k)
  <2>1. \A p \in 1 .. Capacity : p \in m .. m + call.k - 1 <=> p = m \/ p \in m + 1 .. m + 1 + (call.k - 1) - 1
    BY <1>1, <1>3
  <2>2. m \notin m + 1 .. m + 1 + (call.k - 1) - 1
    BY <1>3
  <2> HIDE DEF y, z
  <2> QED
    BY <1>5, <2>1, <2>2 DEF Marked
<1>7. Spot(ex, c)' = Spot(ex, c) /\ Capacity' = Capacity
  BY <1>4 DEF Spot, Place, Capacity, Sector, Row, Column
<1>8. CASE call.k > 1
  <2>1. call' = [call EXCEPT !.at = After(@), !.k = @ - 1]
    BY <1>8 DEF MarkFrame
  <2>2. /\ call'.phase = "mark" /\ call'.op = call.op /\ call'.k = call.k - 1 /\ call'.len = call.len
        /\ call'.at = Place(ex, m + 1) /\ call'.id = call.id /\ call'.val = call.val
    BY <1>1, <1>3, <2>1, PlaceAfter DEF TypeOK, Call
  <2>3. m + 1 \in 1 .. Capacity /\ m + 1 \in Nat /\ (m + 1) + (call.k - 1) <= c
    BY <1>1, <1>3, <1>8
  <2>4. Place(ex, m + 1)' = Place(ex, m + 1)
    BY <1>4 DEF Place, Sector, Row, Column
  <2> HIDE DEF i1, z
  <2>5. Sound(Marked(Zone(ex), m + 1, call.k), c)'
    BY <1>3, <1>6, <2>2 DEF z
  <2>6. call.op = "write" => c + Frames(call.len) <= Capacity + 1
    BY DEF Marking
  <2>7. Marking(c, m + 1)'
    BY <1>3, <1>4, <1>5, <1>7, <2>2, <2>3, <2>4, <2>5, <2>6 DEF Marking, Frames
  <2>8. Marked(Zone(ex), m + 1, call.k)' = Marked(Zone(ex), m, call.k)
    BY <1>6, <2>2 DEF Marked, z, Capacity
  <2> QED
    BY <2>2, <2>3, <2>7, <2>8
<1>9. CASE ~ call.k > 1
  <2>0. call.k = 1 /\ \A p \in 1 .. Capacity : y[p] = Marked(z, m, call.k)[p]
    <3>1. call.k = 1 /\ \A p \in 1 .. Capacity : p \in m .. m + call.k - 1 <=> p = m
      BY <1>1, <1>3, <1>9
    <3> HIDE DEF y, z
    <3> QED
      BY <1>5, <3>1 DEF Marked
  <2>1. Sound(y, c)
    <3> HIDE DEF y
    <3> QED
      BY <1>3, <2>0, SoundSame
  <2>r. ready' /\ Resting(c)' /\ c \in (1 .. Capacity + 1)'
    BY <1>3, <1>4, <1>5, <1>7, <2>1 DEF Resting, Old, Capacity
  <2>2. CASE call.op = "delete"
    <3>1. call' = NoCall
      BY <1>9, <2>2 DEF MarkFrame, Return
    <3> QED
      BY <2>0, <2>2, <2>r, <3>1
  <2>3. CASE call.op = "write"
    <3>1. call' = [call EXCEPT !.phase = "put", !.at = NoCall.at]
      BY <1>9, <2>3 DEF MarkFrame
    <3>2. /\ call'.phase = "put" /\ call'.k = 1 /\ call'.len = call.len /\ call'.op = "write"
          /\ call'.id = call.id /\ call'.val = call.val
      BY <1>1, <2>0, <2>3, <3>1 DEF TypeOK, Call
    <3>3. TypeInv'
      BY TypeStep DEF Next, IInv
    <3>4. c + Frames(call.len)' <= Capacity + 1
      BY <2>3, <3>2 DEF Marking, Frames
    <3>6. PutsBehind'
      <4>1. (TypeInv => PutsBehind)'
        BY BeginsPutting, PTL
      <4> QED
        BY <3>3, <4>1
    <3>7. Putting(c)'
      BY <1>7, <2>r, <3>2, <3>4, <3>6 DEF PutsBehind
    <3> QED
      BY <2>0, <2>3, <2>r, <3>2, <3>7
  <2> QED
    BY <1>1, <2>2, <2>3
<1> QED
  BY <1>8, <1>9

LEMMA ModesMark == IInv /\ MarkFrame => Modes'
<1> SUFFICES ASSUME IInv, MarkFrame PROVE Modes'
  OBVIOUS
<1>1. PICK c \in Nat, m \in Nat : Marking(c, m)
  BY ModeCases DEF MarkFrame
<1>2. \/ Marking(c, m + 1)' /\ m + 1 \in Nat
      \/ Putting(c)'
      \/ ready' /\ call' = NoCall /\ Resting(c)' /\ c \in (1 .. Capacity + 1)'
  BY <1>1, MarksOn
<1> QED
  BY <1>2 DEF Modes, Idle

(* A frame programmed on an item that was not written, the head first and  *)
(* then the data, is what is read back.                                    *)
LEMMA ItemProgrammed ==
  \A i1 \in Item : /\ ProgramHead(FreeItem, i1) = [i1 EXCEPT !.data = Blank]
                   /\ ProgramData([i1 EXCEPT !.data = Blank], i1) = i1
<1> SUFFICES ASSUME NEW i1 \in Item
             PROVE  /\ ProgramHead(FreeItem, i1) = [i1 EXCEPT !.data = Blank]
                    /\ ProgramData([i1 EXCEPT !.data = Blank], i1) = i1
  OBVIOUS
<1>1. /\ i1.pro \in Nat /\ i1.pro <= 3 /\ i1.frame \in Nat /\ i1.frame <= 3
      /\ i1.id \in Nat /\ i1.id <= IdMax /\ i1.len \in Nat /\ i1.len <= LenMax
  <2>1. i1.pro \in 0 .. 3 /\ i1.frame \in 0 .. 3 /\ i1.id \in 0 .. IdMax /\ i1.len \in 0 .. LenMax
    BY DEF Item
  <2> QED
    BY <2>1, Fields
<1>2. And[<<UNUSED, i1.pro>>] = i1.pro /\ And[<<SF, i1.frame>>] = i1.frame
  BY <1>1, AndOnes DEF Ones, UNUSED, SF
<1>3. And[<<IdMax, i1.id>>] = i1.id /\ And[<<LenMax, i1.len>>] = i1.len
  BY <1>1, AndOnes DEF Ones
<1>4. /\ FreeItem \in Item /\ FreeItem.data = Blank
      /\ FreeItem.pro = UNUSED /\ FreeItem.frame = SF /\ FreeItem.id = IdMax /\ FreeItem.len = LenMax
  BY Fields DEF FreeItem, Item, Data, UNUSED, SF
<1> DEFINE y == ProgramHead(FreeItem, i1)
           z == [i1 EXCEPT !.data = Blank]
<1>5. y \in Item /\ z \in Item /\ ProgramData(z, i1) \in Item
  <2>1. z \in Item
    BY DEF Item, Data
  <2> QED
    BY <1>4, <2>1, ProgramHeadTyped, ProgramDataTyped
<1>6. \A v, w \in Item :
        v.pro = w.pro /\ v.frame = w.frame /\ v.id = w.id /\ v.len = w.len /\ v.data = w.data => v = w
  BY DEF Item
<1>7. /\ z.pro = i1.pro /\ z.frame = i1.frame /\ z.id = i1.id /\ z.len = i1.len /\ z.data = Blank
  BY DEF Item
<1>8. /\ y.pro = i1.pro /\ y.frame = i1.frame /\ y.id = i1.id /\ y.len = i1.len /\ y.data = Blank
  <2>1. /\ y.pro = And[<<FreeItem.pro, i1.pro>>] /\ y.frame = And[<<FreeItem.frame, i1.frame>>]
        /\ y.id = And[<<FreeItem.id, i1.id>>] /\ y.len = And[<<FreeItem.len, i1.len>>]
        /\ y.data = FreeItem.data
    BY <1>4 DEF ProgramHead, Item
  <2> HIDE DEF y
  <2> QED
    BY <1>2, <1>3, <1>4, <2>1
<1>9. y = z
  <2> HIDE DEF y, z
  <2> QED
    BY <1>5, <1>6, <1>7, <1>8
<1>10. ProgramData(z, i1) = i1
  <2> HIDE DEF z
  <2>1. ProgramData(z, i1) = [z EXCEPT !.data = i1.data]
    BY <1>7 DEF ProgramData
  <2> DEFINE x == [z EXCEPT !.data = i1.data]
  <2>2. /\ x.pro = i1.pro /\ x.frame = i1.frame /\ x.id = i1.id /\ x.len = i1.len /\ x.data = i1.data
    BY <1>5, <1>7 DEF Item
  <2>3. x \in Item
    BY <1>5, <2>1
  <2> HIDE DEF x
  <2>4. x = i1
    BY <1>6, <2>2, <2>3
  <2> QED
    BY <2>1, <2>4 DEF x
<1> QED
  BY <1>9, <1>10

(* The zone that a write makes stays the same, frame by frame, until it is *)
(* there.                                                                  *)
LEMMA PutsOn ==
  ASSUME IInv, PutFrame, NEW c \in Nat, Putting(c)
  PROVE  \/ /\ Putting(c + 1)' /\ c + 1 \in Nat
            /\ call'.phase = "put" /\ call'.op = "write" /\ call'.id = call.id
            /\ call'.len = call.len /\ call'.val = call.val
            /\ Filled(Zone(ex), c + 1, call.k)' = Filled(Zone(ex), c, call.k)
            /\ c + 1 + Frames(call.len)' - call'.k = c + Frames(call.len) - call.k
         \/ /\ call' = NoCall /\ ready' /\ Resting(c + 1)' /\ c + 1 \in (1 .. Capacity + 1)'
            /\ c + 1 = c + Frames(call.len) - call.k + 1
            /\ \A p \in 1 .. Capacity : Zone(ex)'[p] = Filled(Zone(ex), c, call.k)[p]
<1>1. /\ TypeOK /\ TypeInv /\ call.phase = "put" /\ call.op = "write" /\ call.k \in 1 .. Frames(call.len)
      /\ call.k \in Nat /\ Frames(call.len) \in Nat
  <2>1. TypeOK /\ TypeInv /\ call.phase = "put" /\ call.op = "write" /\ call.k \in 1 .. Frames(call.len)
    BY DEF IInv, TypeInv, CallInv, PutFrame
  <2>2. call.len \in Nat /\ call.k \in Nat
    BY <2>1 DEF TypeOK, Call
  <2> QED
    BY <2>1, <2>2, FramesOf
<1>n. PICK n \in Nat : n = Frames(call.len)
  BY <1>1
<1>k. PICK k \in Nat : k = call.k
  BY <1>1
<1> DEFINE z == Zone(ex)
           y == Zone(ex)'
           i1 == Frame(call.k)
<1>3. /\ ready /\ Ring(ex) /\ free = Spot(ex, c) /\ c \in 1 .. Capacity /\ c + n - k <= Capacity
      /\ (\A p \in c .. Capacity : z[p] = FreeItem) /\ Sound(Filled(z, c, k), c + n - k + 1)
      /\ ex \in Sectors /\ Capacity \in Nat /\ ex \in Int
  BY <1>1, <1>n, <1>k, CapacityIs, SectorBefore DEF Putting, TypeOK
<1>4. ready' = ready /\ ex' = ex /\ free' = Spot(ex, c + 1)
  BY <1>3, SpotNext DEF PutFrame
<1>5. i1 \in Item /\ free = Place(ex, c) /\ item[Place(ex, c)] = FreeItem
  <2>1. c \in c .. Capacity
    BY <1>3
  <2>2. z[c] = FreeItem
    BY <1>3, <2>1
  <2> QED
    BY <1>1, <1>3, <2>2, FrameTyped, ZoneItem DEF Spot
<1>6. head' = head /\ item' = [item EXCEPT ![Place(ex, c)] = i1]
  <2>1. Put(free, ProgramData(ProgramHead(item[free], i1), i1))
    BY <1>1 DEF PutFrame, FlashWrite
  <2>2. ProgramData(ProgramHead(FreeItem, i1), i1) = i1
    BY <1>5, ItemProgrammed
  <2> HIDE DEF i1
  <2> QED
    BY <1>5, <2>1, <2>2 DEF Put
<1>7. Ring(ex)' /\ \A p \in 1 .. Capacity : y[p] = IF p = c THEN i1 ELSE z[p]
  <2>1. PICK e \in Sectors : e = ex
    BY <1>3
  <2> HIDE DEF i1, y, z
  <2>2. item' = [item EXCEPT ![Place(e, c)] = i1]
    BY <1>6, <2>1
  <2>3. TypeOK /\ head' = head /\ c \in 1 .. Capacity
    BY <1>1, <1>3, <1>6
  <2>4. /\ Ring(e) => Ring(e)'
        /\ \A p \in 1 .. Capacity : Zone(e)'[p] = IF p = c THEN i1 ELSE Zone(e)[p]
    BY <2>2, <2>3, ZonePut
  <2>5. Ring(e)
    BY <1>3, <2>1
  <2>6. Ring(ex)' /\ y = Zone(e)' /\ z = Zone(e)
    BY <1>4, <2>1, <2>4, <2>5 DEF Ring, Zone, y, z
  <2> QED
    BY <2>4, <2>6
<1>8. Spot(ex, c + 1)' = Spot(ex, c + 1) /\ Capacity' = Capacity
  BY <1>4 DEF Spot, Place, Capacity, Sector, Row, Column
<1>0. n \in Nat /\ k \in Nat /\ k >= 1 /\ k <= n
  BY <1>1, <1>n, <1>k
<1>9. CASE k < n
  <2>1. call' = [call EXCEPT !.k = @ + 1]
    BY <1>9, <1>n, <1>k DEF PutFrame
  <2>2. /\ call'.phase = "put" /\ call'.k = k + 1 /\ call'.len = call.len /\ call'.op = "write"
        /\ call'.id = call.id /\ call'.val = call.val
    BY <1>1, <1>k, <2>1 DEF TypeOK, Call
  <2>3. \A j : Frame(j)' = Frame(j)
    BY <2>2 DEF Frame, FrameKind, Frames
  <2>4. Frames(call.len)' = n
    BY <1>n, <2>2 DEF Frames
  <2>5. Filled(Zone(ex), c + 1, k + 1)' = Filled(z, c, k)
    <3>1. \A p \in 1 .. Capacity :
            (p \in c .. c + n - k <=> p = c \/ p \in c + 1 .. c + 1 + n - (k + 1)) /\ k + 1 + p - (c + 1) = k + p - c
      BY <1>0, <1>3, <1>9
    <3>2. \A p \in 1 .. Capacity : p = c => k + p - c = k /\ p \notin c + 1 .. c + 1 + n - (k + 1)
      BY <1>0, <1>3
    <3>3. Filled(Zone(ex), c + 1, k + 1)'
            = [p \in 1 .. Capacity |-> IF p \in c + 1 .. c + 1 + n - (k + 1) THEN Frame(k + 1 + p - (c + 1)) ELSE y[p]]
      BY <2>3, <2>4 DEF Filled
    <3>4. Filled(z, c, k) = [p \in 1 .. Capacity |-> IF p \in c .. c + n - k THEN Frame(k + p - c) ELSE z[p]]
      BY <1>n DEF Filled
    <3> HIDE DEF y, z
    <3>5. i1 = Frame(k)
      BY <1>k
    <3> HIDE DEF i1
    <3> QED
      BY <1>7, <3>1, <3>2, <3>3, <3>4, <3>5
  <2>6. c + 1 \in 1 .. Capacity /\ c + 1 \in Nat /\ (c + 1) + n - (k + 1) = c + n - k
    BY <1>0, <1>3, <1>9
  <2>7. \A p \in c + 1 .. Capacity : y[p] = FreeItem
    <3>1. \A p \in c + 1 .. Capacity : p \in 1 .. Capacity /\ p \in c .. Capacity /\ p # c
      BY <1>3
    <3> QED
      BY <1>3, <1>7, <3>1
  <2>8. Putting(c + 1)'
    <3>1. Sound(Filled(Zone(ex), c + 1, k + 1)', c + 1 + n - (k + 1) + 1)
      BY <1>3, <2>5, <2>6
    <3>2. c + 1 + n - (k + 1) <= Capacity
      BY <1>3, <2>6
    <3> HIDE DEF z, i1
    <3> QED
      BY <1>3, <1>4, <1>7, <1>8, <2>2, <2>4, <2>6, <2>7, <3>1, <3>2 DEF Putting
  <2>9. Filled(Zone(ex), c + 1, call.k)' = Filled(Zone(ex), c, call.k)
    <3>1. Filled(Zone(ex), c + 1, call.k)' = Filled(Zone(ex), c + 1, k + 1)'
      BY <2>2 DEF Filled
    <3> QED
      BY <1>k, <2>5, <3>1
  <2>10. c + 1 + Frames(call.len)' - call'.k = c + Frames(call.len) - call.k
    <3>1. c + 1 + n - (k + 1) = c + n - k
      BY <1>0
    <3> QED
      BY <1>n, <1>k, <2>2, <2>4, <3>1
  <2> QED
    BY <2>2, <2>6, <2>8, <2>9, <2>10
<1>10. CASE ~ k < n
  <2>1. k = n /\ c + n - k + 1 = c + 1 /\ c + 1 \in 1 .. Capacity + 1
    BY <1>0, <1>3, <1>10
  <2>2. \A p \in 1 .. Capacity : y[p] = Filled(z, c, k)[p]
    <3>1. \A p \in 1 .. Capacity : (p \in c .. c + n - k <=> p = c) /\ (p = c => k + p - c = k)
      BY <1>0, <1>3, <2>1
    <3>2. i1 = Frame(k)
      BY <1>k
    <3>3. Filled(z, c, k) = [p \in 1 .. Capacity |-> IF p \in c .. c + n - k THEN Frame(k + p - c) ELSE z[p]]
      BY <1>n DEF Filled
    <3> HIDE DEF y, z, i1
    <3> QED
      BY <1>7, <3>1, <3>2, <3>3
  <2>5. Sound(y, c + 1)
    <3> HIDE DEF y, z, i1
    <3> QED
      BY <1>3, <2>1, <2>2, SoundSame
  <2>3. call' = NoCall
    BY <1>10, <1>n, <1>k DEF PutFrame, Return
  <2>4. Resting(c + 1)' /\ ready'
    BY <1>3, <1>4, <1>7, <1>8, <2>5 DEF Resting, Old
  <2>6. c + 1 = c + Frames(call.len) - call.k + 1
    BY <1>n, <1>k, <2>1
  <2>7. \A p \in 1 .. Capacity : Zone(ex)'[p] = Filled(Zone(ex), c, call.k)[p]
    BY <1>k, <2>2
  <2>8. c + 1 \in (1 .. Capacity + 1)'
    BY <1>8, <2>1 DEF Capacity
  <2> QED
    BY <2>3, <2>4, <2>6, <2>7, <2>8
<1> QED
  BY <1>9, <1>10

LEMMA ModesPut == IInv /\ PutFrame => Modes'
<1> SUFFICES ASSUME IInv, PutFrame PROVE Modes'
  OBVIOUS
<1>1. PICK c \in Nat : Putting(c)
  BY ModeCases DEF PutFrame
<1>2. \/ Putting(c + 1)' /\ c + 1 \in Nat
      \/ call' = NoCall /\ ready' /\ Resting(c + 1)' /\ c + 1 \in (1 .. Capacity + 1)'
  BY <1>1, PutsOn
<1> QED
  BY <1>2 DEF Modes, Idle

(* A file is found at its first frame, and all its frames are marked.      *)
LEMMA MarkIs ==
  ASSUME Zoned, NEW c, Sound(Zone(ex), c), NEW id, Located(id) # {}
  PROVE  \E m \in 1 .. Capacity : \E k \in Nat :
           /\ Mark(id) = [NoCall EXCEPT !.phase = "mark", !.id = id, !.at = Place(ex, m), !.k = k]
           /\ m + k <= c /\ Sound(Marked(Zone(ex), m, k), c)
           /\ m \in Located(id) /\ k = Frames(Zone(ex)[m].len)
<1>1. PICK m \in Located(id) : m = CHOOSE q \in Located(id) : TRUE
  OBVIOUS
<1>2. m \in 1 .. c - 1 /\ m \in 1 .. Capacity /\ ~ Continues(Zone(ex)[m])
  BY LocatesHead
<1>3. Zone(ex)[m] = item[Place(ex, m)] /\ Addr(m) = Place(ex, m)
  BY <1>2, ZoneItem
<1> DEFINE k == Frames(Zone(ex)[m].len)
<1>4. k \in Nat
  <2>1. Zone(ex)[m] \in Item
    <3>1. m < c
      BY <1>2, CapacityIs DEF Sound
    <3> QED
      BY <1>2, <3>1 DEF Sound, Linear, Written
  <2> QED
    BY <2>1, Fields, FramesOf
<1>5. Mark(id) = [NoCall EXCEPT !.phase = "mark", !.id = id, !.at = Place(ex, m), !.k = k]
  BY <1>1, <1>3 DEF Mark
<1>6. m + k <= c /\ Sound(Marked(Zone(ex), m, k), c)
  BY <1>2, MarkedSound
<1> QED
  BY <1>1, <1>2, <1>4, <1>5, <1>6

LEMMA FramesFit == \A len, r \in Nat : len <= DataLen * r => Frames(len) <= r
<1> SUFFICES ASSUME NEW len \in Nat, NEW r \in Nat, len <= DataLen * r PROVE Frames(len) <= r
  OBVIOUS
<1> DEFINE q == len \div DataLen
           m == len % DataLen
<1>1. DataLen \in Nat \ {0}
  BY Sizes
<1>2. m \in 0 .. DataLen - 1 /\ q \in Int /\ len = DataLen * q + m
  BY <1>1, ModDiv
<1> HIDE DEF q, m
<1> DEFINE d == r - q
<1>3. d \in Int /\ DataLen * d >= m
  <2>1. DataLen * (r - q) = DataLen * r - DataLen * q /\ DataLen * r \in Int /\ DataLen * q \in Int
    BY <1>1, <1>2, Distribute
  <2> QED
    BY <1>1, <1>2, <2>1
<1> HIDE DEF d
<1>4. d >= 0
  <2>1. ~ d <= -1
    BY <1>1, <1>2, <1>3
  <2> QED
    BY <1>3, <2>1
<1>5. m > 0 => d >= 1
  <2>1. d = 0 => DataLen * d = 0
    BY <1>1
  <2> QED
    BY <1>1, <1>2, <1>3, <1>4, <2>1
<1> QED
  BY <1>1, <1>2, <1>3, <1>4, <1>5 DEF Frames, q, m, d

(* A write that fits begins with the mark of the first frame of the file   *)
(* it replaces, or with its own first frame.                               *)
LEMMA WriteBegins ==
  ASSUME IInv, NEW f \in Files, Write(f), Fits(f), NEW c \in 1 .. Capacity + 1, Resting(c)
  PROVE  /\ call'.op = "write" /\ call'.id = f.id /\ call'.len = f.len /\ call'.val = f.val
         /\ \/ /\ call'.phase = "put" /\ call'.k = 1 /\ Resting(c)' /\ Putting(c)' /\ c \in Nat
               /\ Located(f.id) = {} \/ Mark(f.id).k = 0
            \/ /\ call'.phase = "mark"
               /\ \E m \in Nat : /\ Marking(c, m)' /\ m \in Located(f.id) /\ c \in Nat
                                 /\ call'.k = Frames(Zone(ex)[m].len)
         /\ Zone(ex)' = Zone(ex)
<1>1. TypeInv /\ TypeOK /\ call.op = "none" /\ ready
  BY DEF IInv, TypeInv, Write, Calling
<1>2. UNCHANGED <<flash, ram>> /\ ready' = ready /\ ex' = ex /\ free' = free
  BY DEF Write, ram
<1>4. /\ Ring(ex) /\ Sound(Zone(ex), c) /\ free = Spot(ex, c) /\ ex \in Sectors /\ Capacity \in Nat /\ c \in Nat
      /\ Zoned
  BY <1>1, CapacityIs DEF Resting, Old, TypeOK, Zoned
<1>5. Spot(ex, c)' = Spot(ex, c) /\ Capacity' = Capacity
  BY <1>2 DEF Spot, Place, Capacity, Sector, Row, Column
<1>6. Ring(ex)' /\ Zone(ex)' = Zone(ex)
  BY <1>2, <1>4 DEF Ring, Zone, flash
<1>7. call' = Begun(f)
  BY DEF Write, Enter
<1>8. c + Frames(f.len) <= Capacity + 1
  <2>1. f.len <= DataLen * (Capacity + 1 - c)
    BY <1>4, FreeSizeIs DEF Fits
  <2>2. f.len \in Nat /\ Capacity + 1 - c \in Nat /\ Frames(f.len) \in Nat
    <3>1. f.len \in Nat
      BY FsAssumption, Fields
    <3> QED
      BY <1>4, <3>1, FramesOf
  <2> QED
    BY <1>4, <2>1, <2>2, FramesFit
<1>9. CASE Located(f.id) = {} \/ Mark(f.id).k = 0
  <2>1. Begun(f) = [NoCall EXCEPT !.op = "write", !.phase = "put", !.id = f.id,
                                  !.len = f.len, !.val = f.val, !.k = 1]
    BY <1>9 DEF Begun
  <2>2. /\ call'.phase = "put" /\ call'.k = 1 /\ call'.len = f.len
        /\ call'.op = "write" /\ call'.id = f.id /\ call'.val = f.val
    BY <1>7, <2>1 DEF NoCall
  <2>3. PutsBehind'
    <3>1. TypeInv'
      BY TypeStep DEF Next, IInv
    <3>2. (TypeInv => PutsBehind)'
      BY BeginsPutting, PTL
    <3> QED
      BY <3>1, <3>2
  <2>4. Resting(c)'
    BY <1>1, <1>2, <1>4, <1>5, <1>6 DEF Resting, Old
  <2>5. c + Frames(call.len)' <= Capacity + 1
    BY <1>8, <2>2 DEF Frames
  <2>6. Putting(c)'
    BY <1>5, <2>2, <2>3, <2>4, <2>5 DEF PutsBehind
  <2> QED
    BY <1>4, <1>6, <1>9, <2>2, <2>4, <2>6
<1>10. CASE Located(f.id) # {} /\ Mark(f.id).k # 0
  <2>1. PICK m \in 1 .. Capacity, k \in Nat :
          /\ Mark(f.id) = [NoCall EXCEPT !.phase = "mark", !.id = f.id, !.at = Place(ex, m), !.k = k]
          /\ m + k <= c /\ Sound(Marked(Zone(ex), m, k), c)
          /\ m \in Located(f.id) /\ k = Frames(Zone(ex)[m].len)
    BY <1>4, <1>10, MarkIs
  <2>2. call' = [Mark(f.id) EXCEPT !.op = "write", !.len = f.len, !.val = f.val]
    BY <1>7, <1>10 DEF Begun
  <2>3. /\ call'.phase = "mark" /\ call'.k = k /\ call'.len = f.len /\ call'.at = Place(ex, m)
        /\ call'.op = "write" /\ call'.id = f.id /\ call'.val = f.val
    BY <2>1, <2>2 DEF NoCall
  <2>4. Place(ex, m)' = Place(ex, m) /\ m \in Nat
    BY <1>2, <1>4 DEF Place, Sector, Row, Column
  <2>5. Frames(call.len)' = Frames(f.len)
    BY <2>3 DEF Frames
  <2>6. Marking(c, m)'
    BY <1>1, <1>2, <1>4, <1>5, <1>6, <1>8, <2>1, <2>3, <2>4, <2>5 DEF Marking
  <2> QED
    BY <1>4, <1>6, <2>1, <2>3, <2>4, <2>6
<1> QED
  BY <1>9, <1>10

LEMMA ModesWrite == IInv /\ (\E f \in Files : Write(f)) => Modes'
<1> SUFFICES ASSUME IInv, NEW f \in Files, Write(f) PROVE Modes'
  OBVIOUS
<1>1. call.op = "none" /\ ready /\ Idle
  BY ModeCases DEF Write, Calling
<1>2. PICK c \in 1 .. Capacity + 1 : Resting(c)
  BY <1>1 DEF Idle
<1>3. CASE ~ Fits(f)
  <2>1. UNCHANGED <<flash, ram>> /\ call' = NoCall
    BY <1>3 DEF Write, Return
  <2> QED
    BY <1>1, <2>1, StaysIdle DEF Modes
<1>4. CASE Fits(f)
  <2>1. (c \in Nat /\ Putting(c)') \/ \E m \in Nat : c \in Nat /\ Marking(c, m)'
    BY <1>2, <1>4, WriteBegins
  <2> QED
    BY <2>1 DEF Modes
<1> QED
  BY <1>3, <1>4

(* A deletion of a file that there is begins with its first frame.         *)
LEMMA DeleteBegins ==
  ASSUME IInv, NEW id \in Ids, Delete(id), Located(id) # {}, Mark(id).k # 0,
         NEW c \in 1 .. Capacity + 1, Resting(c)
  PROVE  /\ call'.op = "delete" /\ call'.id = id /\ call'.phase = "mark"
         /\ \E m \in Nat : /\ Marking(c, m)' /\ m \in Located(id) /\ c \in Nat
                           /\ call'.k = Frames(Zone(ex)[m].len)
         /\ Zone(ex)' = Zone(ex)
<1>1. TypeInv /\ TypeOK /\ call.op = "none" /\ ready
  BY DEF IInv, TypeInv, Delete, Calling
<1>2. UNCHANGED <<flash, ram>> /\ ready' = ready /\ ex' = ex /\ free' = free
  BY DEF Delete, ram
<1>4. /\ Ring(ex) /\ Sound(Zone(ex), c) /\ free = Spot(ex, c) /\ ex \in Sectors /\ Capacity \in Nat /\ c \in Nat
      /\ Zoned
  BY <1>1, CapacityIs DEF Resting, Old, TypeOK, Zoned
<1>5. Spot(ex, c)' = Spot(ex, c) /\ Capacity' = Capacity
  BY <1>2 DEF Spot, Place, Capacity, Sector, Row, Column
<1>6. Ring(ex)' /\ Zone(ex)' = Zone(ex)
  BY <1>2, <1>4 DEF Ring, Zone, flash
<1>7. PICK m \in 1 .. Capacity, k \in Nat :
        /\ Mark(id) = [NoCall EXCEPT !.phase = "mark", !.id = id, !.at = Place(ex, m), !.k = k]
        /\ m + k <= c /\ Sound(Marked(Zone(ex), m, k), c)
        /\ m \in Located(id) /\ k = Frames(Zone(ex)[m].len)
  BY <1>4, MarkIs
<1>8. call' = [Mark(id) EXCEPT !.op = "delete"]
  BY DEF Delete, Enter
<1>9. /\ call'.phase = "mark" /\ call'.k = k /\ call'.op = "delete" /\ call'.at = Place(ex, m)
      /\ call'.id = id
  BY <1>7, <1>8 DEF NoCall
<1>10. Place(ex, m)' = Place(ex, m) /\ m \in Nat
  BY <1>2, <1>4 DEF Place, Sector, Row, Column
<1>11. Marking(c, m)'
  BY <1>1, <1>2, <1>4, <1>5, <1>6, <1>7, <1>9, <1>10 DEF Marking
<1> QED
  BY <1>4, <1>6, <1>7, <1>9, <1>10, <1>11

LEMMA ModesDelete == IInv /\ (\E id \in Ids : Delete(id)) => Modes'
<1> SUFFICES ASSUME IInv, NEW id \in Ids, Delete(id) PROVE Modes'
  OBVIOUS
<1>1. call.op = "none" /\ ready /\ Idle
  BY ModeCases DEF Delete, Calling
<1>2. PICK c \in 1 .. Capacity + 1 : Resting(c)
  BY <1>1 DEF Idle
<1>3. CASE Located(id) = {} \/ Mark(id).k = 0
  <2>1. UNCHANGED <<flash, ram>> /\ call' = NoCall
    BY <1>3 DEF Delete, Return
  <2> QED
    BY <1>1, <2>1, StaysIdle DEF Modes
<1>4. CASE Located(id) # {} /\ Mark(id).k # 0
  <2>1. \E m \in Nat : c \in Nat /\ Marking(c, m)'
    BY <1>2, <1>4, DeleteBegins
  <2> QED
    BY <2>1 DEF Modes
<1> QED
  BY <1>3, <1>4


-----------------------------------------------------------------------------
(* hal_fs_garbage_collect.                                                 *)

(* The items of the k-th sector behind e.                                  *)
LEMMA SectorRow ==
  ASSUME NEW k \in 0 .. SectorNum - 2
  PROVE  /\ k * Items \in Nat /\ (k + 1) * Items \in Nat /\ (k + 1) * Items = k * Items + Items
         /\ (k + 1) * Items <= Capacity /\ (k = SectorNum - 2 => (k + 1) * Items = Capacity)
         /\ \A e \in Int, p \in Int : k * Items < p /\ p <= (k + 1) * Items
              => Row(p) = k /\ Place(e, p) = <<Sector(e + 1 + k), p - k * Items>>
<1>1. k \in Int /\ k >= 0 /\ SectorNum \in Nat /\ Items \in Nat /\ Items > 0 /\ SectorNum - 2 - k >= 0
  BY Sizes
<1>2. Items * (k + 1) = Items * k + Items * 1 /\ Items * k \in Int
  BY <1>1, Distribute
<1>3. k * Items \in Nat /\ (k + 1) * Items \in Nat /\ (k + 1) * Items = k * Items + Items
  <2>1. k * Items >= 0
    BY <1>1
  <2> QED
    BY <1>1, <1>2, <2>1
<1>4. (k + 1) * Items <= Capacity /\ (k = SectorNum - 2 => (k + 1) * Items = Capacity)
  <2> DEFINE d == SectorNum - 2 - k
  <2>1. Items * (SectorNum - 1) = Items * (k + 1) + Items * d /\ Items * d \in Int
    <3>1. SectorNum - 1 = (k + 1) + d /\ d \in Int /\ k + 1 \in Int
      BY <1>1
    <3> HIDE DEF d
    <3> QED
      BY <1>1, <3>1, Distribute
  <2>2. d >= 0 /\ d \in Int /\ (k = SectorNum - 2 => d = 0)
    BY <1>1
  <2> HIDE DEF d
  <2>3. Items * d >= 0 /\ (d = 0 => Items * d = 0)
    BY <1>1, <2>2
  <2> QED
    BY <1>1, <1>2, <1>3, <2>1, <2>2, <2>3, CapacityIs
<1>5. \A e \in Int, p \in Int : k * Items < p /\ p <= (k + 1) * Items
              => Row(p) = k /\ Place(e, p) = <<Sector(e + 1 + k), p - k * Items>>
  <2> TAKE e \in Int, p \in Int
  <2> HAVE k * Items < p /\ p <= (k + 1) * Items
  <2>1. Row(p) = k /\ Column(p) = p - k * Items
    BY <1>1, RowIs
  <2> QED
    BY <2>1 DEF Place
<1> QED
  BY <1>3, <1>4, <1>5

(* What is written to the zone being made is not in the one still to copy. *)
LEMMA TargetPut ==
  ASSUME TypeOK, ex' = ex, NEW c \in 1 .. Capacity, NEW i1,
         item' = [item EXCEPT ![Place(Sector(ex - 1), c)] = i1]
  PROVE  /\ \A q \in 1 .. Capacity : Target(q)' = IF q = c THEN i1 ELSE Target(q)
         /\ \A p \in c .. Capacity : Source(p)' = Source(p)
<1> DEFINE b == Sector(ex - 1)
           N == SectorNum * Items
<1>1. ex \in Int /\ b \in Sectors /\ b \in Int /\ Capacity \in Nat /\ Items \in Nat /\ Items > 0
      /\ N = Capacity + Items /\ item \in [Addresses -> Item]
  BY SectorBefore, CapacityIs, Sizes DEF TypeOK
<1> HIDE DEF b, N
<1>2. \A q \in 1 .. N : Place(b, q) \in Addresses /\ (Place(b, q) = Place(b, c) <=> q = c)
  <2>1. c \in 1 .. N
    BY <1>1
  <2>2. \A q \in 1 .. N : q \in Int
    BY <1>1
  <2> QED
    BY <1>1, <2>1, <2>2, PlaceIn, PlaceInjective DEF N
<1>3. \A q \in 1 .. N : item'[Place(b, q)] = IF q = c THEN i1 ELSE item[Place(b, q)]
  BY <1>1, <1>2 DEF b
<1>4. \A q \in 1 .. Capacity : Target(q)' = IF q = c THEN i1 ELSE Target(q)
  <2> TAKE q \in 1 .. Capacity
  <2>1. q \in 1 .. N
    BY <1>1
  <2>2. Target(q) = item[Place(b, q)] /\ Target(q)' = item'[Place(b, q)]
    BY DEF Target, Place, Sector, Row, Column, b
  <2> QED
    BY <1>3, <2>1, <2>2
<1>5. \A p \in c .. Capacity : Source(p)' = Source(p)
  <2> TAKE p \in c .. Capacity
  <2>1. p \in Int /\ p + Items \in 1 .. N /\ p + Items # c
    BY <1>1
  <2>2. Place(b, p + Items) = Place(ex, p)
    BY <1>1, <2>1, PlaceBefore DEF b
  <2>3. Source(p) = item[Place(ex, p)] /\ Source(p)' = item'[Place(ex, p)]
    BY DEF Source, Place, Sector, Row, Column
  <2> QED
    BY <1>3, <2>1, <2>2, <2>3
<1> QED
  BY <1>4, <1>5

(* Items that are not used are passed over.                                *)
MovesOver ==
  \A n, F, g : \A c \in Nat, s \in Nat, r \in Nat :
    /\ Moving(c, s, n, F, g) /\ n \in Nat /\ s <= r /\ r <= Capacity + 1
    /\ \A p \in s .. r - 1 : Source(p).pro # USED
    => Moving(c, r, n, F, g)

LEMMA PassesOver == MovesOver
<1> SUFFICES ASSUME NEW n, NEW F, NEW g, NEW c \in Nat, NEW s \in Nat, NEW r \in Nat,
                    Moving(c, s, n, F, g), n \in Nat, s <= r, r <= Capacity + 1,
                    \A p \in s .. r - 1 : Source(p).pro # USED
             PROVE  Moving(c, r, n, F, g)
  BY DEF MovesOver
<1>1. Capacity \in Nat /\ s \in 1 .. Capacity + 1 /\ c <= s /\ c \in 1 .. n
  BY CapacityIs DEF Moving
<1>2. r \in 1 .. Capacity + 1 /\ c <= r
  BY <1>1
<1>3. \A i \in c .. n - 1 : g[i] \in r .. Capacity /\ Source(g[i]) = F[i]
  <2> TAKE i \in c .. n - 1
  <2>1. g[i] \in s .. Capacity /\ Source(g[i]) = F[i]
    BY DEF Moving
  <2>2. i \in 1 .. n - 1
    BY <1>1
  <2>3. F[i].pro = USED
    BY <2>2 DEF Moving
  <2>4. g[i] \notin s .. r - 1
    BY <2>1, <2>3
  <2>5. g[i] \in r .. Capacity
    <3> DEFINE y == g[i]
    <3>1. y \in s .. Capacity /\ y \notin s .. r - 1
      BY <2>1, <2>4
    <3> HIDE DEF y
    <3>2. y \in r .. Capacity
      BY <1>1, <3>1
    <3> QED
      BY <3>2 DEF y
  <2> QED
    BY <2>1, <2>5
<1>4. \A p \in r .. Capacity : p \in s .. Capacity
  BY <1>1
<1> QED
  BY <1>1, <1>2, <1>3, <1>4 DEF Moving


(* From s on the source has items to copy or to leave, then free ones.     *)
Ending(s) ==
  \E f \in 1 .. Capacity + 1 : \A p \in s .. Capacity :
    IF p < f THEN Source(p).pro \in {USED, DELETED} ELSE Source(p) = FreeItem

(* The collector goes on with the next used item of the sector, or leaves  *)
(* it when there is none.                                                  *)
LEMMA CopiesNext ==
  ASSUME ex \in Sectors, call \in Call, NEW k \in 0 .. SectorNum - 2, NEW s \in Nat, Ending(s),
         s >= k * Items + 1, s <= (k + 1) * Items + 1,
         NEW a, a = <<Sector(ex + 1 + k), s - k * Items>>
  PROVE  \E r \in Nat :
           /\ s <= r /\ r <= (k + 1) * Items + 1
           /\ \A p \in s .. r - 1 : Source(p).pro # USED
           /\ \/ /\ r = (k + 1) * Items + 1
                 /\ CopyFrom(a).phase = "erase" /\ CopyFrom(a).at = <<a[1], 1>>
              \/ /\ r <= (k + 1) * Items /\ Source(r).pro = USED
                 /\ CopyFrom(a).phase = "copy" /\ CopyFrom(a).at = Place(ex, r)
<1> DEFINE lo == k * Items
           hi == (k + 1) * Items
<1>1. /\ lo \in Nat /\ hi \in Nat /\ hi = lo + Items /\ hi <= Capacity /\ ex \in Int
      /\ Items \in Nat /\ Items > 0 /\ Capacity \in Nat
  BY SectorRow, SectorBefore, Sizes, CapacityIs
<1>2. \A p \in Int : lo < p /\ p <= hi => Place(ex, p) = <<Sector(ex + 1 + k), p - lo>>
  BY <1>1, SectorRow
<1>3. s >= lo + 1 /\ s <= hi + 1 /\ a[1] = Sector(ex + 1 + k) /\ a[2] = s - lo /\ s \in Int
  OBVIOUS
<1> HIDE DEF lo, hi
<1>4. \A p \in s .. hi : /\ p \in Int /\ lo < p /\ Place(ex, p) = <<a[1], p - lo>> /\ Place(ex, p) \in Addresses
                         /\ p \in s .. Capacity
  BY <1>1, <1>2, <1>3, PlaceIn
<1>5. PICK f \in 1 .. Capacity + 1 : \A p \in s .. Capacity :
        IF p < f THEN Source(p).pro \in {USED, DELETED} ELSE Source(p) = FreeItem
  BY DEF Ending
<1>6. USED # DELETED /\ FreeItem.pro # USED /\ RESERVED # USED
  BY DEF USED, DELETED, FreeItem, UNUSED, RESERVED
(* A kept item is the first used one.                                      *)
<1>7. ASSUME NEW b \in Kept(a)
      PROVE  \E r \in s .. hi : /\ b = Place(ex, r) /\ Source(r).pro = USED
                                /\ \A p \in s .. r - 1 : Source(p).pro # USED
  <2>1. /\ b \in Addresses /\ b[1] = a[1] /\ b[2] >= a[2] /\ item[b].pro = USED
        /\ \A j \in a[2] .. b[2] - 1 : item[<<a[1], j>>].pro \in {DELETED, RESERVED}
    BY DEF Kept
  <2>2. b[2] \in 1 .. Items /\ b = <<b[1], b[2]>>
    BY <2>1 DEF Addresses
  <2>3. PICK r \in Int : r = lo + b[2]
    BY <1>1, <2>2
  <2>4. r \in s .. hi /\ r - lo = b[2]
    BY <1>1, <1>3, <2>1, <2>2, <2>3
  <2>5. b = Place(ex, r)
    BY <1>4, <2>1, <2>2, <2>4
  <2>6. \A p \in s .. r - 1 : Source(p).pro # USED
    <3> TAKE p \in s .. r - 1
    <3>1. p \in s .. hi /\ p - lo \in a[2] .. b[2] - 1
      BY <1>1, <1>3, <2>2, <2>4
    <3>2. Source(p) = item[<<a[1], p - lo>>]
      BY <1>4, <3>1 DEF Source
    <3> QED
      BY <1>6, <2>1, <3>1, <3>2
  <2> QED
    BY <2>1, <2>4, <2>5, <2>6 DEF Source
(* When there is a used item, the first is kept.                           *)
<1>8. ASSUME Kept(a) = {} PROVE \A p \in s .. hi : Source(p).pro # USED
  <2> DEFINE T == {p \in s .. hi : Source(p).pro = USED}
  <2> SUFFICES ASSUME T # {} PROVE FALSE
    OBVIOUS
  <2>1. PICK r \in T : \A p \in T : r <= p
    <3>1. T \in SUBSET Nat
      BY <1>3, <1>1
    <3> HIDE DEF T
    <3> QED
      BY <3>1, Least
  <2>2. r \in s .. hi /\ Source(r).pro = USED /\ \A p \in s .. r - 1 : Source(p).pro # USED
    <3>1. \A p \in s .. r - 1 : p \in s .. hi /\ ~ r <= p
      BY <1>1, <1>3, <2>1
    <3> QED
      BY <2>1, <3>1
  <2>3. r < f
    <3>1. r \in s .. Capacity
      BY <1>4, <2>2
    <3> QED
      BY <1>5, <1>6, <2>2, <3>1
  <2> DEFINE b == Place(ex, r)
  <2>4. b = <<a[1], r - lo>> /\ b \in Addresses /\ b[1] = a[1] /\ b[2] = r - lo /\ r \in Int
    BY <1>4, <2>2
  <2>5. b[2] >= a[2] /\ item[b].pro = USED
    BY <1>1, <1>3, <2>2, <2>4 DEF Source
  <2>6. \A j \in a[2] .. b[2] - 1 : item[<<a[1], j>>].pro \in {DELETED, RESERVED}
    <3> TAKE j \in a[2] .. b[2] - 1
    <3>1. lo + j \in s .. r - 1 /\ lo + j \in s .. hi /\ (lo + j) - lo = j
      BY <1>1, <1>3, <2>2, <2>4
    <3>2. Source(lo + j) = item[<<a[1], j>>]
      BY <1>4, <3>1 DEF Source
    <3>3. lo + j \in s .. Capacity /\ lo + j < f
      BY <1>1, <1>4, <2>2, <2>3, <3>1
    <3>4. Source(lo + j).pro \in {USED, DELETED}
      BY <1>5, <3>3
    <3> QED
      BY <2>2, <3>1, <3>2, <3>4
  <2>7. b \in Kept(a)
    <3> HIDE DEF b
    <3> QED
      BY <2>4, <2>5, <2>6 DEF Kept
  <2> QED
    BY <1>8, <2>7
<1>9. CASE Kept(a) = {}
  <2>1. s <= hi + 1 /\ hi + 1 \in Nat /\ \A p \in s .. (hi + 1) - 1 : Source(p).pro # USED
    <3>1. \A p \in s .. (hi + 1) - 1 : p \in s .. hi
      BY <1>1, <1>3
    <3> QED
      BY <1>1, <1>3, <1>8, <1>9, <3>1
  <2>2. CopyFrom(a).phase = "erase" /\ CopyFrom(a).at = <<a[1], 1>>
    BY <1>9 DEF CopyFrom, Call
  <2>3. PICK r \in Nat : r = hi + 1
    BY <2>1
  <2>4. s <= r /\ r <= hi + 1 /\ \A p \in s .. r - 1 : Source(p).pro # USED
    BY <1>1, <2>1, <2>3
  <2> QED
    BY <2>2, <2>3, <2>4 DEF hi
<1>10. CASE Kept(a) # {}
  <2>1. PICK b \in Kept(a) : b = CHOOSE x \in Kept(a) : TRUE
    BY <1>10
  <2>2. CopyFrom(a) = [call EXCEPT !.phase = "copy", !.at = b]
    BY <1>10, <2>1 DEF CopyFrom
  <2>3. PICK r \in s .. hi : /\ b = Place(ex, r) /\ Source(r).pro = USED
                             /\ \A p \in s .. r - 1 : Source(p).pro # USED
    BY <1>7
  <2>4. r \in Nat /\ s <= r /\ r <= hi /\ r <= hi + 1
    BY <1>1, <1>3
  <2>5. CopyFrom(a).phase = "copy" /\ CopyFrom(a).at = Place(ex, r)
    BY <2>2, <2>3 DEF Call
  <2> QED
    BY <2>3, <2>4, <2>5 DEF hi
<1> QED
  BY <1>9, <1>10


(* The zone being made starts in the exchange sector.                      *)
LEMMA TargetAt ==
  ex \in Sectors => \A q \in Int : Place(Sector(ex - 1), q) = <<Sector(ex + Row(q)), Column(q)>>
<1> SUFFICES ASSUME ex \in Sectors, NEW q \in Int
             PROVE  Place(Sector(ex - 1), q) = <<Sector(ex + Row(q)), Column(q)>>
  OBVIOUS
<1>1. ex \in Int /\ ex - 1 \in Int /\ Row(q) \in Int
  BY SectorBefore, RowColumn
<1>2. (ex - 1) + 1 + Row(q) = ex + Row(q)
  BY <1>1
<1> QED
  BY <1>1, <1>2, PlaceTurn DEF Place

LEMMA MovingUnchanged ==
  ASSUME item' = item, ex' = ex
  PROVE  /\ \A p : Source(p)' = Source(p) /\ Target(p)' = Target(p)
         /\ \A c, s, n, F, g : Moving(c, s, n, F, g)' <=> Moving(c, s, n, F, g)
<1>1. \A p : Source(p)' = Source(p) /\ Target(p)' = Target(p)
  BY DEF Source, Target, Place, Sector, Row, Column
<1> QED
  BY <1>1 DEF Moving

(* A collection begins to make the zone without its deleted items.         *)
LEMMA CollectStarts ==
  ASSUME IInv, Collect, NEW d \in 1 .. Capacity + 1, Resting(d),
         NEW F, NEW g, NEW n \in 1 .. d, Compacts(F, n, g, Zone(ex), d)
  PROVE  Collecting(n, F)'
<1>1. TypeOK /\ ready
  BY DEF IInv, TypeInv, Collect, Calling
<1>2. head' = head /\ item' = item /\ ready' = ready /\ ex' = ex
  BY DEF Collect, flash, ram
<1>4. /\ Ring(ex) /\ Sound(Zone(ex), d) /\ ex \in Sectors /\ ex \in Int /\ Capacity \in Nat /\ d \in Nat
      /\ SectorNum \in Nat /\ SectorNum >= 3 /\ Items \in Nat /\ Items > 0
  BY <1>1, CapacityIs, SectorBefore, Sizes DEF Resting, Old, TypeOK
<1> DEFINE z == Zone(ex)
           U == {p \in 1 .. d - 1 : z[p].pro = USED}
<1>7. /\ Sound(F, n) /\ Enumerates(g, n - 1, U) /\ \A i \in 1 .. n - 1 : F[i] = z[g[i]] /\ F[i].pro = USED
  BY DEF Compacts
<1>8. /\ \A i \in 1 .. n - 1 : g[i] \in U /\ \A j \in 1 .. n - 1 : i < j => g[i] < g[j]
      /\ \A p \in U : \E i \in 1 .. n - 1 : g[i] = p
  BY <1>7 DEF Enumerates
<1>9. \A p \in 1 .. Capacity : Source(p) = z[p]
  BY ZoneItem DEF Source
<1> HIDE DEF z
<1>10. Moving(1, 1, n, F, g)
  <2>1. 1 \in 1 .. n /\ 1 \in 1 .. Capacity + 1 /\ 1 .. 1 - 1 = {}
    BY <1>4
  <2>2. \A i \in 1 .. n - 1 : g[i] \in 1 .. Capacity /\ Source(g[i]) = F[i]
    <3> TAKE i \in 1 .. n - 1
    <3>1. g[i] \in 1 .. d - 1 /\ F[i] = z[g[i]]
      BY <1>7, <1>8
    <3>2. g[i] \in 1 .. Capacity
      <4> DEFINE x == g[i]
      <4>1. x \in 1 .. d - 1
        BY <3>1
      <4> HIDE DEF x
      <4>2. x \in 1 .. Capacity
        BY <1>4, <4>1
      <4> QED
        BY <4>2 DEF x
    <3> QED
      BY <1>9, <3>1, <3>2
  <2>3. \A p \in 1 .. Capacity : IF p < d THEN Source(p).pro \in {USED, DELETED} ELSE Source(p) = FreeItem
    BY <1>4, <1>9 DEF Sound, Linear, Written, z
  <2>4. \A p \in 1 .. Capacity : Source(p).pro = USED => p \in U
    <3>1. FreeItem.pro # USED
      BY DEF FreeItem, UNUSED, USED
    <3> QED
      BY <1>4, <1>9, <2>3, <3>1
  <2> HIDE DEF U
  <2> QED
    BY <1>7, <1>8, <2>1, <2>2, <2>3, <2>4 DEF Moving
<1>11. /\ call'.op = "collect" /\ call'.phase = "index" /\ call'.k = 0 /\ call'.to = <<ex, 1>>
  BY DEF Collect, Enter, NoCall
<1>12. 0 \in 0 .. SectorNum - 2 /\ 0 * Items = 0 /\ (0 + 1) * Items = Items /\ 0 * Items + 1 = 1
  BY <1>4
<1>13. \A q \in 1 .. Items : Row(q) = 0 /\ Column(q) = q /\ q \in Int /\ Place(Sector(ex - 1), q) = <<ex, q>>
                             /\ Place(Sector(ex - 1), q) \in Addresses
  <2> TAKE q \in 1 .. Items
  <2>1. q = Items * 0 + q /\ q \in Int
    BY <1>4
  <2>2. Row(q) = 0 /\ Column(q) = q
    BY <2>1, RowColumnIs
  <2>3. Sector(ex + 0) = ex
    BY <1>4, SectorIs
  <2> QED
    BY <1>4, <2>1, <2>2, <2>3, TargetAt, PlaceIn, SectorBefore
<1>14. \A q \in 1 .. Items : Target(q) = FreeItem
  BY <1>4, <1>13 DEF Target, Ring
<1>15. /\ \A i \in 0 .. SectorNum - 2 : head[Sector(ex + 1 + i)] = i
       /\ head[Sector(ex + 0)] = Erased
       /\ \A i \in 0 .. SectorNum - 2 : ~ i < 0
  BY <1>4, SectorIs DEF Ring
<1>16. Moved(1, 1, FALSE, n, F)'
  <2>1. Moving(1, 1, n, F, g)'
    BY <1>2, <1>10, MovingUnchanged
  <2>2. n \in (1 .. Capacity + 1)'
    BY <1>4 DEF Capacity
  <2>3. (\E h : Moving(1, 1, n, F, h))'
    BY <2>1
  <2>4. call'.to = Place(Sector(ex - 1), 1)'
    <3>1. 1 \in 1 .. Items
      BY <1>4
    <3> QED
      BY <1>2, <1>11, <1>13, <3>1 DEF Place, Sector, Row, Column
  <2>5. \A i \in 0 .. SectorNum - 2 : (0 <= i => head'[Sector(ex' + 1 + i)] = i) /\ ~ i < 0
    BY <1>2, <1>15 DEF Sector
  <2>6. head'[Sector(ex' + 0)] = Erased
    BY <1>2, <1>15 DEF Sector
  <2>7. 1 >= 0 * Items + 1 /\ 1 <= (0 + 1) * Items + 1
    BY <1>4, <1>12
  <2> QED
    BY <1>1, <1>2, <1>11, <1>12, <2>2, <2>3, <2>4, <2>5, <2>6, <2>7 DEF Moved, Sector
<1>17. Room(1)'
  BY <1>2, <1>11, <1>12, <1>14, MovingUnchanged DEF Room
<1>18. ToIndex(1, n, F)'
  BY <1>11, <1>12, <1>16, <1>17 DEF ToIndex
<1> QED
  BY <1>18 DEF Collecting

LEMMA ModesCollect == IInv /\ Collect => Modes'
<1> SUFFICES ASSUME IInv, Collect PROVE Modes'
  OBVIOUS
<1>1. ready /\ Idle
  BY ModeCases DEF Collect, Calling
<1>2. PICK d \in 1 .. Capacity + 1 : Resting(d)
  BY <1>1 DEF Idle
<1>3. PICK F, g : \E n \in 1 .. d : Compacts(F, n, g, Zone(ex), d)
  BY <1>2, CompactsOf DEF Resting, Old
<1>4. PICK n \in 1 .. d : Compacts(F, n, g, Zone(ex), d)
  BY <1>3
<1>5. Collecting(n, F)'
  BY <1>2, <1>4, CollectStarts
<1> QED
  BY <1>5 DEF Modes


(* Where the collector stands when it looks for the next item to copy.     *)
LEMMA GoesOn ==
  ASSUME TypeOK, NEW k \in 0 .. SectorNum - 2, NEW c \in Nat, NEW s \in Nat, Ending(s),
         \A p \in s .. Capacity : Source(p)' = Source(p), ex' = ex,
         s >= k * Items + 1, s <= (k + 1) * Items + 1,
         NEW a, a = <<Sector(ex + 1 + k), s - k * Items>>,
         call'.phase = CopyFrom(a).phase, call'.at = CopyFrom(a).at, call'.k = k,
         NEW n, NEW F, Moved(c, s, TRUE, n, F)', Room(c)'
  PROVE  Collecting(n, F)'
<1>1. /\ k * Items \in Nat /\ (k + 1) * Items \in Nat /\ (k + 1) * Items <= Capacity
      /\ (k + 1) * Items = k * Items + Items /\ Capacity \in Nat /\ Items \in Nat /\ ex \in Sectors
  BY SectorRow, CapacityIs, Sizes DEF TypeOK
<1>2. PICK r \in Nat :
        /\ s <= r /\ r <= (k + 1) * Items + 1
        /\ \A p \in s .. r - 1 : Source(p).pro # USED
        /\ \/ /\ r = (k + 1) * Items + 1
              /\ CopyFrom(a).phase = "erase" /\ CopyFrom(a).at = <<a[1], 1>>
           \/ /\ r <= (k + 1) * Items /\ Source(r).pro = USED
              /\ CopyFrom(a).phase = "copy" /\ CopyFrom(a).at = Place(ex, r)
  BY <1>1, CopiesNext DEF TypeOK
<1>3. Moved(c, r, TRUE, n, F)'
  <2>1. n \in (1 .. Capacity + 1)' /\ (\E g : Moving(c, s, n, F, g))'
    BY DEF Moved
  <2>2. PICK g : Moving(c, s, n, F, g)'
    BY <2>1
  <2>3. MovesOver'
    BY PassesOver, PTL
  <2>4. \A p \in s .. r - 1 : Source(p)'.pro # USED
    <3>1. \A p \in s .. r - 1 : p \in s .. Capacity
      BY <1>1, <1>2
    <3> QED
      BY <1>2, <3>1
  <2>5. n \in Nat /\ r <= Capacity + 1
    BY <1>1, <1>2, <2>1 DEF Capacity
  <2>6. Moving(c, r, n, F, g)'
    BY <1>2, <2>2, <2>3, <2>4, <2>5 DEF MovesOver, Capacity
  <2>7. (\E h : Moving(c, r, n, F, h))'
    BY <2>6
  <2>8. r >= k * Items + 1 /\ r <= (k + 1) * Items + 1
    BY <1>1, <1>2
  <2> QED
    BY <2>1, <2>7, <2>8 DEF Moved
<1>4. CASE /\ r = (k + 1) * Items + 1
           /\ CopyFrom(a).phase = "erase" /\ CopyFrom(a).at = <<a[1], 1>>
  <2>1. call'.phase = "erase" /\ call'.at = <<a[1], 1>>
    BY <1>4
  <2>2. call'.at[1] = Sector(ex' + 1 + call'.k)
    BY <2>1
  <2>3. ToErase(c, n, F)'
    BY <1>3, <1>4, <2>1, <2>2 DEF ToErase, Sector
  <2> QED
    BY <2>3 DEF Collecting
<1>5. CASE /\ r <= (k + 1) * Items /\ Source(r).pro = USED
           /\ CopyFrom(a).phase = "copy" /\ CopyFrom(a).at = Place(ex, r)
  <2>1. call'.phase = "copy" /\ call'.at = Place(ex, r)
    BY <1>5
  <2>2. Source(r)'.pro = USED
    <3>1. r \in s .. Capacity
      BY <1>1, <1>2, <1>5
    <3> QED
      BY <1>5, <3>1
  <2>3. Place(ex, r)' = Place(ex, r)
    BY DEF Place, Sector, Row, Column
  <2>4. ToCopy(c, r, n, F)'
    BY <1>3, <1>5, <2>1, <2>2, <2>3 DEF ToCopy
  <2> QED
    BY <2>4 DEF Collecting
<1> QED
  BY <1>2, <1>4, <1>5

(* Whatever the collector does, the zone it makes stays the same.          *)
LEMMA CollectsIndex ==
  ASSUME IInv, CollectIndex, NEW n, NEW F, NEW c \in Nat, ToIndex(c, n, F)
  PROVE  Collecting(n, F)'
<1>1. TypeOK /\ call.phase = "index" /\ call.op = "collect"
  BY DEF IInv, TypeInv, CollectIndex
<1>k. PICK k \in Int : k = call.k
  BY <1>1 DEF TypeOK, Call
<1> DEFINE s == k * Items + 1
<1>3. /\ Moved(c, s, FALSE, n, F) /\ Room(c) /\ ready /\ k \in 0 .. SectorNum - 2
      /\ \A i \in 0 .. SectorNum - 2 : i < k => head[Sector(ex + i)] = i
      /\ \A i \in 0 .. SectorNum - 2 : k <= i => head[Sector(ex + 1 + i)] = i
      /\ head[Sector(ex + k)] = Erased /\ call.to = Place(Sector(ex - 1), c)
      /\ s >= k * Items + 1 /\ s <= (k + 1) * Items + 1
  BY <1>k DEF ToIndex, Moved
<1>4. /\ k * Items \in Nat /\ (k + 1) * Items \in Nat /\ ex \in Sectors /\ ex \in Int /\ SectorNum \in Nat
      /\ s \in Nat /\ s - k * Items = 1
  <2>1. k * Items \in Nat /\ (k + 1) * Items \in Nat
    BY <1>3, SectorRow
  <2> QED
    BY <1>1, <2>1, SectorBefore, Sizes DEF TypeOK
<1> HIDE DEF s
<1>5. n \in 1 .. Capacity + 1 /\ \E g : Moving(c, s, n, F, g)
  BY <1>3 DEF Moved
<1>6. PICK g : Moving(c, s, n, F, g)
  BY <1>5
<1>7. Ending(s)
  BY <1>6 DEF Moving, Ending
<1>8. head' = [head EXCEPT ![Sector(ex + k)] = k] /\ item' = item
  <2>1. PutIndex(Sector(ex + k), k)
    BY <1>1, <1>k DEF CollectIndex, FlashWrite
  <2>2. And[<<Erased, k>>] = k
    <3>1. k \in 0 .. SectorNum - 1
      BY <1>3, <1>4
    <3> QED
      BY <3>1, IndexProgrammed
  <2> QED
    BY <1>3, <2>1, <2>2 DEF PutIndex
<1>9. ready' = ready /\ ex' = ex
  BY DEF CollectIndex, ram
<1>10. \A p : Source(p)' = Source(p) /\ Target(p)' = Target(p)
  BY <1>8, <1>9, MovingUnchanged
<1> DEFINE a == <<Sector(ex + 1 + k), 1>>
<1>11. a = <<Sector(ex + 1 + k), s - k * Items>> /\ call' = CopyFrom(a)
  BY <1>4, <1>k DEF CollectIndex
<1>12. call'.op = "collect" /\ call'.k = k /\ call'.to = call.to
  <2> HIDE DEF a
  <2> QED
    BY <1>1, <1>k, <1>11 DEF CopyFrom, TypeOK, Call
<1>13. \A i \in 0 .. SectorNum - 1 : Sector(ex + i) \in Sectors /\ (Sector(ex + i) = Sector(ex + k) <=> i = k)
  <2> TAKE i \in 0 .. SectorNum - 1
  <2>1. ex + i \in Int /\ k \in 0 .. SectorNum - 1
    BY <1>3, <1>4
  <2> QED
    BY <1>4, <2>1, SectorIn, RingApart
<1>14. \A i \in 0 .. SectorNum - 1 : head'[Sector(ex + i)] = IF i = k THEN k ELSE head[Sector(ex + i)]
  BY <1>1, <1>8, <1>13 DEF TypeOK
<1>15. Moved(c, s, TRUE, n, F)'
  <2>1. Moving(c, s, n, F, g)'
    BY <1>6, <1>8, <1>9, MovingUnchanged
  <2>2. n \in (1 .. Capacity + 1)' /\ (\E h : Moving(c, s, n, F, h))'
    BY <2>1, <1>5 DEF Capacity
  <2>3. \A i \in 0 .. SectorNum - 2 : i < k \/ i = k => head'[Sector(ex + i)] = i
    BY <1>3, <1>4, <1>14
  <2>4. \A i \in 0 .. SectorNum - 2 : k <= i => head'[Sector(ex + 1 + i)] = i
    <3> TAKE i \in 0 .. SectorNum - 2
    <3> HAVE k <= i
    <3>1. 1 + i \in 0 .. SectorNum - 1 /\ 1 + i # k /\ ex + (1 + i) = ex + 1 + i
      BY <1>3, <1>4
    <3> QED
      BY <1>3, <1>14, <3>1
  <2>5. Place(Sector(ex - 1), c)' = Place(Sector(ex - 1), c)
    BY <1>9 DEF Place, Sector, Row, Column
  <2> QED
    BY <1>3, <1>9, <1>12, <2>2, <2>3, <2>4, <2>5 DEF Moved, Sector
<1>16. Room(c)'
  BY <1>3, <1>k, <1>10, <1>12 DEF Room
<1> HIDE DEF a
<1> QED
  BY <1>1, <1>3, <1>4, <1>7, <1>9, <1>10, <1>11, <1>12, <1>15, <1>16, GoesOn


LEMMA MovingKept ==
  ASSUME NEW c, NEW s, NEW n, NEW F, NEW g, Moving(c, s, n, F, g),
         \A q \in 1 .. c - 1 : Target(q)' = Target(q), \A p \in s .. Capacity : Source(p)' = Source(p)
  PROVE  Moving(c, s, n, F, g)'
BY DEF Moving, Capacity

(* What a mode that copies the item s to the item c says.                  *)
LEMMA CopyFacts ==
  ASSUME TypeOK, NEW c \in Nat, NEW s \in Nat, NEW k \in Int, k = call.k,
         NEW n, NEW F, Moved(c, s, TRUE, n, F), s <= (k + 1) * Items
  PROVE  /\ k \in 0 .. SectorNum - 2 /\ k * Items \in Nat /\ (k + 1) * Items \in Nat
         /\ (k + 1) * Items <= Capacity /\ Capacity \in Nat /\ ex \in Sectors /\ ex \in Int
         /\ s >= k * Items + 1 /\ s \in 1 .. Capacity /\ c \in 1 .. Capacity /\ c <= s
         /\ Source(s) \in Item /\ Place(ex, s) = <<Sector(ex + 1 + k), s - k * Items>>
<1>1. k \in 0 .. SectorNum - 2 /\ s >= k * Items + 1
  BY DEF Moved
<1>2. /\ k * Items \in Nat /\ (k + 1) * Items \in Nat /\ (k + 1) * Items <= Capacity /\ Capacity \in Nat
      /\ ex \in Sectors /\ ex \in Int
  BY <1>1, SectorRow, CapacityIs, SectorBefore DEF TypeOK
<1>3. s \in 1 .. Capacity
  BY <1>1, <1>2
<1>4. c <= s /\ c >= 1
  <2>1. PICK g : Moving(c, s, n, F, g)
    BY DEF Moved
  <2> QED
    BY <1>2, <2>1 DEF Moving
<1>5. c \in 1 .. Capacity
  BY <1>2, <1>3, <1>4
<1>6. Source(s) \in Item
  BY <1>2, PlaceIn DEF Source, TypeOK
<1>7. Place(ex, s) = <<Sector(ex + 1 + k), s - k * Items>>
  BY <1>1, <1>2, SectorRow
<1> QED
  BY <1>1, <1>2, <1>3, <1>4, <1>5, <1>6, <1>7

LEMMA CopiesHead ==
  ASSUME IInv, CopyHead, NEW n, NEW F, NEW c \in Nat, NEW s \in Nat, ToCopy(c, s, n, F)
  PROVE  Collecting(n, F)'
<1>1. TypeOK /\ call.phase = "copy"
  BY DEF IInv, TypeInv, CopyHead
<1>k. PICK k \in Int : k = call.k
  BY <1>1 DEF TypeOK, Call
<1>3. /\ Moved(c, s, TRUE, n, F) /\ Room(c) /\ s <= (k + 1) * Items /\ Source(s).pro = USED
      /\ call.at = Place(ex, s) /\ call.to = Place(Sector(ex - 1), c) /\ ready
  BY <1>k DEF ToCopy, Moved
<1>4. /\ k \in 0 .. SectorNum - 2 /\ k * Items \in Nat /\ (k + 1) * Items \in Nat
      /\ (k + 1) * Items <= Capacity /\ Capacity \in Nat /\ ex \in Sectors /\ ex \in Int
      /\ s >= k * Items + 1 /\ s \in 1 .. Capacity /\ c \in 1 .. Capacity /\ c <= s
      /\ Source(s) \in Item
  BY <1>1, <1>3, <1>k, CopyFacts
<1>5. Target(c) = FreeItem
  <2>1. c \in c .. (k + 1) * Items
    BY <1>3, <1>4
  <2> QED
    BY <1>3, <1>k, <2>1 DEF Room
<1> DEFINE i1 == [Source(s) EXCEPT !.data = Blank]
<1>6. head' = head /\ item' = [item EXCEPT ![Place(Sector(ex - 1), c)] = i1]
  <2>1. Put(call.to, ProgramHead(item[call.to], item[call.at]))
    BY <1>1 DEF CopyHead, FlashWrite
  <2>2. item[call.to] = FreeItem /\ item[call.at] = Source(s)
    BY <1>3, <1>5 DEF Target, Source
  <2>3. ProgramHead(FreeItem, Source(s)) = i1
    BY <1>4, ItemProgrammed
  <2> HIDE DEF i1
  <2> QED
    BY <1>3, <2>1, <2>2, <2>3 DEF Put
<1> HIDE DEF i1
<1>7. ready' = ready /\ ex' = ex
  BY DEF CopyHead, ram
<1>8. /\ \A q \in 1 .. Capacity : Target(q)' = IF q = c THEN i1 ELSE Target(q)
      /\ \A p \in c .. Capacity : Source(p)' = Source(p)
  BY <1>1, <1>4, <1>6, <1>7, TargetPut
<1>9. Target(c)' = i1 /\ Source(s)' = Source(s) /\ \A p \in s .. Capacity : Source(p)' = Source(p)
  <2>1. s \in c .. Capacity /\ \A p \in s .. Capacity : p \in c .. Capacity
    BY <1>4
  <2> QED
    BY <1>4, <1>8, <2>1
<1>10. /\ call'.op = call.op /\ call'.phase = "data" /\ call'.k = k /\ call'.at = call.at /\ call'.to = call.to
  BY <1>1, <1>k DEF CopyHead, TypeOK, Call
<1>11. n \in 1 .. Capacity + 1 /\ \E h : Moving(c, s, n, F, h)'
  <2>1. n \in 1 .. Capacity + 1 /\ \E g : Moving(c, s, n, F, g)
    BY <1>3 DEF Moved
  <2>2. PICK g : Moving(c, s, n, F, g)
    BY <2>1
  <2>3. \A q \in 1 .. c - 1 : Target(q)' = Target(q)
    <3>1. \A q \in 1 .. c - 1 : q \in 1 .. Capacity /\ q # c
      BY <1>4
    <3> QED
      BY <1>8, <3>1
  <2>4. Moving(c, s, n, F, g)'
    BY <1>9, <2>2, <2>3, MovingKept
  <2> QED
    BY <2>1, <2>4
<1>12. Moved(c, s, TRUE, n, F)'
  <2>1. Place(Sector(ex - 1), c)' = Place(Sector(ex - 1), c)
    BY <1>7 DEF Place, Sector, Row, Column
  <2> QED
    BY <1>3, <1>6, <1>7, <1>10, <1>11, <1>k, <2>1 DEF Moved, Sector, Capacity
<1>13. Room(c + 1)'
  <2>1. \A q \in c + 1 .. (k + 1) * Items : q \in 1 .. Capacity /\ q # c /\ q \in c .. (k + 1) * Items
    BY <1>4
  <2> QED
    BY <1>3, <1>8, <1>10, <1>k, <2>1 DEF Room
<1>14. Place(ex, s)' = Place(ex, s)
  BY <1>7 DEF Place, Sector, Row, Column
<1>15. ToData(c, s, n, F)'
  <2>1. Target(c)' = [Source(s)' EXCEPT !.data = Blank]
    BY <1>9 DEF i1
  <2> QED
    BY <1>3, <1>9, <1>10, <1>12, <1>13, <1>14, <2>1 DEF ToData
<1> QED
  BY <1>15 DEF Collecting


LEMMA CopiesData ==
  ASSUME IInv, CopyData, NEW n, NEW F, NEW c \in Nat, NEW s \in Nat, ToData(c, s, n, F)
  PROVE  Collecting(n, F)'
<1>1. TypeOK /\ call.phase = "data" /\ call \in Call
  BY DEF IInv, TypeInv, CopyData, TypeOK
<1>k. PICK k \in Int : k = call.k
  BY <1>1 DEF Call
<1>3. /\ Moved(c, s, TRUE, n, F) /\ Room(c + 1) /\ s <= (k + 1) * Items /\ Source(s).pro = USED
      /\ call.at = Place(ex, s) /\ call.to = Place(Sector(ex - 1), c) /\ ready /\ call.op = "collect"
  BY <1>k DEF ToData, Moved
<1>4. /\ k \in 0 .. SectorNum - 2 /\ k * Items \in Nat /\ (k + 1) * Items \in Nat
      /\ (k + 1) * Items <= Capacity /\ Capacity \in Nat /\ ex \in Sectors /\ ex \in Int
      /\ s >= k * Items + 1 /\ s \in 1 .. Capacity /\ c \in 1 .. Capacity /\ c <= s
      /\ Source(s) \in Item /\ Place(ex, s) = <<Sector(ex + 1 + k), s - k * Items>>
  BY <1>1, <1>3, <1>k, CopyFacts
<1> DEFINE i1 == Source(s)
<1>6. head' = head /\ item' = [item EXCEPT ![Place(Sector(ex - 1), c)] = i1]
  <2>1. Put(call.to, ProgramData(item[call.to], item[call.at]))
    BY <1>1 DEF CopyData, FlashWrite
  <2>2. item[call.to] = Target(c) /\ item[call.at] = i1
    BY <1>3 DEF Target, Source
  <2>3. Target(c) = [i1 EXCEPT !.data = Blank]
    BY DEF ToData
  <2>4. ProgramData(Target(c), i1) = i1
    <3>1. ProgramData([i1 EXCEPT !.data = Blank], i1) = i1
      <4> HIDE DEF i1
      <4>1. i1 \in Item
        BY <1>4 DEF i1
      <4> QED
        BY <4>1, ItemProgrammed
    <3> HIDE DEF i1
    <3> QED
      BY <2>3, <3>1
  <2> HIDE DEF i1
  <2> QED
    BY <1>3, <2>1, <2>2, <2>4 DEF Put
<1>7. ready' = ready /\ ex' = ex
  BY DEF CopyData, ram
<1>8. /\ \A q \in 1 .. Capacity : Target(q)' = IF q = c THEN i1 ELSE Target(q)
      /\ \A p \in c .. Capacity : Source(p)' = Source(p)
  <2> HIDE DEF i1
  <2> QED
    BY <1>1, <1>4, <1>6, <1>7, TargetPut
<1>9. \A p \in s .. Capacity : Source(p)' = Source(p)
  <2>1. \A p \in s .. Capacity : p \in c .. Capacity
    BY <1>4
  <2> QED
    BY <1>8, <2>1
<1>10. n \in 1 .. Capacity + 1 /\ \E g : Moving(c, s, n, F, g)
  BY <1>3 DEF Moved
<1>11. PICK g : Moving(c, s, n, F, g)
  BY <1>10
<1>12. /\ Sound(F, n) /\ \A i \in 1 .. n - 1 : F[i].pro = USED
       /\ c \in 1 .. n /\ s \in 1 .. Capacity + 1 /\ c <= s
       /\ \A q \in 1 .. c - 1 : Target(q) = F[q]
       /\ \A i \in c .. n - 1 : g[i] \in s .. Capacity /\ Source(g[i]) = F[i]
       /\ \A i, j \in c .. n - 1 : i < j => g[i] < g[j]
       /\ \A p \in s .. Capacity : Source(p).pro = USED => \E i \in c .. n - 1 : g[i] = p
       /\ Ending(s)
  BY <1>11 DEF Moving, Ending
(* The item copied is the next one of the zone that is being made.         *)
<1>13. c \in c .. n - 1 /\ g[c] = s /\ F[c] = i1
  <2>1. PICK i \in c .. n - 1 : g[i] = s
    <3>1. s \in s .. Capacity
      BY <1>4
    <3> QED
      BY <1>3, <1>12, <3>1
  <2>2. c \in c .. n - 1
    BY <1>4, <1>10
  <2>3. i = c
    <3> SUFFICES ASSUME c < i PROVE FALSE
      BY <1>4, <2>1
    <3>1. g[c] < g[i] /\ g[c] \in s .. Capacity
      BY <1>12, <2>1, <2>2
    <3> QED
      BY <1>4, <2>1, <3>1
  <2> QED
    BY <1>12, <2>1, <2>2, <2>3
<1> HIDE DEF i1
<1>14. Moving(c + 1, s + 1, n, F, g)'
  <2>1. c + 1 \in 1 .. n /\ s + 1 \in 1 .. Capacity + 1 /\ c + 1 <= s + 1
    BY <1>4, <1>10, <1>13
  <2>2. \A q \in 1 .. (c + 1) - 1 : Target(q)' = F[q]
    <3>1. \A q \in 1 .. (c + 1) - 1 : q \in 1 .. Capacity /\ (q = c \/ (q \in 1 .. c - 1 /\ q # c))
      BY <1>4
    <3> QED
      BY <1>8, <1>12, <1>13, <3>1
  <2>3. \A i \in c + 1 .. n - 1 : i \in c .. n - 1 /\ c < i
    BY <1>4, <1>10
  <2>4. \A i \in c + 1 .. n - 1 : g[i] \in s + 1 .. Capacity /\ Source(g[i])' = F[i]
    <3> TAKE i \in c + 1 .. n - 1
    <3>1. g[i] \in s .. Capacity /\ Source(g[i]) = F[i] /\ s < g[i]
      BY <1>12, <1>13, <2>3
    <3>2. g[i] \in s + 1 .. Capacity
      <4> DEFINE x == g[i]
      <4>1. x \in s .. Capacity /\ s < x
        BY <3>1
      <4> HIDE DEF x
      <4>2. x \in s + 1 .. Capacity
        BY <1>4, <4>1
      <4> QED
        BY <4>2 DEF x
    <3> QED
      BY <1>9, <3>1, <3>2
  <2>5. \A p \in s + 1 .. Capacity : p \in s .. Capacity /\ p # s /\ Source(p)' = Source(p)
    <3>1. \A p \in s + 1 .. Capacity : p \in s .. Capacity /\ p # s
      BY <1>4
    <3> QED
      BY <1>9, <3>1
  <2>6. \A p \in s + 1 .. Capacity : Source(p)'.pro = USED => \E i \in c + 1 .. n - 1 : g[i] = p
    <3> SUFFICES ASSUME NEW p \in s + 1 .. Capacity, Source(p)'.pro = USED
                 PROVE  \E i \in c + 1 .. n - 1 : g[i] = p
      OBVIOUS
    <3>1. PICK i \in c .. n - 1 : g[i] = p
      BY <1>12, <2>5
    <3>2. i # c
      BY <1>13, <2>5, <3>1
    <3>3. i \in c + 1 .. n - 1
      BY <1>4, <1>10, <3>2
    <3> QED
      BY <3>1, <3>3
  <2>7. \E f \in 1 .. Capacity + 1 : \A p \in s + 1 .. Capacity :
          IF p < f THEN Source(p)'.pro \in {USED, DELETED} ELSE Source(p)' = FreeItem
    BY <1>12, <2>5 DEF Ending
  <2> QED
    BY <1>12, <2>1, <2>2, <2>3, <2>4, <2>6, <2>7 DEF Moving, Capacity
<1> DEFINE a == <<call.at[1], call.at[2] + 1>>
<1>15. a = <<Sector(ex + 1 + k), (s + 1) - k * Items>>
  BY <1>3, <1>4
<1>16. /\ CopyFrom(a).op = "collect" /\ CopyFrom(a).k = k /\ CopyFrom(a).to = call.to
       /\ CopyFrom(a).phase \in {"erase", "copy"} /\ CopyFrom(a) \in Call
  <2>1. a \in Sectors \X (1 .. Items + 1)
    <3>1. /\ ex + 1 + k \in Int /\ (s + 1) - k * Items \in 1 .. Items + 1
      <4>1. (k + 1) * Items = k * Items + Items
        BY <1>4, SectorRow
      <4> QED
        BY <1>3, <1>4, <4>1, Sizes
    <3> QED
      BY <1>15, <3>1, SectorIn
  <2> HIDE DEF a
  <2>2. CASE CopyFrom(a) = [call EXCEPT !.phase = "erase", !.at = <<a[1], 1>>] /\ <<a[1], 1>> \in Addresses
    BY <1>1, <1>3, <1>k, <2>2 DEF Call
  <2>3. ASSUME NEW b \in Kept(a), b \in Addresses, CopyFrom(a) = [call EXCEPT !.phase = "copy", !.at = b]
        PROVE  /\ CopyFrom(a).op = "collect" /\ CopyFrom(a).k = k /\ CopyFrom(a).to = call.to
               /\ CopyFrom(a).phase \in {"erase", "copy"} /\ CopyFrom(a) \in Call
    BY <1>1, <1>3, <1>k, <2>3 DEF Call
  <2> QED
    BY <1>1, <2>1, <2>2, <2>3, CopyFromTyped
<1>17. /\ call'.op = "collect" /\ call'.k = k /\ call'.phase = CopyFrom(a).phase /\ call'.at = CopyFrom(a).at
       /\ call'.to = Place(Sector(ex - 1), c + 1)
  <2>1. call' = [CopyFrom(a) EXCEPT !.to = After(@)]
    BY DEF CopyData
  <2>2. After(call.to) = Place(Sector(ex - 1), c + 1)
    <3>1. Sector(ex - 1) \in Int
      BY <1>4, SectorBefore
    <3> QED
      BY <1>3, <3>1, PlaceAfter
  <2> HIDE DEF a
  <2> QED
    BY <1>16, <2>1, <2>2 DEF Call
<1>18. Moved(c + 1, s + 1, TRUE, n, F)'
  <2>1. Place(Sector(ex - 1), c + 1)' = Place(Sector(ex - 1), c + 1)
    BY <1>7 DEF Place, Sector, Row, Column
  <2>2. s + 1 >= k * Items + 1 /\ s + 1 <= (k + 1) * Items + 1
    BY <1>3, <1>4
  <2>3. n \in (1 .. Capacity + 1)' /\ (\E h : Moving(c + 1, s + 1, n, F, h))'
    BY <1>10, <1>14 DEF Capacity
  <2> QED
    BY <1>3, <1>6, <1>7, <1>17, <1>k, <2>1, <2>2, <2>3 DEF Moved, Sector
<1>19. Room(c + 1)'
  <2>1. \A q \in c + 1 .. (k + 1) * Items : q \in 1 .. Capacity /\ q # c
    BY <1>4
  <2> QED
    BY <1>3, <1>8, <1>17, <1>k, <2>1 DEF Room
<1>20. Ending(s + 1) /\ (\A p \in s + 1 .. Capacity : Source(p)' = Source(p)) /\ c + 1 \in Nat /\ s + 1 \in Nat
       /\ s + 1 >= k * Items + 1 /\ s + 1 <= (k + 1) * Items + 1
  <2>1. \A p \in s + 1 .. Capacity : p \in s .. Capacity
    BY <1>4
  <2> QED
    BY <1>3, <1>4, <1>9, <1>12, <2>1 DEF Ending
<1> HIDE DEF a
<1> QED
  BY <1>1, <1>4, <1>7, <1>15, <1>17, <1>18, <1>19, <1>20, GoesOn


LEMMA Erases ==
  ASSUME IInv, EraseCopied, NEW n, NEW F, NEW c \in Nat, ToErase(c, n, F)
  PROVE  \/ Collecting(n, F)'
         \/ Collected(n)' /\ \A q \in 1 .. Capacity : Zone(Sector(ex - 1))'[q] = F[q]
<1>1. TypeOK /\ call.phase = "erase" /\ call \in Call
  BY DEF IInv, TypeInv, EraseCopied, TypeOK
<1>k. PICK k \in Int : k = call.k
  BY <1>1 DEF Call
<1>s. PICK s \in Int : s = (k + 1) * Items + 1
  BY Sizes
<1> DEFINE x == Sector(ex + 1 + k)
<1>3. /\ Moved(c, s, TRUE, n, F) /\ Room(c) /\ call.at[1] = x
      /\ ready /\ call.op = "collect" /\ k \in 0 .. SectorNum - 2
      /\ \A i \in 0 .. SectorNum - 2 : i < k \/ i = k => head[Sector(ex + i)] = i
      /\ \A i \in 0 .. SectorNum - 2 : k <= i => head[Sector(ex + 1 + i)] = i
      /\ call.to = Place(Sector(ex - 1), c)
  BY <1>k, <1>s DEF ToErase, Moved
<1>4. /\ k * Items \in Nat /\ (k + 1) * Items \in Nat /\ (k + 1) * Items <= Capacity
      /\ (k = SectorNum - 2 => (k + 1) * Items = Capacity)
      /\ Capacity \in Nat /\ ex \in Sectors /\ ex \in Int /\ Items \in Nat /\ Items > 0 /\ SectorNum \in Nat
      /\ Sector(ex - 1) \in Sectors /\ s \in Nat /\ s >= 1
  <2>1. /\ k * Items \in Nat /\ (k + 1) * Items \in Nat /\ (k + 1) * Items <= Capacity
        /\ (k = SectorNum - 2 => (k + 1) * Items = Capacity)
    BY <1>3, SectorRow
  <2> QED
    BY <1>1, <1>s, <2>1, CapacityIs, SectorBefore, Sizes DEF TypeOK
<1>5. /\ head' = [head EXCEPT ![x] = Erased]
      /\ item' = [a \in Addresses |-> IF a[1] = x THEN FreeItem ELSE item[a]]
      /\ ready' = ready /\ ex' = ex
  BY <1>3 DEF EraseCopied, EraseSector, ram
(* The sector that is erased is the one behind ex by k + 1.                *)
<1>6. \A i \in 0 .. SectorNum - 1 : Sector(ex + i) \in Sectors /\ (Sector(ex + i) = x <=> i = k + 1)
  <2> TAKE i \in 0 .. SectorNum - 1
  <2>1. ex + i \in Int /\ k + 1 \in 0 .. SectorNum - 1 /\ ex + (k + 1) = ex + 1 + k
    BY <1>3, <1>4
  <2>2. x = Sector(ex + (k + 1))
    BY <2>1
  <2> HIDE DEF x
  <2>3. Sector(ex + i) = Sector(ex + (k + 1)) <=> i = k + 1
    BY <1>4, <2>1, RingApart
  <2> QED
    BY <2>1, <2>2, <2>3, SectorIn
<1>7. \A i \in 0 .. SectorNum - 1 : head'[Sector(ex + i)] = IF i = k + 1 THEN Erased ELSE head[Sector(ex + i)]
  <2> HIDE DEF x
  <2> QED
    BY <1>1, <1>5, <1>6 DEF TypeOK
<1>8. \A q \in 1 .. Capacity :
        Target(q)' = IF Row(q) = k + 1 THEN FreeItem ELSE Target(q)
  <2> TAKE q \in 1 .. Capacity
  <2>1. /\ q \in Int /\ Place(Sector(ex - 1), q) = <<Sector(ex + Row(q)), Column(q)>>
        /\ Place(Sector(ex - 1), q) \in Addresses
    <3>1. q \in Int
      BY <1>4
    <3>2. Place(Sector(ex - 1), q) = <<Sector(ex + Row(q)), Column(q)>>
      BY <1>4, <3>1, TargetAt
    <3>3. Sector(ex - 1) \in Int
      BY <1>4, SectorBefore
    <3> QED
      BY <3>1, <3>2, <3>3, PlaceIn
  <2>2. Row(q) \in 0 .. SectorNum - 1
    BY <1>4, RowBound
  <2>3. Target(q)' = item'[Place(Sector(ex - 1), q)] /\ Target(q) = item[Place(Sector(ex - 1), q)]
    BY <1>5 DEF Target, Place, Sector, Row, Column
  <2> HIDE DEF x
  <2> QED
    BY <1>5, <1>6, <2>1, <2>2, <2>3
<1>9. \A p \in s .. Capacity : Source(p)' = Source(p)
  <2> TAKE p \in s .. Capacity
  <2>1. p \in 1 .. Capacity /\ p \in Int
    BY <1>4
  <2>2. Place(ex, p) = <<Sector(ex + 1 + Row(p)), Column(p)>> /\ Place(ex, p) \in Addresses
    BY <1>4, <2>1, PlaceIn DEF Place
  <2>3. Row(p) \in 0 .. SectorNum - 2 /\ Row(p) # k
    <3>1. Row(p) \in 0 .. SectorNum - 2
      BY <2>1, RowBound
    <3>2. p = Items * Row(p) + Column(p) /\ Column(p) \in 1 .. Items
      BY <2>1, RowColumn
    <3>3. (k + 1) * Items = Items * k + Items
      BY <1>3, <1>4, SectorRow
    <3>4. Items * k \in Int
      BY <1>3, <1>4, Distribute
    <3> QED
      BY <1>4, <1>s, <3>1, <3>2, <3>3, <3>4
  <2>4. 1 + Row(p) \in 0 .. SectorNum - 1 /\ 1 + Row(p) # k + 1 /\ ex + (1 + Row(p)) = ex + 1 + Row(p)
    BY <1>3, <1>4, <2>3
  <2>5. Source(p)' = item'[Place(ex, p)] /\ Source(p) = item[Place(ex, p)]
    BY <1>5 DEF Source, Place, Sector, Row, Column
  <2>6. Sector(ex + 1 + Row(p)) # x
    BY <1>6, <2>4
  <2> HIDE DEF x
  <2> QED
    BY <1>5, <2>2, <2>5, <2>6
(* The rows before have been made.                                         *)
<1>10. \A q \in 1 .. (k + 1) * Items : q \in 1 .. Capacity /\ Row(q) # k + 1 /\ Target(q)' = Target(q)
  <2> TAKE q \in 1 .. (k + 1) * Items
  <2>1. q \in 1 .. Capacity /\ q \in Int
    BY <1>4
  <2>2. PICK r \in Int : r = (k + 1) * Items /\ Row(r) = k
    <3>1. k * Items < (k + 1) * Items /\ (k + 1) * Items \in Int
      <4>1. (k + 1) * Items = k * Items + Items
        BY <1>3, SectorRow
      <4> QED
        BY <1>4, <4>1
    <3>2. PICK r \in Int : r = (k + 1) * Items
      BY <3>1
    <3>3. k * Items < r /\ r <= (k + 1) * Items
      BY <3>1, <3>2
    <3>4. Row(r) = k
      BY <1>3, <1>4, <3>3, RowIs
    <3> QED
      BY <3>2, <3>4
  <2>3. Row(q) <= k /\ Row(q) \in Int
    <3>1. q <= r
      BY <2>1, <2>2
    <3>2. Row(q) <= Row(r) /\ Row(q) \in Int
      BY <2>1, <3>1, RowOrder, RowColumn
    <3> QED
      BY <2>2, <3>2
  <2>4. Row(q) # k + 1
    BY <2>3
  <2> QED
    BY <1>8, <2>1, <2>4
<1> HIDE DEF x
<1>11. n \in 1 .. Capacity + 1 /\ \E g : Moving(c, s, n, F, g)
  BY <1>3 DEF Moved
<1>12. PICK g : Moving(c, s, n, F, g)
  BY <1>11
<1>13. c \in 1 .. n /\ c <= s /\ c \in Nat
  BY <1>12 DEF Moving
<1>14. Moving(c, s, n, F, g)'
  <2>1. \A q \in 1 .. c - 1 : Target(q)' = Target(q)
    <3>1. \A q \in 1 .. c - 1 : q \in 1 .. (k + 1) * Items
      BY <1>4, <1>s, <1>13
    <3> QED
      BY <1>10, <3>1
  <2> QED
    BY <1>9, <1>12, <2>1, MovingKept
<1>15. \A q \in c .. (k + 1) * Items : Target(q)' = FreeItem
  <2>1. \A q \in c .. (k + 1) * Items : q \in 1 .. (k + 1) * Items
    BY <1>4, <1>13
  <2> QED
    BY <1>3, <1>10, <1>k, <2>1 DEF Room
<1>16. CASE k < SectorNum - 2
  <2>1. /\ call'.op = "collect" /\ call'.phase = "index" /\ call'.k = k + 1 /\ call'.to = call.to
    BY <1>1, <1>3, <1>16, <1>k DEF EraseCopied, Call
  <2>2. k + 1 \in 0 .. SectorNum - 2 /\ (k + 1) * Items + 1 = s
    BY <1>3, <1>4, <1>16, <1>s
  <2>3. /\ \A i \in 0 .. SectorNum - 2 : i < k + 1 => head'[Sector(ex + i)] = i
        /\ \A i \in 0 .. SectorNum - 2 : k + 1 <= i => head'[Sector(ex + 1 + i)] = i
        /\ head'[Sector(ex + (k + 1))] = Erased
    <3>1. \A i \in 0 .. SectorNum - 2 : i < k + 1 => i \in 0 .. SectorNum - 1 /\ i # k + 1 /\ (i < k \/ i = k)
      BY <1>3, <1>4
    <3>2. \A i \in 0 .. SectorNum - 2 : k + 1 <= i =>
            1 + i \in 0 .. SectorNum - 1 /\ 1 + i # k + 1 /\ k <= i /\ ex + (1 + i) = ex + 1 + i
      BY <1>3, <1>4
    <3>3. k + 1 \in 0 .. SectorNum - 1
      BY <1>3, <1>4
    <3>4. \A i \in 0 .. SectorNum - 2 : k + 1 <= i => head'[Sector(ex + 1 + i)] = head[Sector(ex + 1 + i)]
      BY <1>7, <3>2
    <3> QED
      BY <1>3, <1>7, <3>1, <3>2, <3>3, <3>4
  <2>4. Moved(c, s, FALSE, n, F)'
    <3>1. Place(Sector(ex - 1), c)' = Place(Sector(ex - 1), c)
      BY <1>5 DEF Place, Sector, Row, Column
    <3>2. n \in (1 .. Capacity + 1)' /\ (\E h : Moving(c, s, n, F, h))'
      BY <1>11, <1>14 DEF Capacity
    <3>3. s >= (k + 1) * Items + 1 /\ s <= (k + 1 + 1) * Items + 1
      <4>1. (k + 1 + 1) * Items = (k + 1) * Items + Items
        BY <2>2, SectorRow
      <4> QED
        BY <1>4, <1>s, <4>1
    <3> QED
      BY <1>3, <1>5, <2>1, <2>2, <2>3, <3>1, <3>2, <3>3 DEF Moved, Sector
  <2>5. Room(c)'
    <3> SUFFICES ASSUME NEW q \in c .. (k + 1 + 1) * Items PROVE Target(q)' = FreeItem
      BY <2>1 DEF Room
    <3>1. CASE q <= (k + 1) * Items
      <4>1. q \in c .. (k + 1) * Items
        BY <1>4, <1>13, <3>1
      <4> QED
        BY <1>15, <4>1
    <3>2. CASE q > (k + 1) * Items
      <4>1. (k + 1 + 1) * Items \in Nat /\ (k + 1 + 1) * Items <= Capacity
        BY <2>2, SectorRow
      <4>2. q \in Int /\ q \in 1 .. Capacity
        BY <1>4, <1>13, <3>2, <4>1
      <4>3. Row(q) = k + 1
        <5>1. k + 1 \in Int /\ (k + 1) * Items < q /\ q <= (k + 1 + 1) * Items
          BY <2>2, <3>2, <4>1
        <5> QED
          BY <4>2, <5>1, RowIs
      <4> QED
        BY <1>8, <4>2, <4>3
    <3> QED
      BY <1>4, <1>13, <3>1, <3>2
  <2>6. ToIndex(c, n, F)'
    BY <1>s, <2>1, <2>4, <2>5 DEF ToIndex
  <2> QED
    BY <2>6 DEF Collecting
<1>17. CASE ~ k < SectorNum - 2
  <2>1. k = SectorNum - 2 /\ s = Capacity + 1
    BY <1>3, <1>4, <1>17, <1>s
  <2>2. call'.op = "collect" /\ call'.phase = "mount"
    BY <1>17, <1>k DEF EraseCopied, NoCall
  <2>e. PICK e \in Sectors : e = Sector(ex - 1)
    BY <1>4
  <2>3. x = e /\ e \in Sectors /\ e \in Int
    <3>1. ex + 1 + k = (ex - 1) + 1 * SectorNum /\ ex - 1 \in Int
      BY <1>4, <2>1
    <3>2. Sector((ex - 1) + 1 * SectorNum) = Sector(ex - 1)
      BY <3>1, SectorTurn
    <3>3. x = Sector(ex + 1 + k)
      BY DEF x
    <3>4. e \in Int
      BY SectorBefore
    <3> QED
      BY <2>e, <3>1, <3>2, <3>3, <3>4
  <2>4. \A m \in 0 .. SectorNum - 2 : Sector(e + 1 + m) = Sector(ex + m)
    <3> TAKE m \in 0 .. SectorNum - 2
    <3>1. ex - 1 \in Int /\ 1 + m \in Int /\ (ex - 1) + (1 + m) = ex + m /\ e + (1 + m) = e + 1 + m
      BY <1>4, <2>3
    <3>2. Sector(Sector(ex - 1) + (1 + m)) = Sector((ex - 1) + (1 + m))
      BY <3>1, SectorAdd
    <3> QED
      BY <2>e, <3>1, <3>2
  <2>5. Ring(e)'
    <3>1. head'[e] = Erased
      BY <1>1, <1>5, <2>3 DEF TypeOK
    <3>2. \A m \in 0 .. SectorNum - 2 : head'[Sector(e + 1 + m)] = m
      <4>1. \A m \in 0 .. SectorNum - 2 : m \in 0 .. SectorNum - 1 /\ m # k + 1 /\ (m < k \/ m = k)
        BY <1>4, <2>1
      <4> QED
        BY <1>3, <1>7, <2>4, <4>1
    <3>3. \A a \in Addresses : a[1] = e => item'[a] = FreeItem
      BY <1>5, <2>3
    <3> QED
      BY <3>1, <3>2, <3>3 DEF Ring, Sector
  <2>6. c = n
    <3> SUFFICES ASSUME c # n PROVE FALSE
      OBVIOUS
    <3>1. c \in c .. n - 1
      BY <1>11, <1>13
    <3>2. g[c] \in s .. Capacity
      BY <1>12, <3>1 DEF Moving
    <3> QED
      BY <1>4, <2>1, <3>2
  <2>7. \A q \in 1 .. Capacity : Zone(e)'[q] = F[q]
    <3> TAKE q \in 1 .. Capacity
    <3>1. Zone(e)'[q] = Target(q)'
      BY <1>5, <2>e DEF Zone, Target, Place, Sector, Row, Column, Capacity
    <3>2. CASE q < c
      <4>1. q \in 1 .. c - 1
        BY <1>13, <3>2
      <4> QED
        BY <1>14, <3>1, <4>1 DEF Moving
    <3>3. CASE ~ q < c
      <4>1. q \in c .. (k + 1) * Items
        BY <1>4, <1>13, <2>1, <3>3
      <4>2. F[q] = FreeItem
        BY <1>12, <2>6, <3>3 DEF Moving, Sound, Linear
      <4> QED
        BY <1>15, <3>1, <4>1, <4>2
    <3> QED
      BY <3>2, <3>3
  <2>8. Sound(Zone(e)', c)
    <3>1. Sound(F, c)
      BY <1>12, <2>6 DEF Moving
    <3> QED
      BY <2>7, <3>1, SoundSame
  <2>9. \A p \in 1 .. c - 1 : Zone(e)'[p].pro = USED
    <3>1. \A p \in 1 .. c - 1 : p \in 1 .. Capacity /\ p \in 1 .. n - 1
      BY <1>4, <1>11, <1>13, <2>6
    <3> QED
      BY <1>12, <2>7, <3>1 DEF Moving
  <2>10. Collected(c)'
    <3>1. Sector(ex - 1)' = e
      BY <1>5, <2>e DEF Sector
    <3>2. Old(Sector(ex - 1), c)'
      <4>1. Ring(Sector(ex - 1))' /\ Zone(Sector(ex - 1))' = Zone(e)'
        BY <2>5, <3>1 DEF Ring, Zone
      <4> QED
        BY <2>8, <4>1 DEF Old
    <3>3. Zone(Sector(ex - 1))' = Zone(e)'
      BY <3>1 DEF Zone
    <3> QED
      BY <1>3, <1>5, <2>2, <2>9, <3>2, <3>3 DEF Collected
  <2>11. \A q \in 1 .. Capacity : Zone(Sector(ex - 1))'[q] = F[q]
    <3>1. Sector(ex - 1)' = e
      BY <1>5, <2>e DEF Sector
    <3>2. Zone(Sector(ex - 1))' = Zone(e)'
      BY <3>1 DEF Zone
    <3> QED
      BY <2>7, <3>2
  <2> QED
    BY <2>6, <2>10, <2>11
<1> QED
  BY <1>16, <1>17

LEMMA ModesMove == IInv /\ (CollectIndex \/ CopyHead \/ CopyData \/ EraseCopied) => Modes'
<1> SUFFICES ASSUME IInv, CollectIndex \/ CopyHead \/ CopyData \/ EraseCopied PROVE Modes'
  OBVIOUS
<1>1. CASE CollectIndex
  <2>1. PICK n, F : \E c \in Nat : ToIndex(c, n, F)
    BY <1>1, ModeCases DEF CollectIndex
  <2>2. Collecting(n, F)'
    BY <1>1, <2>1, CollectsIndex
  <2> QED
    BY <2>2 DEF Modes
<1>2. CASE CopyHead
  <2>1. PICK n, F : \E c \in Nat, s \in Nat : ToCopy(c, s, n, F)
    BY <1>2, ModeCases DEF CopyHead
  <2>2. Collecting(n, F)'
    BY <1>2, <2>1, CopiesHead
  <2> QED
    BY <2>2 DEF Modes
<1>3. CASE CopyData
  <2>1. PICK n, F : \E c \in Nat, s \in Nat : ToData(c, s, n, F)
    BY <1>3, ModeCases DEF CopyData
  <2>2. Collecting(n, F)'
    BY <1>3, <2>1, CopiesData
  <2> QED
    BY <2>2 DEF Modes
<1>4. CASE EraseCopied
  <2>1. PICK n, F : \E c \in Nat : ToErase(c, n, F)
    BY <1>4, ModeCases DEF EraseCopied
  <2>2. PICK c \in Nat : ToErase(c, n, F)
    BY <2>1
  <2>3. n \in Nat
    BY <2>2, CapacityIs DEF ToErase, Moved
  <2>4. Collecting(n, F)' \/ Collected(n)'
    BY <1>4, <2>2, Erases
  <2> QED
    BY <2>3, <2>4 DEF Modes
<1> QED
  BY <1>1, <1>2, <1>3, <1>4

-----------------------------------------------------------------------------
(* The invariant, and what it says of the run without cuts and failures.   *)

(* Nothing changes, and nothing that the modes say does.                   *)
LEMMA Stays ==
  ASSUME UNCHANGED vars
  PROVE  /\ \A c : Resting(c)' <=> Resting(c)
         /\ \A e, c : Old(e, c)' <=> Old(e, c)
         /\ Zone(ex)' = Zone(ex) /\ Zone(Sector(ex - 1))' = Zone(Sector(ex - 1)) /\ \A e : Zone(e)' = Zone(e)
         /\ (Blanked' <=> Blanked) /\ Bad' = Bad /\ (Mountable' <=> Mountable)
         /\ (Initing => Initing') /\ (Wiping => Wiping') /\ (Wiped => Wiped') /\ (Indexing => Indexing')
         /\ \A c, m : Marking(c, m) => Marking(c, m)'
         /\ \A c : Putting(c) => Putting(c)'
         /\ \A c : Filled(Zone(ex), c, call.k)' = Filled(Zone(ex), c, call.k)
         /\ \A m : Marked(Zone(ex), m, call.k)' = Marked(Zone(ex), m, call.k)
         /\ \A n, F : Collecting(n, F) => Collecting(n, F)'
         /\ \A c : Collected(c) => Collected(c)'
<1>1. head' = head /\ item' = item /\ ready' = ready /\ ex' = ex /\ free' = free /\ call' = call
      /\ UNCHANGED flash
  BY DEF vars, flash
<1>2. /\ \A e : Ring(e)' <=> Ring(e)
      /\ \A e : Zone(e)' = Zone(e)
      /\ \A e, c : Old(e, c)' <=> Old(e, c)
      /\ Bad' = Bad /\ (Blanked' <=> Blanked) /\ (Mountable' <=> Mountable)
  BY <1>1, OldUnchanged
<1>3. Ring(ex)' <=> Ring(ex)
  BY <1>1 DEF Ring, Sector
<1>4. Zone(ex)' = Zone(ex) /\ Zone(Sector(ex - 1))' = Zone(Sector(ex - 1))
  BY <1>1 DEF Zone, Place, Sector, Row, Column, Capacity
<1>5. \A c : (Old(ex, c)' <=> Old(ex, c)) /\ (Old(Sector(ex - 1), c)' <=> Old(Sector(ex - 1), c))
  <2>1. Ring(Sector(ex - 1))' <=> Ring(Sector(ex - 1))
    BY <1>1 DEF Ring, Sector
  <2> QED
    BY <1>3, <1>4, <2>1 DEF Old
<1>6. \A c : Resting(c)' <=> Resting(c)
  BY <1>1, <1>5 DEF Resting, Spot, Place, Sector, Row, Column, Capacity
<1>7. (Initing => Initing') /\ (Wiping => Wiping') /\ (Wiped => Wiped') /\ (Indexing => Indexing')
  BY <1>1, <1>2 DEF Initing, Wiping, Wiped, Indexing
<1>8. ASSUME NEW m PROVE Marked(Zone(ex), m, call.k)' = Marked(Zone(ex), m, call.k)
  BY <1>1, <1>4 DEF Marked, Capacity
<1>9. ASSUME NEW c, NEW m, Marking(c, m) PROVE Marking(c, m)'
  BY <1>1, <1>3, <1>4, <1>9 DEF Marking, Spot, Place, Sector, Row, Column, Capacity
<1>10. ASSUME NEW c PROVE Filled(Zone(ex), c, call.k)' = Filled(Zone(ex), c, call.k)
  BY <1>1, <1>4 DEF Filled, Frame, FrameKind, Frames, Capacity
<1>11. ASSUME NEW c, Putting(c) PROVE Putting(c)'
  <2>1. Filled(Zone(ex), c, call.k)' = Filled(Zone(ex), c, call.k)
    BY <1>10
  <2>2. Spot(ex, c)' = Spot(ex, c)
    BY <1>1 DEF Spot, Place, Sector, Row, Column, Capacity
  <2> QED
    BY <1>1, <1>3, <1>4, <1>11, <2>1, <2>2 DEF Putting, Sound, Linear, Tiled, Covered, Frames, Capacity
<1>12. ASSUME NEW c, Collected(c) PROVE Collected(c)'
  BY <1>1, <1>4, <1>5, <1>12 DEF Collected
<1>13. /\ \A c, s, on, n, F : Moved(c, s, on, n, F)' <=> Moved(c, s, on, n, F)
       /\ \A c : Room(c)' <=> Room(c)
       /\ \A p : Source(p)' = Source(p) /\ Target(p)' = Target(p)
  <2>1. /\ \A p : Source(p)' = Source(p) /\ Target(p)' = Target(p)
        /\ \A c, s, n, F, g : Moving(c, s, n, F, g)' <=> Moving(c, s, n, F, g)
    BY <1>1, MovingUnchanged
  <2>2. \A c : Room(c)' <=> Room(c)
    BY <1>1, <2>1 DEF Room
  <2>3. Capacity' = Capacity
    BY DEF Capacity
  <2>4. \A c : Place(Sector(ex - 1), c)' = Place(Sector(ex - 1), c)
    BY <1>1 DEF Place, Sector, Row, Column
  <2> QED
    BY <1>1, <2>1, <2>2, <2>3, <2>4 DEF Moved, Sector
<1>14. ASSUME NEW n, NEW F, Collecting(n, F) PROVE Collecting(n, F)'
  <2>1. \A s : Place(ex, s)' = Place(ex, s)
    BY <1>1 DEF Place, Sector, Row, Column
  <2>2. /\ \A c : (ToIndex(c, n, F) => ToIndex(c, n, F)') /\ (ToErase(c, n, F) => ToErase(c, n, F)')
        /\ \A c, s : /\ ToCopy(c, s, n, F) => ToCopy(c, s, n, F)'
                     /\ ToData(c, s, n, F) => ToData(c, s, n, F)'
    BY <1>1, <1>13, <2>1 DEF ToIndex, ToErase, ToCopy, ToData, Sector
  <2> QED
    BY <1>14, <2>2 DEF Collecting
<1> QED
  BY <1>2, <1>4, <1>6, <1>7, <1>8, <1>9, <1>10, <1>11, <1>12, <1>14

LEMMA ModesStutter == IInv /\ UNCHANGED vars => Modes'
<1> SUFFICES ASSUME IInv, UNCHANGED vars PROVE Modes'
  OBVIOUS
<1>1. call' = call /\ ready' = ready /\ Capacity' = Capacity
  BY DEF vars, Capacity
<1>2. CASE Idle
  BY <1>1, <1>2, Stays DEF Modes, Idle
<1>3. CASE Initing \/ Wiping \/ Wiped \/ Indexing
  BY <1>3, Stays DEF Modes
<1>4. CASE (\E c \in Nat, m \in Nat : Marking(c, m)) \/ (\E c \in Nat : Putting(c))
  BY <1>4, Stays DEF Modes
<1>5. CASE (\E n, F : Collecting(n, F)) \/ (\E c \in Nat : Collected(c))
  BY <1>5, Stays DEF Modes
<1> QED
  BY <1>2, <1>3, <1>4, <1>5 DEF IInv, Modes

LEMMA IInvInit == Init => IInv
BY TypeInit, ModesInit DEF IInv

LEMMA IInvStep == Cuts = {} /\ Fails = {} => (IInv /\ [Next]_vars => IInv')
<1> SUFFICES ASSUME Cuts = {}, Fails = {}, IInv, [Next]_vars PROVE IInv'
  OBVIOUS
<1>1. TypeInv'
  BY TypeStep DEF IInv
<1>2. ~ WriteFails
  BY DEF WriteFails
<1>3. ASSUME UNCHANGED vars PROVE Modes'
  BY <1>3, ModesStutter
<1>4. ASSUME Refuse \/ HalInit \/ Format \/ Restart PROVE Modes'
  BY <1>4, ModesBegin
<1>5. ASSUME MountForeign \/ MountNew \/ Mount PROVE Modes'
  BY <1>5, ModesMount
<1>6. Modes'
  BY <1>2, <1>3, <1>4, <1>5, ModesCollect, ModesWrite, ModesDelete, ModesMark, ModesPut, ModesWipe, ModesPutHead,
     ModesMove DEF Next
<1> QED
  BY <1>1, <1>6 DEF IInv

(* The number of items in a part of the zone.                              *)
LEMMA PlacesCount ==
  ASSUME NEW e \in Sectors, NEW a \in Nat, NEW b \in Nat, a >= 1, b <= Capacity, a <= b + 1
  PROVE  Cardinality({Place(e, p) : p \in a .. b}) = b - a + 1
<1> DEFINE S == a .. b
           T == {Place(e, p) : p \in S}
           f == [p \in S |-> Place(e, p)]
<1>1. Capacity \in Nat /\ SectorNum * Items = Capacity + Items /\ Items \in Nat /\ e \in Int
  BY CapacityIs, Sizes DEF Sectors
<1>2. IsFiniteSet(S) /\ Cardinality(S) = b - a + 1
  <2>1. a \in Int /\ b \in Int
    OBVIOUS
  <2>2. IsFiniteSet(a .. b) /\ Cardinality(a .. b) = IF a > b THEN 0 ELSE b - a + 1
    BY <2>1, FS_Interval
  <2> QED
    BY <2>2
<1>3. \A p \in S : p \in 1 .. SectorNum * Items
  BY <1>1
<1>4. f \in Surjection(S, T)
  BY DEF Surjection
<1>5. f \in Injection(S, T)
  <2>1. \A p, q \in S : f[p] = f[q] => p = q
    BY <1>1, <1>3, PlaceInjective
  <2>2. f \in [S -> T] /\ DOMAIN f = S
    OBVIOUS
  <2> HIDE DEF S, T, f
  <2> QED
    BY <2>1, <2>2 DEF Injection, IsInjective
<1> HIDE DEF S, T, f
<1>6. Cardinality(T) = Cardinality(S)
  BY <1>2, <1>4, <1>5, FS_Surjection
<1> QED
  BY <1>2, <1>6 DEF S, T

LEMMA IsErased == IInv => ProgramsErased
<1> SUFFICES ASSUME IInv PROVE ProgramsErased
  OBVIOUS
<1>1. TypeOK /\ ex \in Sectors /\ ex \in Int /\ Capacity \in Nat
  BY CapacityIs, SectorBefore DEF IInv, TypeInv, TypeOK
<1>2. ASSUME call.phase = "put" PROVE free \in Addresses /\ item[free] = FreeItem /\ free[1] # ex
  <2>1. PICK c \in Nat : Putting(c)
    BY <1>2, ModeCases
  <2>2. c \in 1 .. Capacity /\ c \in c .. Capacity /\ c <= Capacity
    BY <1>1, <2>1 DEF Putting
  <2>3. free = Place(ex, c) /\ Zone(ex)[c] = FreeItem
    BY <2>1, <2>2 DEF Putting, Spot
  <2>4. item[Place(ex, c)] = FreeItem
    BY <2>2, <2>3 DEF Zone
  <2> QED
    BY <1>1, <2>2, <2>3, <2>4, PlaceOutside
<1>3. ASSUME call.phase = "copy" PROVE item[call.to] = FreeItem
  <2>0. PICK n, F : \E c \in Nat, s \in Nat : ToCopy(c, s, n, F)
    BY <1>3, ModeCases
  <2>1. PICK c \in Nat, s \in Nat : ToCopy(c, s, n, F)
    BY <2>0
  <2>2. call.to = Place(Sector(ex - 1), c) /\ Room(c) /\ s <= (call.k + 1) * Items /\ call.k \in 0 .. SectorNum - 2
    BY <2>1 DEF ToCopy, Moved
  <2>3. c <= s
    BY <2>1 DEF ToCopy, Moved, Moving
  <2>4. (call.k + 1) * Items \in Nat
    BY <2>2, SectorRow
  <2>5. c \in c .. (call.k + 1) * Items
    BY <2>2, <2>3, <2>4
  <2>6. Target(c) = FreeItem
    BY <2>2, <2>5 DEF Room
  <2> QED
    BY <2>2, <2>6 DEF Target
<1>4. ASSUME call.phase = "index", call.op = "collect" PROVE head[Sector(ex + call.k)] = Erased
  <2>1. PICK n, F : \E c \in Nat : ToIndex(c, n, F)
    BY <1>4, ModeCases
  <2> QED
    BY <2>1 DEF ToIndex, Moved
<1> QED
  BY <1>2, <1>3, <1>4 DEF ProgramsErased

LEMMA IsInvisible == IInv => RestartInvisible
<1> SUFFICES ASSUME IInv, Mounted
             PROVE  /\ Indexed(0) # {} /\ Bad = {}
                    /\ ex = Sector((CHOOSE s \in Indexed(0) : \A r \in Indexed(0) : s <= r) - 1)
                    /\ free = Frontier
  BY DEF RestartInvisible
<1>1. ex \in Sectors /\ ex \in Int /\ Zoned /\ Idle /\ ready
  <2>1. TypeOK /\ Idle /\ ready
    BY ModeCases DEF IInv, TypeInv, Mounted
  <2>2. ex \in Sectors /\ Zoned
    BY <2>1 DEF TypeOK, Zoned
  <2> QED
    BY <2>1, <2>2, SectorBefore
<1>2. PICK c \in 1 .. Capacity + 1 : Resting(c)
  BY <1>1 DEF Idle
<1>3. Bad = {} /\ Indexed(0) = {Sector(ex + 1)} /\ Sector(Sector(ex + 1) - 1) = ex
  BY <1>1, <1>2, RingMounts DEF Resting, Old
<1>4. PICK b \in Sectors : b = Sector(ex + 1)
  <2>1. ex + 1 \in Int
    BY <1>1
  <2>2. Sector(ex + 1) \in Sectors
    BY <2>1, SectorIn
  <2> QED
    BY <2>2
<1>5. (CHOOSE s \in {b} : \A r \in {b} : s <= r) = b
  <2>1. b \in Int
    BY Sizes DEF Sectors
  <2> QED
    BY <2>1
<1>6. free = Frontier
  BY <1>1, <1>2, FrontierIs DEF Resting, Old
<1>7. Indexed(0) = {b} /\ Sector(b - 1) = ex
  BY <1>3, <1>4
<1>8. ex = Sector((CHOOSE s \in Indexed(0) : \A r \in Indexed(0) : s <= r) - 1)
  BY <1>5, <1>7, Zenon
<1> QED
  BY <1>3, <1>6, <1>7, <1>8

(* In a ring the items that are left are those behind the c - 1 written.   *)
LEMMA RoomLeft ==
  ASSUME NEW e \in Sectors, NEW c, Old(e, c)
  PROVE  /\ c \in 1 .. Capacity + 1
         /\ {a \in Addresses : a[1] # e /\ item[a] = FreeItem} = {Place(e, p) : p \in c .. Capacity}
         /\ {a \in Addresses : a[1] # e /\ item[a] # FreeItem} = {Place(e, p) : p \in 1 .. c - 1}
<1>1. c \in 1 .. Capacity + 1 /\ Capacity \in Nat /\ e \in Int
  BY CapacityIs, SectorBefore DEF Old, Sound
<1>2. \A p \in 1 .. Capacity : /\ Place(e, p) \in Addresses /\ Place(e, p)[1] # e
                               /\ (item[Place(e, p)] = FreeItem <=> ~ p < c)
  <2> TAKE p \in 1 .. Capacity
  <2>1. Zone(e)[p] = item[Place(e, p)]
    BY DEF Zone
  <2>2. IF p < c THEN Written(Zone(e)[p]) ELSE Zone(e)[p] = FreeItem
    BY DEF Old, Sound, Linear
  <2>3. Written(Zone(e)[p]) => Zone(e)[p] # FreeItem
    BY DEF Written, FreeItem, UNUSED, USED, DELETED
  <2> QED
    BY <2>1, <2>2, <2>3, PlaceOutside
<1>3. \A a \in Addresses : a[1] # e => \E p \in 1 .. Capacity : a = Place(e, p)
  BY PlaceOnto
<1>4. /\ \A p \in c .. Capacity : p \in 1 .. Capacity /\ ~ p < c
      /\ \A p \in 1 .. c - 1 : p \in 1 .. Capacity /\ p < c
      /\ \A p \in 1 .. Capacity : (~ p < c => p \in c .. Capacity) /\ (p < c => p \in 1 .. c - 1)
  BY <1>1
<1>5. {a \in Addresses : a[1] # e /\ item[a] = FreeItem} = {Place(e, p) : p \in c .. Capacity}
  BY <1>2, <1>3, <1>4
<1>6. {a \in Addresses : a[1] # e /\ item[a] # FreeItem} = {Place(e, p) : p \in 1 .. c - 1}
  BY <1>2, <1>3, <1>4
<1> QED
  BY <1>1, <1>5, <1>6

LEMMA IsExact == IInv => FreeSizeExact
<1> SUFFICES ASSUME IInv, Mounted
             PROVE  FreeSize = DataLen * Cardinality({a \in Addresses : a[1] # ex /\ item[a] = FreeItem})
  BY DEF FreeSizeExact
<1>1. ex \in Sectors /\ Capacity \in Nat /\ Idle /\ ready
  BY ModeCases, CapacityIs DEF IInv, TypeInv, TypeOK, Mounted
<1>2. PICK c \in 1 .. Capacity + 1 : Resting(c)
  BY <1>1 DEF Idle
<1>3. FreeSize = DataLen * (Capacity + 1 - c)
  BY <1>1, <1>2, FreeSizeIs DEF Resting
<1>4. {a \in Addresses : a[1] # ex /\ item[a] = FreeItem} = {Place(ex, p) : p \in c .. Capacity}
  BY <1>1, <1>2, RoomLeft DEF Resting
<1>5. c \in Nat /\ c >= 1 /\ Capacity <= Capacity /\ c <= Capacity + 1
  BY <1>1
<1>6. Cardinality({Place(ex, p) : p \in c .. Capacity}) = Capacity - c + 1
  BY <1>1, <1>5, PlacesCount
<1>7. Capacity - c + 1 = Capacity + 1 - c
  BY <1>1, <1>5
<1> QED
  BY <1>3, <1>4, <1>6, <1>7

FreeSizeFound == \A c \in 1 .. Capacity + 1 : ex \in Sectors /\ free = Spot(ex, c) => FreeSize = DataLen * (Capacity + 1 - c)
LEMMA FreeSizeFact == FreeSizeFound
BY FreeSizeIs DEF FreeSizeFound

(* The step that ends a collection is the mount of what it has made.       *)
LEMMA CollectEnds ==
  ASSUME Cuts = {}, Fails = {}, Next, IInv, call.op = "collect", call.phase = "mount"
  PROVE  Mount /\ \E c \in Nat : Collected(c)
<1>1. PICK c \in Nat : Collected(c)
  BY ModeCases DEF Initing, Wiped
<1>2. Bad = {} /\ Indexed(Erased) # Sectors
  <2>1. Sector(ex - 1) \in Sectors
    BY SectorBefore DEF IInv, TypeInv, TypeOK
  <2> QED
    BY <1>1, <2>1, RingMounts DEF Collected, Old
<1>3. /\ ~ MountForeign /\ ~ MountNew
      /\ ~ WriteFails /\ ~ Restart
  BY <1>2 DEF MountForeign, MountNew, WriteFails, Restart
<1>4. /\ ~ Refuse /\ ~ HalInit /\ ~ Format /\ ~ Collect
      /\ ~ (\E f \in Files : Write(f)) /\ ~ (\E id \in Ids : Delete(id))
  BY DEF Refuse, HalInit, Format, Collect, Write, Delete, Calling
<1>5. /\ ~ MarkFrame /\ ~ PutFrame /\ ~ Wipe /\ ~ PutHead
      /\ ~ CollectIndex /\ ~ CopyHead /\ ~ CopyData /\ ~ EraseCopied
  BY DEF MarkFrame, PutFrame, Wipe, PutHead, CollectIndex, CopyHead, CopyData, EraseCopied
<1> QED
  BY <1>1, <1>3, <1>4, <1>5 DEF Next

LEMMA Reclaims ==
  ASSUME Cuts = {}, Fails = {}, Next, IInv, call.op = "collect", call.phase = "mount"
  PROVE  /\ \A a \in Addresses : item[a].pro \in {UNUSED, USED}
         /\ FreeSize' = DataLen * (Capacity - Cardinality({a \in Addresses : item[a].pro = USED}))
<1>1. Mount /\ TypeOK /\ ex \in Sectors
  BY CollectEnds DEF IInv, TypeInv, TypeOK
<1>2. PICK c \in Nat : Collected(c)
  BY CollectEnds
<1>3. PICK e \in Sectors : e = Sector(ex - 1)
  BY <1>1, SectorBefore
<1>4. Old(e, c) /\ \A p \in 1 .. c - 1 : Zone(e)[p].pro = USED
  BY <1>2, <1>3 DEF Collected
<1>5. /\ c \in 1 .. Capacity + 1 /\ Capacity \in Nat
      /\ {a \in Addresses : a[1] # e /\ item[a] # FreeItem} = {Place(e, p) : p \in 1 .. c - 1}
  BY <1>4, RoomLeft, CapacityIs
<1>6. \A a \in Addresses : item[a] # FreeItem => a[1] # e
  BY <1>4 DEF Old, Ring
<1>7. \A a \in Addresses : item[a] # FreeItem => item[a].pro = USED
  <2> SUFFICES ASSUME NEW a \in Addresses, item[a] # FreeItem PROVE item[a].pro = USED
    OBVIOUS
  <2>1. PICK p \in 1 .. c - 1 : a = Place(e, p)
    BY <1>5, <1>6
  <2>2. p \in 1 .. Capacity /\ Zone(e)[p].pro = USED
    BY <1>4, <1>5
  <2> QED
    BY <2>1, <2>2 DEF Zone
<1>8. FreeItem.pro = UNUSED /\ UNUSED # USED
  BY DEF FreeItem, UNUSED, USED
<1>9. \A a \in Addresses : item[a].pro \in {UNUSED, USED}
  BY <1>7, <1>8
<1>10. {a \in Addresses : item[a].pro = USED} = {Place(e, p) : p \in 1 .. c - 1}
  <2>1. \A a \in Addresses : item[a].pro = USED <=> (a[1] # e /\ item[a] # FreeItem)
    BY <1>6, <1>7, <1>8
  <2> QED
    BY <1>5, <2>1
<1>11. Cardinality({Place(e, p) : p \in 1 .. c - 1}) = c - 1
  <2>1. 1 \in Nat /\ c - 1 \in Nat /\ 1 >= 1 /\ c - 1 <= Capacity /\ 1 <= (c - 1) + 1 /\ (c - 1) - 1 + 1 = c - 1
    BY <1>5
  <2>2. Cardinality({Place(e, p) : p \in 1 .. c - 1}) = (c - 1) - 1 + 1
    BY <2>1, PlacesCount
  <2> QED
    BY <2>1, <2>2
<1>12. FreeSize' = DataLen * (Capacity + 1 - c)
  <2>1. Resting(c)' /\ ex' = e
    BY <1>1, <1>4, <1>5, MountsOld
  <2>2. FreeSizeFound'
    BY FreeSizeFact, PTL
  <2>3. free' = Spot(ex, c)'
    BY <2>1 DEF Resting
  <2> QED
    BY <1>5, <2>1, <2>2, <2>3 DEF FreeSizeFound, Capacity
<1>13. Capacity + 1 - c = Capacity - (c - 1)
  BY <1>5
<1> QED
  BY <1>9, <1>10, <1>11, <1>12, <1>13

(* When no write fails and the supply does not in the middle of a call,    *)
(* what follows holds of every sequence of calls and of restarts between   *)
(* them, whatever the files.  First: a frame is only ever written where    *)
(* nothing was written since the erasure, and an index in an erased head.  *)
THEOREM WritesErased == Cuts = {} /\ Fails = {} => (Spec => []ProgramsErased)
<1> SUFFICES ASSUME Cuts = {} /\ Fails = {} PROVE Spec => []ProgramsErased
  OBVIOUS
<1>1. Init => IInv
  BY IInvInit
<1>2. IInv /\ [Next]_vars => IInv'
  BY IInvStep
<1>3. IInv => ProgramsErased
  BY IsErased
<1> QED
  BY <1>1, <1>2, <1>3, PTL DEF Spec

(* What RAM says of the zone between calls, kept up to date write by write *)
(* and by the collector, is what fs_init would find in flash.              *)
THEOREM RestartChangesNothing == Cuts = {} /\ Fails = {} => (Spec => []RestartInvisible)
<1> SUFFICES ASSUME Cuts = {} /\ Fails = {} PROVE Spec => []RestartInvisible
  OBVIOUS
<1>1. Init => IInv
  BY IInvInit
<1>2. IInv /\ [Next]_vars => IInv'
  BY IInvStep
<1>3. IInv => RestartInvisible
  BY IsInvisible
<1> QED
  BY <1>1, <1>2, <1>3, PTL DEF Spec

(* hal_fs_get_free_size is exactly the items never written outside the     *)
(* exchange sector.                                                        *)
THEOREM FreeSizeCounts == Cuts = {} /\ Fails = {} => (Spec => []FreeSizeExact)
<1> SUFFICES ASSUME Cuts = {} /\ Fails = {} PROVE Spec => []FreeSizeExact
  OBVIOUS
<1>1. Init => IInv
  BY IInvInit
<1>2. IInv /\ [Next]_vars => IInv'
  BY IInvStep
<1>3. IInv => FreeSizeExact
  BY IsExact
<1> QED
  BY <1>1, <1>2, <1>3, PTL DEF Spec

(* A collection that ends leaves no deleted item, and all the room that    *)
(* the files that exist do not need.                                       *)
THEOREM GarbageIsCollected == Cuts = {} /\ Fails = {} => (Spec => CollectReclaims)
<1> SUFFICES ASSUME Cuts = {} /\ Fails = {} PROVE Spec => CollectReclaims
  OBVIOUS
<1>1. Init => IInv
  BY IInvInit
<1>2. IInv /\ [Next]_vars => IInv'
  BY IInvStep
<1>3. IInv /\ [Next]_vars =>
        [call.op = "collect" /\ call.phase = "mount" =>
           LET used == {a \in Addresses : item[a].pro = USED}
           IN  /\ \A a \in Addresses : item[a].pro \in {UNUSED, USED}
               /\ FreeSize' = DataLen * (Capacity - Cardinality(used))]_vars
  BY Reclaims
<1> QED
  BY <1>1, <1>2, <1>3, PTL DEF Spec, CollectReclaims
=============================================================================
