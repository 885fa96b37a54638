---------------------------- MODULE Store_proofs ----------------------------
(***************************************************************************)
(* Fs implements FileStore, for any ring of sectors and any files: whoever *)
(* reads the files between two calls sees a map from ids to contents of    *)
(* which every call changes what its name says and nothing else; and, in   *)
(* the second half, what is left of it when a call is cut short.           *)
(***************************************************************************)
EXTENDS MCFs, Fs_proofs

-----------------------------------------------------------------------------
(* The files of a zone z of which n - 1 items were written.                *)

(* The first frames of the files of an id.                                 *)
Heads(z, n, id) == {p \in 1 .. n - 1 : z[p].pro = USED /\ ~ Continues(z[p]) /\ z[p].id = id}

FileAt(z, p) == [len |-> z[p].len, data |-> [k \in 1 .. Frames(z[p].len) |-> z[p + k - 1].data]]

(* There is one file of the id and its contents are x, or there is none.   *)
Has(z, n, id, x) ==
  \/ Heads(z, n, id) = {} /\ x = Absent
  \/ \E p : Heads(z, n, id) = {p} /\ x = FileAt(z, p)

(* A file stands in a row, behind its first frame.                         *)
LEMMA FileStands ==
  ASSUME NEW z, NEW n, Sound(z, n), NEW p \in 1 .. n - 1, ~ Continues(z[p])
  PROVE  /\ z[p] \in Item /\ Frames(z[p].len) \in Nat /\ Frames(z[p].len) >= 1 /\ p + Frames(z[p].len) <= n
         /\ \A k \in 1 .. Frames(z[p].len) :
              /\ p + k - 1 \in 1 .. n - 1 /\ p + k - 1 \in 1 .. Capacity
              /\ z[p + k - 1].pro = z[p].pro /\ z[p + k - 1].id = z[p].id
              /\ k > 1 => Continues(z[p + k - 1])
<1>0. n \in 1 .. Capacity + 1 /\ Capacity \in Nat /\ n \in Nat /\ p \in Nat /\ p >= 1 /\ p < n
  BY CapacityIs DEF Sound
<1>1. p \in 1 .. Capacity /\ Written(z[p]) /\ z[p] \in Item
  <2>1. p \in 1 .. Capacity
    BY <1>0
  <2> QED
    BY <1>0, <2>1 DEF Sound, Linear, Written
<1>2. Frames(z[p].len) \in Nat
  BY <1>1, Fields, FramesOf
<1>3. PICK m \in Nat : m = Frames(z[p].len)
  BY <1>2
<1>4. CASE z[p].frame # MF_F
  <2>1. m = 1
    BY <1>1, <1>3, <1>4, FrameCases DEF Written
  <2>2. \A k \in 1 .. m : k = 1 /\ p + k - 1 = p
    BY <1>0, <2>1
  <2> QED
    BY <1>0, <1>1, <1>2, <1>3, <2>1, <2>2
<1>5. CASE z[p].frame = MF_F
  <2>1. m >= 2 /\ p + m <= n /\ \A j \in p + 1 .. p + m - 1 :
                                  Continues(z[j]) /\ z[j].pro = z[p].pro /\ z[j].id = z[p].id
    BY <1>1, <1>3, <1>5 DEF Sound, Tiled, Written
  <2>2. \A k \in 1 .. m : /\ p + k - 1 \in 1 .. n - 1 /\ p + k - 1 \in 1 .. Capacity
                          /\ (k = 1 /\ p + k - 1 = p) \/ (k > 1 /\ p + k - 1 \in p + 1 .. p + m - 1)
    BY <1>0, <2>1
  <2>3. \A k \in 1 .. m : /\ z[p + k - 1].pro = z[p].pro /\ z[p + k - 1].id = z[p].id
                          /\ k > 1 => Continues(z[p + k - 1])
    BY <2>1, <2>2
  <2> QED
    BY <1>1, <1>2, <1>3, <2>1, <2>2, <2>3
<1> QED
  BY <1>4, <1>5

(* A zone has the files that its items are.                                *)
LEMMA HasSame ==
  ASSUME NEW z, NEW y, NEW n, Sound(z, n), \A p \in 1 .. Capacity : y[p] = z[p],
         NEW id, NEW x, Has(z, n, id, x)
  PROVE  Has(y, n, id, x)
<1>0. n \in 1 .. Capacity + 1 /\ Capacity \in Nat
  BY CapacityIs DEF Sound
<1>1. \A p \in 1 .. n - 1 : p \in 1 .. Capacity /\ y[p] = z[p]
  BY <1>0
<1>2. Heads(y, n, id) = Heads(z, n, id)
  BY <1>1 DEF Heads
<1>3. ASSUME NEW p, Heads(z, n, id) = {p} PROVE FileAt(y, p) = FileAt(z, p)
  <2>1. p \in 1 .. n - 1 /\ ~ Continues(z[p])
    BY <1>3 DEF Heads
  <2>2. \A k \in 1 .. Frames(z[p].len) : p + k - 1 \in 1 .. Capacity
    BY <2>1, FileStands
  <2>3. y[p] = z[p]
    BY <1>1, <2>1
  <2>4. \A k \in 1 .. Frames(z[p].len) : y[p + k - 1].data = z[p + k - 1].data
    BY <2>2
  <2> QED
    BY <2>3, <2>4 DEF FileAt
<1> QED
  BY <1>2, <1>3 DEF Has

LEMMA FreshHas ==
  ASSUME NEW z, NEW id
  PROVE  Has(z, 1, id, Absent)
<1>1. 1 .. 1 - 1 = {}
  OBVIOUS
<1> QED
  BY <1>1 DEF Has, Heads

-----------------------------------------------------------------------------
(* What is read from a zone.                                               *)

(* The search for an id ends at the one file there is.                     *)
LEMMA LocatedIs ==
  ASSUME Zoned, NEW c, Sound(Zone(ex), c), NEW id
  PROVE  /\ Located(id) \subseteq Heads(Zone(ex), c, id)
         /\ \A p : Heads(Zone(ex), c, id) = {p} => Located(id) = {p}
<1>1. ASSUME NEW q \in Located(id) PROVE q \in Heads(Zone(ex), c, id)
  <2>1. q \in 1 .. c - 1 /\ q \in 1 .. Capacity /\ ~ Continues(Zone(ex)[q])
    BY LocatesHead
  <2>2. item[Addr(q)].pro = USED /\ item[Addr(q)].id = id
    BY DEF Located
  <2> QED
    BY <2>1, <2>2, ZoneItem DEF Heads
<1>2. ASSUME NEW p, Heads(Zone(ex), c, id) = {p} PROVE p \in Located(id)
  <2> DEFINE hits == {q \in Visited : item[Addr(q)].pro = USED /\ item[Addr(q)].id = id}
  <2>1. /\ p \in 1 .. c - 1 /\ Zone(ex)[p].pro = USED /\ ~ Continues(Zone(ex)[p])
        /\ Zone(ex)[p].id = id
    BY <1>2 DEF Heads
  <2>2. p \in 1 .. c /\ p <= Capacity /\ p \in 1 .. Capacity
    BY <2>1, CapacityIs DEF Sound
  <2>3. p \in Visited
    BY <2>1, <2>2, SearchHeads
  <2>4. p \in hits
    BY <2>1, <2>2, <2>3, ZoneItem
  <2>5. hits \in SUBSET Nat
    BY VisitedRange
  <2>6. PICK q \in hits : \A r \in hits : q <= r
    <3> HIDE DEF hits
    <3> QED
      BY <2>4, <2>5, Least
  <2>7. q \in Located(id)
    BY <2>6 DEF Located
  <2> QED
    BY <1>1, <1>2, <2>7
<1> QED
  BY <1>1, <1>2

LEMMA ReadsBack ==
  ASSUME Zoned, NEW c, Sound(Zone(ex), c), NEW id, NEW x, Has(Zone(ex), c, id, x)
  PROVE  ReadBack(id) = x
<1>1. CASE Heads(Zone(ex), c, id) = {} /\ x = Absent
  BY <1>1, LocatedIs DEF ReadBack
<1>2. ASSUME NEW p, Heads(Zone(ex), c, id) = {p}, x = FileAt(Zone(ex), p) PROVE ReadBack(id) = x
  <2>1. Located(id) = {p}
    BY <1>2, LocatedIs
  <2>2. p \in 1 .. c - 1 /\ ~ Continues(Zone(ex)[p])
    BY <1>2 DEF Heads
  <2>3. p \in 1 .. Capacity
    BY <2>2, CapacityIs DEF Sound
  <2>4. item[Addr(p)] = Zone(ex)[p]
    BY <2>3, ZoneItem
  <2>5. \A k \in 1 .. Frames(Zone(ex)[p].len) : item[Addr(p + k - 1)].data = Zone(ex)[p + k - 1].data
    <3>1. \A k \in 1 .. Frames(Zone(ex)[p].len) : p + k - 1 \in 1 .. Capacity
      BY <2>2, FileStands
    <3> QED
      BY <3>1, ZoneItem
  <2>6. (CHOOSE q \in {p} : TRUE) = p
    OBVIOUS
  <2>7. ReadBack(id) = LET q == CHOOSE r \in {p} : TRUE
                           len == item[Addr(q)].len
                       IN  [len |-> len, data |-> [k \in 1 .. Frames(len) |-> item[Addr(q + k - 1)].data]]
    BY <2>1 DEF ReadBack
  <2>8. ReadBack(id) = [len |-> item[Addr(p)].len,
                        data |-> [k \in 1 .. Frames(item[Addr(p)].len) |-> item[Addr(p + k - 1)].data]]
    BY <2>6, <2>7
  <2> QED
    BY <1>2, <2>4, <2>5, <2>8 DEF FileAt
<1> QED
  BY <1>1, <1>2 DEF Has

(* A file has a length.                                                    *)
LEMMA HasNone ==
  ASSUME NEW z, NEW n, Sound(z, n), NEW id, Has(z, n, id, Absent)
  PROVE  Heads(z, n, id) = {}
<1> SUFFICES ASSUME NEW p, Heads(z, n, id) = {p}, Absent = FileAt(z, p) PROVE FALSE
  BY DEF Has
<1>1. p \in 1 .. n - 1 /\ ~ Continues(z[p])
  BY DEF Heads
<1>2. Frames(z[p].len) >= 1
  BY <1>1, FileStands
<1>3. z[p].len = 0
  BY DEF Absent, FileAt
<1>4. Frames(0) = 0
  <2>1. DataLen \in Nat \ {0}
    BY Sizes
  <2>2. 0 \div DataLen = 0 /\ 0 % DataLen = 0
    BY <2>1
  <2> QED
    BY <2>2 DEF Frames
<1> QED
  BY <1>2, <1>3, <1>4

-----------------------------------------------------------------------------
(* What the calls make of the files.                                       *)

(* The file whose frames are marked is gone, and no other.                 *)
LEMMA MarkedHas ==
  ASSUME NEW z, NEW c, Sound(z, c), NEW m \in 1 .. c - 1, ~ Continues(z[m]), z[m].pro = USED,
         NEW n, n = Frames(z[m].len), NEW id, NEW x, Has(z, c, id, x)
  PROVE  Has(Marked(z, m, n), c, id, IF id = z[m].id THEN Absent ELSE x)
<1> DEFINE y == Marked(z, m, n)
<1>0. c \in 1 .. Capacity + 1 /\ Capacity \in Nat /\ c \in Nat /\ m \in Nat
  BY CapacityIs DEF Sound
<1>1. /\ n \in Nat /\ n >= 1 /\ m + n <= c
      /\ \A k \in 1 .. n : m + k - 1 \in 1 .. Capacity /\ z[m + k - 1].id = z[m].id
  BY FileStands
<1>2. \A p \in m .. m + n - 1 : z[p].id = z[m].id
  <2> TAKE p \in m .. m + n - 1
  <2>1. p - m + 1 \in 1 .. n /\ m + (p - m + 1) - 1 = p
    BY <1>0, <1>1
  <2> QED
    BY <1>1, <2>1
<1>3. \A p \in 1 .. c - 1 : p \in 1 .. Capacity /\ z[p] \in Item
  <2> TAKE p \in 1 .. c - 1
  <2>1. p \in 1 .. Capacity /\ p < c
    BY <1>0
  <2> QED
    BY <2>1 DEF Sound, Linear, Written
<1>4. \A p \in 1 .. Capacity : /\ p \in m .. m + n - 1 => y[p] = [z[p] EXCEPT !.pro = DELETED]
                               /\ p \notin m .. m + n - 1 => y[p] = z[p]
  BY DEF Marked
<1> HIDE DEF y
<1>5. \A p \in 1 .. c - 1 : p \in m .. m + n - 1 => y[p].pro # USED
  <2>1. \A i1 \in Item : [i1 EXCEPT !.pro = DELETED].pro # USED
    BY DEF Item, DELETED, USED
  <2> QED
    BY <1>3, <1>4, <2>1
<1>6. CASE id = z[m].id
  <2>1. m \in Heads(z, c, id)
    BY <1>6 DEF Heads
  <2>2. Heads(z, c, id) = {m}
    BY <2>1 DEF Has
  <2>3. m \in m .. m + n - 1
    BY <1>0, <1>1
  <2>4. Heads(y, c, id) = {}
    <3> SUFFICES ASSUME NEW p \in Heads(y, c, id) PROVE FALSE
      OBVIOUS
    <3>1. p \in 1 .. c - 1 /\ y[p].pro = USED /\ ~ Continues(y[p]) /\ y[p].id = id
      BY DEF Heads
    <3>2. p \notin m .. m + n - 1
      BY <1>5, <3>1
    <3>3. y[p] = z[p]
      BY <1>3, <1>4, <3>1, <3>2
    <3>4. p \in Heads(z, c, id)
      BY <3>1, <3>3 DEF Heads
    <3> QED
      BY <2>2, <2>3, <3>2, <3>4
  <2> QED
    BY <1>6, <2>4 DEF Has, y
<1>7. CASE id # z[m].id
  <2>1. Heads(y, c, id) = Heads(z, c, id)
    BY <1>2, <1>3, <1>4, <1>5, <1>7 DEF Heads
  <2>2. ASSUME NEW p, Heads(z, c, id) = {p} PROVE FileAt(y, p) = FileAt(z, p)
    <3>1. p \in 1 .. c - 1 /\ ~ Continues(z[p]) /\ z[p].id = id
      BY <2>2 DEF Heads
    <3>2. \A k \in 1 .. Frames(z[p].len) : p + k - 1 \in 1 .. Capacity /\ z[p + k - 1].id = id
      BY <3>1, FileStands
    <3>3. y[p] = z[p]
      BY <1>2, <1>3, <1>4, <1>7, <3>1
    <3>4. \A k \in 1 .. Frames(z[p].len) : y[p + k - 1].data = z[p + k - 1].data
      BY <1>2, <1>4, <1>7, <3>2
    <3> QED
      BY <3>3, <3>4 DEF FileAt
  <2> QED
    BY <1>7, <2>1, <2>2 DEF Has, y
<1> QED
  BY <1>6, <1>7

(* The file that is put is there, and the others are as they were.         *)
LEMMA FilledHas ==
  ASSUME TypeInv, FileCalled, NEW z, NEW c, Sound(z, c), c + Frames(call.len) <= Capacity + 1,
         NEW id, NEW x, Has(z, c, id, x), id = call.id => x = Absent
  PROVE  Has(Filled(z, c, 1), c + Frames(call.len), id, IF id = call.id THEN Content(call) ELSE x)
<1>f. PICK f \in Files : call.id = f.id /\ call.len = f.len /\ call.val = f.val
  BY DEF FileCalled
<1>n. PICK n \in Nat : n = Frames(call.len) /\ n >= 1
  <2>1. f.len \in Nat /\ f.len > 0
    BY FsAssumption, Fields
  <2> QED
    BY <1>f, <2>1, FramesOf
<1> DEFINE y == Filled(z, c, 1)
           d == c + n
<1>0. c \in 1 .. Capacity + 1 /\ Capacity \in Nat /\ c \in Nat /\ d \in Nat /\ d <= Capacity + 1
  BY <1>n, CapacityIs DEF Sound
<1>1. \A p \in 1 .. Capacity : /\ p \in c .. d - 1 => y[p] = Frame(1 + p - c)
                               /\ p \notin c .. d - 1 => y[p] = z[p]
  <2> TAKE p \in 1 .. Capacity
  <2>1. y[p] = IF p \in c .. c + Frames(call.len) - 1 THEN Frame(1 + p - c) ELSE z[p]
    BY DEF Filled
  <2> HIDE DEF y
  <2> QED
    BY <1>0, <1>n, <2>1
<1>2. \A p \in 1 .. c - 1 : p \in 1 .. Capacity /\ y[p] = z[p] /\ p \in 1 .. d - 1
  BY <1>0, <1>1, <1>n
<1>3. \A p \in c .. d - 1 : /\ p \in 1 .. Capacity /\ y[p] = Frame(1 + p - c) /\ y[p].id = call.id
                            /\ p = c => ~ Continues(y[p]) /\ y[p].pro = USED /\ y[p].len = call.len
                            /\ p > c => Continues(y[p])
  <2> TAKE p \in c .. d - 1
  <2> HIDE DEF y
  <2>1. p \in 1 .. Capacity /\ 1 + p - c \in 1 .. n /\ (p = c => 1 + p - c = 1) /\ (p > c => 1 + p - c > 1)
    BY <1>0, <1>n
  <2>2. y[p] = Frame(1 + p - c)
    BY <1>1, <2>1
  <2>3. /\ Frame(1 + p - c).id = call.id /\ Frame(1 + p - c).len = call.len /\ Frame(1 + p - c).pro = USED
        /\ 1 + p - c = 1 => ~ Continues(Frame(1 + p - c))
        /\ 1 + p - c > 1 => Continues(Frame(1 + p - c))
    BY <1>n, <2>1, FrameWritten
  <2> QED
    BY <2>1, <2>2, <2>3
<1>4. \A p \in 1 .. d - 1 : p \in 1 .. c - 1 \/ p \in c .. d - 1
  BY <1>0
<1>5. \A k \in 1 .. n : c + k - 1 \in c .. d - 1 /\ 1 + (c + k - 1) - c = k
  BY <1>0, <1>n
<1> HIDE DEF y, d
<1>6. CASE id = call.id
  <2>1. Heads(z, c, id) = {}
    BY <1>6, HasNone
  <2>2. c \in c .. d - 1 /\ c \in 1 .. d - 1 /\ \A p \in c .. d - 1 : p = c \/ p > c
    BY <1>0, <1>n DEF d
  <2>3. Heads(y, d, id) = {c}
    BY <1>2, <1>3, <1>4, <1>6, <2>1, <2>2 DEF Heads
  <2>4. y[c].len = call.len
    BY <1>3, <2>2
  <2>5. \A k \in 1 .. n : y[c + k - 1].data = <<call.val, k>>
    <3> TAKE k \in 1 .. n
    <3>1. y[c + k - 1] = Frame(1 + (c + k - 1) - c)
      BY <1>3, <1>5
    <3>2. y[c + k - 1] = Frame(k)
      BY <1>5, <3>1
    <3> QED
      BY <3>2 DEF Frame
  <2>6. FileAt(y, c) = Content(call)
    BY <1>n, <2>4, <2>5 DEF FileAt, Content
  <2> QED
    BY <1>n, <1>6, <2>3, <2>6 DEF Has, y, d
<1>7. CASE id # call.id
  <2>1. Heads(y, d, id) = Heads(z, c, id)
    BY <1>2, <1>3, <1>4, <1>7 DEF Heads
  <2>2. ASSUME NEW p, Heads(z, c, id) = {p} PROVE FileAt(y, p) = FileAt(z, p)
    <3>1. p \in 1 .. c - 1 /\ ~ Continues(z[p]) /\ y[p] = z[p]
      BY <1>2, <2>2 DEF Heads
    <3>2. \A k \in 1 .. Frames(z[p].len) : p + k - 1 \in 1 .. c - 1
      BY <3>1, FileStands
    <3>3. \A k \in 1 .. Frames(z[p].len) : y[p + k - 1].data = z[p + k - 1].data
      BY <1>2, <3>2
    <3> QED
      BY <3>1, <3>3 DEF FileAt
  <2> QED
    BY <1>n, <1>7, <2>1, <2>2 DEF Has, y, d
<1> QED
  BY <1>6, <1>7

(* A zone without its deleted items has the same files.                    *)
LEMMA CompactsHas ==
  ASSUME NEW z, NEW c, Sound(z, c), NEW F, NEW n, NEW g, Compacts(F, n, g, z, c),
         NEW id, NEW x, Has(z, c, id, x)
  PROVE  Has(F, n, id, x)
<1> DEFINE U == {p \in 1 .. c - 1 : z[p].pro = USED}
<1>1. Sound(F, n) /\ Enumerates(g, n - 1, U) /\ \A i \in 1 .. n - 1 : F[i] = z[g[i]]
  BY DEF Compacts
<1>0. n \in 1 .. Capacity + 1 /\ Capacity \in Nat /\ n \in Nat
  BY <1>1, CapacityIs DEF Sound
<1>2. \A i \in 1 .. n - 1 : g[i] \in Nat /\ g[i] \in U /\ i \in Nat
  BY <1>0, <1>1 DEF Enumerates
<1>3. \A i, j \in 1 .. n - 1 : g[i] = g[j] => i = j
  <2> SUFFICES ASSUME NEW i \in 1 .. n - 1, NEW j \in 1 .. n - 1, g[i] = g[j] PROVE i = j
    OBVIOUS
  <2>1. (i < j => g[i] < g[j]) /\ (j < i => g[j] < g[i])
    BY <1>1 DEF Enumerates
  <2> HIDE DEF U
  <2> QED
    BY <1>2, <2>1
<1>4. \A i \in 1 .. n - 1 : i \in Heads(F, n, id) <=> g[i] \in Heads(z, c, id)
  BY <1>1, <1>2 DEF Heads
<1>5. CASE Heads(z, c, id) = {} /\ x = Absent
  <2>1. Heads(F, n, id) = {}
    BY <1>4, <1>5 DEF Heads
  <2> QED
    BY <1>5, <2>1 DEF Has
<1>6. ASSUME NEW p, Heads(z, c, id) = {p}, x = FileAt(z, p) PROVE Has(F, n, id, x)
  <2>1. p \in 1 .. c - 1 /\ z[p].pro = USED /\ ~ Continues(z[p]) /\ p \in U
    BY <1>6 DEF Heads
  <2>2. PICK i \in 1 .. n - 1 : g[i] = p
    BY <1>1, <2>1 DEF Enumerates
  <2>3. Heads(F, n, id) = {i}
    <3>1. \A j \in 1 .. n - 1 : j \in Heads(F, n, id) <=> j = i
      BY <1>3, <1>4, <1>6, <2>2
    <3> QED
      BY <3>1 DEF Heads
  <2>4. F[i] = z[p]
    BY <1>1, <2>2
  <2> DEFINE K == Frames(z[p].len)
  <2>5. K \in Nat /\ \A k \in 1 .. K : p + k - 1 \in U
    <3>1. \A k \in 1 .. K : p + k - 1 \in 1 .. c - 1 /\ z[p + k - 1].pro = USED
      BY <2>1, FileStands
    <3> QED
      BY <2>1, <3>1, FileStands
  <2>6. ASSUME NEW k \in 1 .. K PROVE F[i + k - 1].data = z[p + k - 1].data
    <3> HIDE DEF K, U
    <3>1. k - 1 \in Nat /\ i + (k - 1) = i + k - 1 /\ p + (k - 1) = p + k - 1 /\ p \in Nat
      BY <1>2, <2>2, <2>5
    <3>2. \A y \in g[i] .. g[i] + (k - 1) : y \in U
      <4> TAKE y \in g[i] .. g[i] + (k - 1)
      <4>1. y - p + 1 \in 1 .. K /\ p + (y - p + 1) - 1 = y
        BY <2>2, <2>5, <3>1
      <4> QED
        BY <2>5, <4>1
    <3>3. i + (k - 1) \in 1 .. n - 1 /\ g[i + (k - 1)] = g[i] + (k - 1)
      BY <1>1, <3>1, <3>2, InARow
    <3>4. i + k - 1 \in 1 .. n - 1 /\ g[i + k - 1] = p + k - 1
      BY <2>2, <3>1, <3>3
    <3> QED
      BY <1>1, <3>4
  <2>7. FileAt(F, i) = FileAt(z, p)
    BY <2>4, <2>6 DEF FileAt
  <2> QED
    BY <1>6, <2>3, <2>7 DEF Has
<1> QED
  BY <1>5, <1>6 DEF Has

-----------------------------------------------------------------------------
(* The invariant.  While a call runs the zone is not yet what it will be:  *)
(* z is the zone of n - 1 items that the call makes of it, and holds the   *)
(* files as they will be read when the call has ended.  The zone has no    *)
(* files while it is formatted, or when it holds something else; then none *)
(* was there to be lost.                                                   *)

Future(id) ==
  IF call.phase = "mark" /\ id = call.id THEN Absent
  ELSE IF call.phase = "put" /\ id = call.id THEN Content(call)
  ELSE seen[id]

Keeps(z, n) == \A id \in Ids : Has(z, n, id, Future(id))

Unready == ~ready /\ (call = NoCall \/ Initing)

Stands(z, n) ==
  \/ call = NoCall /\ Resting(n) /\ z = Zone(ex)
  \/ Unready /\ \E e \in Sectors : Old(e, n) /\ z = Zone(e)
  \/ \E m \in Nat : Marking(n, m) /\ z = Marked(Zone(ex), m, call.k)
  \/ \E c \in Nat : /\ Putting(c) /\ z = Filled(Zone(ex), c, call.k)
                    /\ n = c + Frames(call.len) - call.k + 1
  \/ Collecting(n, z)
  \/ Collected(n) /\ z = Zone(Sector(ex - 1))

Fresh == seen = [id \in Ids |-> Absent] /\ intent = Store!NoIntent

Gone ==
  /\ ~ready
  /\ call.op = "format" \/ (Fresh /\ (Indexing \/ (Unready /\ (Blanked \/ Bad # {}))))

Meant ==
  /\ call.op = "write" => call.id \in Ids /\ intent = [id |-> call.id, new |-> Content(call)]
  /\ call.op = "delete" => call.id \in Ids /\ intent = [id |-> call.id, new |-> Absent]
  /\ call.op \notin {"write", "delete"} => intent = Store!NoIntent

StoreInv ==
  /\ seen = [id \in Ids |-> seen[id]]
  /\ Meant
  /\ Gone \/ \E z : \E n \in Nat : Stands(z, n) /\ Keeps(z, n)

(* The phase of a call tells how the zone stands.                          *)
LEMMA StandsCases ==
  ASSUME TypeInv, NEW z, NEW n, Stands(z, n)
  PROVE  /\ call.op = "none" => \/ call = NoCall /\ Resting(n) /\ z = Zone(ex)
                                \/ ~ready /\ call = NoCall /\ \E e \in Sectors : Old(e, n) /\ z = Zone(e)
         /\ call.phase \notin {"wipe"} /\ call.op # "format"
         /\ call.phase = "index" => call.op = "collect"
         /\ call.phase = "mark" => \E m \in Nat : Marking(n, m) /\ z = Marked(Zone(ex), m, call.k)
         /\ call.phase = "put" => \E c \in Nat : /\ Putting(c) /\ z = Filled(Zone(ex), c, call.k)
                                                 /\ n = c + Frames(call.len) - call.k + 1
         /\ call.phase \in {"index", "copy", "data", "erase"} => Collecting(n, z)
         /\ call.phase = "mount" => \/ ~ready /\ Initing /\ \E e \in Sectors : Old(e, n) /\ z = Zone(e)
                                    \/ Collected(n) /\ z = Zone(Sector(ex - 1))
<1>1. /\ call = NoCall => call.op = "none" /\ call.phase = "none"
      /\ Initing => call.op = "init" /\ call.phase = "mount"
      /\ \A c, m : Marking(c, m) => call.op \in {"write", "delete"} /\ call.phase = "mark"
      /\ \A c : Putting(c) => call.op = "write" /\ call.phase = "put"
      /\ \A c : Collected(c) => call.op = "collect" /\ call.phase = "mount"
  BY DEF NoCall, Initing, Marking, Putting, Collected, TypeInv, CallInv
<1>2. Collecting(n, z) => call.op = "collect" /\ call.phase \in {"index", "copy", "data", "erase"}
  BY DEF Collecting, ToIndex, ToCopy, ToData, ToErase, Moved
<1> QED
  BY <1>1, <1>2 DEF Stands, Unready

(* What is to be, for the same zone.                                       *)
LEMMA HasNext ==
  ASSUME NEW z, NEW n, NEW id, NEW x, Has(z, n, id, x)
  PROVE  Has(z, n, id, x)'
BY DEF Has, Heads, FileAt, Continues, Frames, USED, MF_C, MF_E, Absent

LEMMA KeepsNext ==
  ASSUME NEW z, NEW n, \A id \in Ids : Has(z, n, id, Future(id)')
  PROVE  Keeps(z, n)'
<1> SUFFICES ASSUME NEW id \in Ids PROVE Has(z, n, id, Future(id))'
  BY DEF Keeps, Ids
<1>1. PICK x : x = Future(id)'
  OBVIOUS
<1>2. Has(z, n, id, x)'
  BY <1>1, HasNext
<1> QED
  BY <1>1, <1>2 DEF Has, Heads, FileAt, Continues, Frames, USED, MF_C, MF_E, Absent

(* Most steps leave what is to be as it was.                               *)
LEMMA KeepsOn ==
  ASSUME NEW z, NEW n, Keeps(z, n), seen' = seen, \A id \in Ids : Future(id)' = Future(id)
  PROVE  Keeps(z, n)'
<1>1. \A id \in Ids : Has(z, n, id, Future(id)')
  BY DEF Keeps
<1> QED
  BY <1>1, KeepsNext

ReadFound ==
  \A z, n, id, x : Sound(Zone(ex), n) /\ z = Zone(ex) /\ Has(z, n, id, x) => ReadBack(id) = x
LEMMA ReadFact == Zoned => ReadFound
BY ReadsBack DEF ReadFound

(* When a call ends, what is read is what is in the zone.                  *)
LEMMA Settles ==
  ASSUME TypeInv', Observe, call' = NoCall, ready', NEW z, NEW n \in Nat, Resting(n)', Zone(ex)' = z,
         NEW v, \A id \in Ids : Has(z, n, id, v[id])
  PROVE  seen' = [id \in Ids |-> v[id]] /\ intent' = Store!NoIntent /\ StoreInv'
<1>1. Mounted'
  BY DEF Mounted, NoCall
<1>2. \A id \in Ids : ReadBack(id)' = v[id]
  <2>1. Zoned'
    BY DEF TypeInv, TypeOK, Zoned
  <2>2. (Zoned => ReadFound)'
    BY ReadFact, PTL
  <2>3. Sound(Zone(ex), n)'
    BY DEF Resting, Old
  <2>4. \A id \in Ids : Has(z, n, id, v[id])'
    <3> TAKE id \in Ids
    <3>1. PICK x : x = v[id]
      OBVIOUS
    <3>2. Has(z, n, id, x)'
      BY <3>1, HasNext
    <3> QED
      BY <3>1, <3>2
  <2> QED
    BY <2>1, <2>2, <2>3, <2>4 DEF ReadFound
<1>3. View' = [id \in Ids |-> v[id]]
  BY <1>2 DEF View, Ids
<1>4. seen' = [id \in Ids |-> v[id]] /\ intent' = Store!NoIntent
  BY <1>1, <1>3 DEF Observe
<1>5. \A id \in Ids : Future(id)' = v[id]
  BY <1>4 DEF Future, NoCall
<1>6. Keeps(z, n)'
  BY <1>5, KeepsNext
<1>7. Stands(z, n)'
  BY DEF Stands
<1>8. Meant'
  BY <1>4 DEF Meant, NoCall, Store!NoIntent
<1>9. (seen = [id \in Ids |-> seen[id]])'
  BY <1>4 DEF Ids
<1> QED
  BY <1>4, <1>6, <1>7, <1>8, <1>9 DEF StoreInv

-----------------------------------------------------------------------------
(* Steps of calls that leave the files alone.                              *)

(* Of the files; that a format begins or ends is seen to in FormatEnds.     *)
Steps == [Store!Next]_<<seen, intent>>

LEMMA Stutters == UNCHANGED <<seen, intent>> => Steps
BY DEF Steps

LEMMA Quiet ==
  ASSUME Observe, ~ Mounted', call'.op \notin {"write", "delete"}
  PROVE  seen' = seen /\ intent' = intent /\ (Fresh => Fresh')
<1>1. seen' = seen /\ intent' = intent
  BY DEF Observe
<1> QED
  BY <1>1 DEF Fresh, Ids, Absent, Store!NoIntent

LEMMA LeavesAlone ==
  ASSUME StoreInv, Observe, ~ Mounted', call.op \notin {"write", "delete"}, call'.op \notin {"write", "delete"},
         call.phase \notin {"mark", "put"}, call'.phase \notin {"mark", "put"}
  PROVE  /\ Steps
         /\ Gone' => StoreInv'
         /\ \A z : \A n \in Nat : Keeps(z, n) /\ Stands(z, n)' => StoreInv'
<1>1. seen' = seen /\ intent' = intent
  BY DEF Observe
<1>2. Meant'
  BY <1>1 DEF StoreInv, Meant, Store!NoIntent, Absent
<1>3. (seen = [id \in Ids |-> seen[id]])'
  BY <1>1 DEF StoreInv, Ids
<1>4. \A id \in Ids : Future(id)' = Future(id)
  BY <1>1 DEF Future
<1>5. ASSUME NEW z, NEW n \in Nat, Keeps(z, n), Stands(z, n)' PROVE StoreInv'
  <2>1. Keeps(z, n)'
    BY <1>1, <1>4, <1>5, KeepsOn
  <2> QED
    BY <1>2, <1>3, <1>5, <2>1 DEF StoreInv
<1> QED
  BY <1>1, <1>2, <1>3, <1>5, Stutters DEF StoreInv

(* Nothing happens to the flash or to RAM, and no call is begun.           *)
LEMMA StaysMounted ==
  ASSUME StoreInv, Observe, TypeInv', call = NoCall, call' = NoCall, ready, UNCHANGED <<flash, ram>>,
         NEW z, NEW n \in Nat, Resting(n), z = Zone(ex), Keeps(z, n)
  PROVE  StoreInv' /\ Steps
<1>1. ready' = ready /\ ex' = ex /\ free' = free /\ head' = head /\ item' = item
  BY DEF flash, ram
<1>2. Resting(n)' /\ Zone(ex)' = z
  <2>1. Old(ex, n)'
    BY <1>1, OldUnchanged DEF Resting, Old, Ring, Zone
  <2>2. Zone(ex)' = Zone(ex)
    BY <1>1, OldUnchanged DEF Zone
  <2> QED
    BY <1>1, <2>1, <2>2 DEF Resting, Spot, Place, Capacity
<1>3. \A id \in Ids : Has(z, n, id, seen[id])
  BY DEF Keeps, Future, NoCall
<1>4. seen' = [id \in Ids |-> seen[id]] /\ intent' = Store!NoIntent /\ StoreInv'
  BY <1>1, <1>2, <1>3, Settles
<1>5. seen' = seen /\ intent' = intent
  BY <1>4 DEF StoreInv, Meant, NoCall
<1> QED
  BY <1>4, <1>5, Stutters

LEMMA StoreIdle ==
  ASSUME IInv, TypeInv', StoreInv, Observe, Cuts = {}, Refuse \/ HalInit \/ Format \/ Restart
  PROVE  StoreInv' /\ Steps
<1>1. call = NoCall /\ call.op = "none" /\ call.phase = "none"
  <2>1. call.op = "none"
    BY DEF Refuse, HalInit, Format, Restart, Calling
  <2> QED
    BY <2>1, ModeCases DEF Idle, NoCall
<1>2. UNCHANGED flash /\ head' = head /\ item' = item
  BY DEF Refuse, HalInit, Format, Restart, flash
<1>3. CASE Gone
  <2>1. ~ready /\ Fresh /\ (Blanked \/ Bad # {})
    BY <1>1, <1>3 DEF Gone, Indexing
  <2>2. Blanked' \/ Bad' # {}
    BY <1>2, <2>1, OldUnchanged
  <2>3. ~ready' /\ call'.op \in {"none", "init", "format"} /\ call'.phase \notin {"mark", "put"}
        /\ (call'.op = "format" \/ Unready')
    <3>1. CASE Refuse
      BY <3>1, <2>1 DEF Refuse, Return, NoCall, ram, Unready
    <3>2. CASE HalInit
      <4>1. call' = [NoCall EXCEPT !.op = "init", !.phase = "mount"] /\ ~ready'
        BY <3>2, <2>1 DEF HalInit, Enter, ram
      <4>2. call'.op = "init" /\ call'.phase = "mount" /\ call'.k = 0
        BY <4>1 DEF NoCall
      <4> QED
        BY <2>2, <4>1, <4>2 DEF Unready, Initing, Mountable
    <3>3. CASE Format
      BY <3>3 DEF Format, Enter, NoCall
    <3>4. CASE Restart
      BY <3>4 DEF Restart, Return, NoCall, Unready
    <3> QED
      BY <3>1, <3>2, <3>3, <3>4
  <2>4. ~ Mounted' /\ Fresh'
    BY <2>1, <2>3, Quiet DEF Mounted
  <2>5. Gone'
    BY <2>2, <2>3, <2>4 DEF Gone
  <2> QED
    BY <1>1, <2>3, <2>4, <2>5, LeavesAlone
<1>4. ASSUME NEW z, NEW n \in Nat, Stands(z, n), Keeps(z, n) PROVE StoreInv' /\ Steps
  <2>1. TypeInv
    BY DEF IInv
  <2>2. \/ Resting(n) /\ z = Zone(ex)
        \/ ~ready /\ \E e \in Sectors : Old(e, n) /\ z = Zone(e)
    BY <1>1, <1>4, <2>1, StandsCases
  <2>3. PICK e \in Sectors : Old(e, n) /\ z = Zone(e)
    BY <2>1, <2>2 DEF Resting, TypeInv, TypeOK
  <2>4. Old(e, n)' /\ z = Zone(e)' /\ Mountable'
    <3>1. n \in 1 .. Capacity + 1
      BY <2>3 DEF Old, Sound
    <3> QED
      BY <1>2, <2>3, <3>1, OldUnchanged, OldMountable
  <2>5. ASSUME ~ready', Unready', call'.op \notin {"write", "delete"}, call'.phase \notin {"mark", "put"}
        PROVE  StoreInv' /\ Steps
    <3>1. Stands(z, n)'
      BY <2>4, <2>5 DEF Stands, Sectors
    <3> QED
      BY <1>1, <1>4, <2>5, <3>1, LeavesAlone DEF Mounted
  <2>6. CASE Refuse
    <3>1. ~ready' /\ call' = NoCall
      BY <2>6 DEF Refuse, Return, ram
    <3> QED
      BY <2>5, <3>1 DEF Unready, NoCall
  <2>7. CASE HalInit /\ ~ready
    <3>1. call' = [NoCall EXCEPT !.op = "init", !.phase = "mount"] /\ ~ready'
      BY <2>7 DEF HalInit, Enter, ram
    <3>2. call'.op = "init" /\ call'.phase = "mount" /\ call'.k = 0
      BY <3>1 DEF NoCall
    <3>3. Unready'
      BY <2>4, <3>1, <3>2 DEF Unready, Initing
    <3> QED
      BY <2>5, <3>1, <3>2, <3>3
  <2>8. CASE HalInit /\ ready
    <3>1. call' = NoCall /\ UNCHANGED <<flash, ram>>
      BY <2>8 DEF HalInit, Return
    <3> QED
      BY <1>1, <1>4, <2>2, <2>8, <3>1, StaysMounted
  <2>9. CASE Format
    <3>1. ~ready' /\ call'.op = "format" /\ call'.phase = "wipe"
      BY <2>9 DEF Format, Enter, NoCall
    <3>2. Gone' /\ ~ Mounted'
      BY <3>1 DEF Gone, Mounted
    <3> QED
      BY <1>1, <3>1, <3>2, LeavesAlone
  <2>10. CASE Restart
    <3>1. ~ready' /\ call' = NoCall
      BY <2>10 DEF Restart, Return
    <3> QED
      BY <2>5, <3>1 DEF Unready, NoCall
  <2> QED
    BY <2>6, <2>7, <2>8, <2>9, <2>10
<1> QED
  BY <1>3, <1>4 DEF StoreInv

-----------------------------------------------------------------------------
(* hal_fs_item_write and hal_fs_item_del.                                  *)

(* When the frames of a file begin to be marked it is as good as gone.     *)
LEMMA MarkStands ==
  ASSUME NEW z, NEW c \in Nat, Sound(z, c), NEW id, NEW m \in Heads(z, c, id), m \in Nat,
         \A i \in Ids : Has(z, c, i, seen[i]),
         seen' = seen, Zone(ex)' = z, call'.id = id, call'.k = Frames(z[m].len), Marking(c, m)'
  PROVE  \E y : Stands(y, c)' /\ Keeps(y, c)'
<1> DEFINE y == Marked(z, m, Frames(z[m].len))
<1>1. m \in 1 .. c - 1 /\ z[m].pro = USED /\ ~ Continues(z[m]) /\ z[m].id = id
  BY DEF Heads
<1>2. \A i \in Ids : Has(y, c, i, IF i = id THEN Absent ELSE seen[i])
  BY <1>1, MarkedHas
<1>3. y = Marked(Zone(ex), m, call.k)'
  BY DEF Marked, Capacity
<1> HIDE DEF y
<1>4. call'.phase = "mark"
  BY DEF Marking
<1>5. \A i \in Ids : Future(i)' = IF i = id THEN Absent ELSE seen[i]
  BY <1>4 DEF Future, Absent
<1>6. Keeps(y, c)'
  BY <1>2, <1>5, KeepsNext
<1>7. Stands(y, c)'
  BY <1>3 DEF Stands
<1> QED
  BY <1>6, <1>7

(* When the frames of a file begin to be put it is as good as there.       *)
PutsNew ==
  \A z : \A c \in Nat :
    /\ Putting(c) /\ Resting(c) /\ call.k = 1 /\ z = Zone(ex)
    /\ \A id \in Ids : Has(z, c, id, IF id = call.id THEN Absent ELSE seen[id])
    => \E y : \E n \in Nat : Stands(y, n) /\ Keeps(y, n)

LEMMA PutStands == TypeInv => PutsNew
<1> SUFFICES ASSUME TypeInv, NEW z, NEW c \in Nat, Putting(c), Resting(c), call.k = 1, z = Zone(ex),
                    \A id \in Ids : Has(z, c, id, IF id = call.id THEN Absent ELSE seen[id])
             PROVE  \E y : \E n \in Nat : Stands(y, n) /\ Keeps(y, n)
  BY DEF PutsNew
<1>1. call.phase = "put" /\ FileCalled /\ Sound(z, c)
  BY DEF Putting, TypeInv, CallInv, Resting, Old
<1>2. PICK k \in Nat : k = Frames(call.len)
  <2>1. call.len \in Nat
    BY DEF TypeInv, TypeOK, Call
  <2> QED
    BY <2>1, FramesOf
<1>3. c + k <= Capacity + 1 /\ c + k \in Nat
  <2>1. c + k - 1 <= Capacity /\ Capacity \in Nat
    BY <1>2, CapacityIs DEF Putting
  <2> QED
    BY <1>2, <2>1
<1>4. \A id \in Ids : Has(Filled(z, c, 1), c + k, id, Future(id))
  <2> TAKE id \in Ids
  <2>1. PICK x : x = IF id = call.id THEN Absent ELSE seen[id]
    OBVIOUS
  <2>2. Has(Filled(z, c, 1), c + Frames(call.len), id, IF id = call.id THEN Content(call) ELSE x)
    BY <1>1, <1>2, <1>3, <2>1, FilledHas
  <2>3. Future(id) = IF id = call.id THEN Content(call) ELSE x
    BY <1>1, <2>1 DEF Future
  <2> QED
    BY <1>2, <2>2, <2>3
<1>5. c + k = c + k - 1 + 1
  BY <1>2
<1>6. Stands(Filled(z, c, 1), c + k)
  BY <1>2, <1>5 DEF Stands
<1> QED
  BY <1>3, <1>4, <1>6 DEF Keeps

LEMMA PutBegins ==
  ASSUME TypeInv', NEW z, NEW c \in Nat, Putting(c)', Resting(c)', call'.k = 1, z = Zone(ex)',
         \A id \in Ids : Has(z, c, id, IF id = call'.id THEN Absent ELSE seen'[id])
  PROVE  \E y : \E n \in Nat : Stands(y, n)' /\ Keeps(y, n)'
<1>1. (TypeInv => PutsNew)'
  BY PutStands, PTL
<1>2. \A id \in Ids : Has(z, c, id, IF id = call.id THEN Absent ELSE seen[id])'
  <2> TAKE id \in Ids
  <2>1. PICK x : x = IF id = call'.id THEN Absent ELSE seen'[id]
    OBVIOUS
  <2>2. Has(z, c, id, x)'
    BY <2>1, HasNext
  <2> QED
    BY <2>1, <2>2 DEF Has, Heads, FileAt, Continues, Frames, USED, MF_C, MF_E, Absent
<1> QED
  BY <1>1, <1>2 DEF PutsNew, Ids

(* Between calls a zone that is mounted stands as it is.                   *)
LEMMA StandsMounted ==
  ASSUME IInv, StoreInv, call.op = "none", ready
  PROVE  /\ call = NoCall /\ intent = Store!NoIntent
         /\ \E z : \E n \in Nat : /\ n \in 1 .. Capacity + 1 /\ Resting(n) /\ z = Zone(ex) /\ Keeps(z, n)
                                  /\ Sound(z, n) /\ Zoned
                                  /\ \A id \in Ids : Has(z, n, id, seen[id])
<1>1. TypeInv /\ call = NoCall
  BY ModeCases DEF IInv, Idle
<1>2. PICK z : \E n \in Nat : Stands(z, n) /\ Keeps(z, n)
  BY DEF StoreInv, Gone
<1>3. PICK n \in Nat : Stands(z, n) /\ Keeps(z, n)
  BY <1>2
<1>4. Resting(n) /\ z = Zone(ex)
  BY <1>1, <1>3, StandsCases
<1>5. Sound(z, n) /\ n \in 1 .. Capacity + 1 /\ Zoned
  BY <1>1, <1>4 DEF Resting, Old, Sound, TypeInv, TypeOK, Zoned
<1>6. \A id \in Ids : Has(z, n, id, seen[id])
  BY <1>1, <1>3 DEF Keeps, Future, NoCall
<1>7. intent = Store!NoIntent
  BY DEF StoreInv, Meant
<1> QED
  BY <1>1, <1>3, <1>4, <1>5, <1>6, <1>7

(* A write or a delete begins.                                             *)
LEMMA Begins ==
  ASSUME StoreInv, Observe, call = NoCall, intent = Store!NoIntent, call'.op \in {"write", "delete"},
         call'.id \in Ids
  PROVE  /\ seen' = seen /\ Meant' /\ (seen = [id \in Ids |-> seen[id]])'
         /\ intent' = [id |-> call'.id, new |-> IF call'.op = "write" THEN Content(call') ELSE Absent]
<1>1. seen' = seen
      /\ intent' = [id |-> call'.id, new |-> IF call'.op = "write" THEN Content(call') ELSE Absent]
  BY DEF Observe, Mounted
<1>2. Meant'
  BY <1>1 DEF Meant, Content, Frames, Absent, Ids
<1>3. (seen = [id \in Ids |-> seen[id]])'
  BY <1>1 DEF StoreInv, Ids
<1> QED
  BY <1>1, <1>2, <1>3

LEMMA StoreWrite ==
  ASSUME IInv, TypeInv', StoreInv, Observe, NEW f \in Files, Write(f)
  PROVE  StoreInv' /\ Steps
<1>1. call.op = "none" /\ ready
  BY DEF Write, Calling
<1>2. call = NoCall /\ intent = Store!NoIntent
  BY <1>1, StandsMounted
<1>3. PICK z : \E n \in Nat : /\ n \in 1 .. Capacity + 1 /\ Resting(n) /\ z = Zone(ex) /\ Keeps(z, n)
                              /\ Sound(z, n) /\ Zoned /\ \A id \in Ids : Has(z, n, id, seen[id])
  BY <1>1, StandsMounted
<1>4. PICK n \in Nat : /\ n \in 1 .. Capacity + 1 /\ Resting(n) /\ z = Zone(ex) /\ Keeps(z, n)
                       /\ Sound(z, n) /\ Zoned /\ \A id \in Ids : Has(z, n, id, seen[id])
  BY <1>3
<1>5. CASE ~ Fits(f)
  <2>1. call' = NoCall /\ UNCHANGED <<flash, ram>>
    BY <1>5 DEF Write, Return
  <2> QED
    BY <1>1, <1>2, <1>4, <2>1, StaysMounted
<1>6. CASE Fits(f)
  <2>1. /\ call'.op = "write" /\ call'.id = f.id /\ call'.len = f.len /\ call'.val = f.val
        /\ \/ /\ call'.phase = "put" /\ call'.k = 1 /\ Resting(n)' /\ Putting(n)' /\ n \in Nat
              /\ Located(f.id) = {} \/ Mark(f.id).k = 0
           \/ /\ call'.phase = "mark"
              /\ \E m \in Nat : /\ Marking(n, m)' /\ m \in Located(f.id) /\ n \in Nat
                                /\ call'.k = Frames(Zone(ex)[m].len)
        /\ Zone(ex)' = Zone(ex)
    BY <1>4, <1>6, WriteBegins
  <2>2. f.id \in Ids
    BY DEF Ids
  <2>3. /\ seen' = seen /\ Meant' /\ (seen = [id \in Ids |-> seen[id]])'
        /\ intent' = [id |-> f.id, new |-> Content(call')]
    BY <1>2, <2>1, <2>2, Begins
  <2>4. Content(call') = Content(f)
    BY <2>1 DEF Content
  <2>5. Steps
    <3>1. Store!Begin(f.id, Content(f))
      BY <1>1, <1>2, <2>1, <2>3, <2>4 DEF Store!Begin
    <3>2. Store!Next
      BY <2>2, <3>1 DEF Store!Next
    <3> QED
      BY <3>2 DEF Steps
  <2>6. \E y : \E c \in Nat : Stands(y, c)' /\ Keeps(y, c)'
    <3>1. CASE call'.phase = "mark"
      <4>1. PICK m \in Nat : Marking(n, m)' /\ m \in Located(f.id) /\ call'.k = Frames(z[m].len)
        BY <1>4, <2>1, <3>1
      <4>2. m \in Heads(z, n, f.id)
        BY <1>4, <4>1, LocatedIs
      <4> QED
        BY <1>4, <2>1, <2>3, <4>1, <4>2, MarkStands
    <3>2. CASE call'.phase # "mark"
      <4>1. call'.k = 1 /\ Resting(n)' /\ Putting(n)' /\ (Located(f.id) = {} \/ Mark(f.id).k = 0)
        BY <2>1, <3>2
      <4>2. Located(f.id) = {}
        <5> SUFFICES ASSUME Located(f.id) # {} PROVE FALSE
          OBVIOUS
        <5>1. PICK m \in 1 .. Capacity, k \in Nat :
                /\ Mark(f.id) = [NoCall EXCEPT !.phase = "mark", !.id = f.id, !.at = Place(ex, m), !.k = k]
                /\ m \in Located(f.id) /\ k = Frames(Zone(ex)[m].len)
          BY <1>4, MarkIs
        <5>2. Mark(f.id).k = k
          BY <5>1 DEF NoCall
        <5>3. m \in 1 .. n - 1 /\ ~ Continues(z[m])
          BY <1>4, <5>1, LocatesHead
        <5>4. k >= 1
          BY <1>4, <5>1, <5>3, FileStands
        <5> QED
          BY <4>1, <5>2, <5>4
      <4>3. \A id \in Ids : Has(z, n, id, IF id = call'.id THEN Absent ELSE seen'[id])
        <5> TAKE id \in Ids
        <5>1. CASE id = f.id
          <6>1. Heads(z, n, id) = {}
            <7> SUFFICES ASSUME Heads(z, n, id) # {} PROVE FALSE
              OBVIOUS
            <7>1. PICK p : Heads(z, n, id) = {p}
              BY <1>4 DEF Has
            <7> QED
              BY <1>4, <4>2, <5>1, <7>1, LocatedIs
          <6> QED
            BY <2>1, <5>1, <6>1 DEF Has
        <5>2. CASE id # f.id
          BY <1>4, <2>1, <2>3, <5>2
        <5> QED
          BY <5>1, <5>2
      <4> QED
        BY <1>4, <2>1, <4>1, <4>3, PutBegins
    <3> QED
      BY <3>1, <3>2
  <2> QED
    BY <2>3, <2>5, <2>6 DEF StoreInv
<1> QED
  BY <1>5, <1>6

LEMMA StoreDelete ==
  ASSUME IInv, TypeInv', StoreInv, Observe, NEW id \in Ids, Delete(id)
  PROVE  StoreInv' /\ Steps
<1>1. call.op = "none" /\ ready
  BY DEF Delete, Calling
<1>2. call = NoCall /\ intent = Store!NoIntent
  BY <1>1, StandsMounted
<1>3. PICK z : \E n \in Nat : /\ n \in 1 .. Capacity + 1 /\ Resting(n) /\ z = Zone(ex) /\ Keeps(z, n)
                              /\ Sound(z, n) /\ Zoned /\ \A i \in Ids : Has(z, n, i, seen[i])
  BY <1>1, StandsMounted
<1>4. PICK n \in Nat : /\ n \in 1 .. Capacity + 1 /\ Resting(n) /\ z = Zone(ex) /\ Keeps(z, n)
                       /\ Sound(z, n) /\ Zoned /\ \A i \in Ids : Has(z, n, i, seen[i])
  BY <1>3
<1>5. CASE Located(id) = {} \/ Mark(id).k = 0
  <2>1. call' = NoCall /\ UNCHANGED <<flash, ram>>
    BY <1>5 DEF Delete, Return
  <2> QED
    BY <1>1, <1>2, <1>4, <2>1, StaysMounted
<1>6. CASE Located(id) # {} /\ Mark(id).k # 0
  <2>1. /\ call'.op = "delete" /\ call'.id = id /\ call'.phase = "mark"
        /\ \E m \in Nat : /\ Marking(n, m)' /\ m \in Located(id) /\ n \in Nat
                          /\ call'.k = Frames(Zone(ex)[m].len)
        /\ Zone(ex)' = Zone(ex)
    BY <1>4, <1>6, DeleteBegins
  <2>2. /\ seen' = seen /\ Meant' /\ (seen = [i \in Ids |-> seen[i]])'
        /\ intent' = [id |-> id, new |-> Absent]
    BY <1>2, <2>1, Begins
  <2>3. Steps
    <3>1. Store!Begin(id, Absent)
      BY <1>1, <1>2, <2>1, <2>2 DEF Store!Begin
    <3>2. Store!Next
      BY <3>1 DEF Store!Next
    <3> QED
      BY <3>2 DEF Steps
  <2>4. PICK m \in Nat : Marking(n, m)' /\ m \in Located(id) /\ call'.k = Frames(z[m].len)
    BY <1>4, <2>1
  <2>5. m \in Heads(z, n, id)
    BY <1>4, <2>4, LocatedIs
  <2>6. \E y : Stands(y, n)' /\ Keeps(y, n)'
    BY <1>4, <2>1, <2>2, <2>4, <2>5, MarkStands
  <2> QED
    BY <2>2, <2>3, <2>6 DEF StoreInv
<1> QED
  BY <1>5, <1>6

-----------------------------------------------------------------------------
(* hal_fs_garbage_collect.                                                 *)

LEMMA StoreCollect ==
  ASSUME IInv, StoreInv, Observe, Collect
  PROVE  StoreInv' /\ Steps
<1>1. call.op = "none" /\ ready
  BY DEF Collect, Calling
<1>2. call = NoCall
  BY <1>1, StandsMounted
<1>3. PICK z : \E n \in Nat : /\ n \in 1 .. Capacity + 1 /\ Resting(n) /\ z = Zone(ex) /\ Keeps(z, n)
                              /\ Sound(z, n) /\ Zoned /\ \A id \in Ids : Has(z, n, id, seen[id])
  BY <1>1, StandsMounted
<1>4. PICK n \in Nat : /\ n \in 1 .. Capacity + 1 /\ Resting(n) /\ z = Zone(ex) /\ Keeps(z, n)
                       /\ Sound(z, n) /\ Zoned /\ \A id \in Ids : Has(z, n, id, seen[id])
  BY <1>3
<1>5. PICK F, g : \E m \in 1 .. n : Compacts(F, m, g, z, n)
  BY <1>4, CompactsOf
<1>6. PICK m \in 1 .. n : Compacts(F, m, g, z, n)
  BY <1>5
<1>7. m \in Nat /\ Collecting(m, F)'
  BY <1>4, <1>6, CollectStarts
<1>8. Keeps(F, m)
  BY <1>4, <1>6, CompactsHas DEF Keeps
<1>9. Stands(F, m)'
  BY <1>7 DEF Stands
<1>10. call'.op = "collect" /\ call'.phase = "index"
  BY DEF Collect, Enter, NoCall
<1>11. ~ Mounted' /\ call.phase = "none"
  BY <1>2, <1>10 DEF Mounted, NoCall
<1> QED
  BY <1>1, <1>7, <1>8, <1>9, <1>10, <1>11, LeavesAlone

-----------------------------------------------------------------------------
(* The frames of a file that is marked or put.                             *)

(* A write or a delete goes on.                                            *)
LEMMA Proceeds ==
  ASSUME StoreInv, Observe, call.op \in {"write", "delete"},
         call'.op = call.op, call'.id = call.id, call'.len = call.len, call'.val = call.val
  PROVE  seen' = seen /\ Meant' /\ (seen = [id \in Ids |-> seen[id]])' /\ Steps
<1>1. call # NoCall /\ ~ Mounted'
  BY DEF NoCall, Mounted
<1>2. seen' = seen /\ intent' = intent
  BY <1>1 DEF Observe
<1>3. Content(call)' = Content(call)
  BY DEF Content, Frames
<1>4. Meant'
  BY <1>2, <1>3 DEF StoreInv, Meant, Absent, Ids, Store!NoIntent
<1>5. (seen = [id \in Ids |-> seen[id]])'
  BY <1>2 DEF StoreInv, Ids
<1> QED
  BY <1>2, <1>4, <1>5, Stutters

(* It ends.                                                                *)
LEMMA Finishes ==
  ASSUME StoreInv, Observe, TypeInv', call.op \in {"write", "delete"}, call' = NoCall, ready',
         NEW z, NEW n \in Nat, Sound(z, n), Keeps(z, n), Resting(n)', \A p \in 1 .. Capacity : Zone(ex)'[p] = z[p],
         \A id \in Ids : Future(id) = IF id = call.id THEN intent.new ELSE seen[id]
  PROVE  StoreInv' /\ Steps
<1>1. PICK y : y = Zone(ex)'
  OBVIOUS
<1> DEFINE v == [id \in Ids |-> Future(id)]
<1>2. \A id \in Ids : Has(y, n, id, v[id])
  <2> TAKE id \in Ids
  <2>1. v[id] = Future(id) /\ Has(z, n, id, Future(id))
    BY DEF Keeps
  <2> HIDE DEF v
  <2> QED
    BY <1>1, <2>1, HasSame
<1>3. PICK u : u = v
  OBVIOUS
<1>4. \A id \in Ids : Has(y, n, id, u[id]) /\ u[id] = Future(id)
  BY <1>2, <1>3
<1> HIDE DEF v
<1>5. seen' = [id \in Ids |-> u[id]] /\ intent' = Store!NoIntent /\ StoreInv'
  BY <1>1, <1>4, Settles
<1>6. /\ call.id \in Ids /\ intent.id = call.id /\ intent # Store!NoIntent
      /\ seen = [id \in Ids |-> seen[id]]
  <2>1. call.id \in Ids /\ intent.id = call.id /\ seen = [id \in Ids |-> seen[id]]
    BY DEF StoreInv, Meant
  <2>2. \A f \in Files : f.id # 0
    BY FsAssumption
  <2>3. call.id # 0
    BY <2>1, <2>2 DEF Ids
  <2> QED
    BY <2>1, <2>3 DEF Store!NoIntent
<1>7. seen' = [seen EXCEPT ![intent.id] = intent.new]
  BY <1>4, <1>5, <1>6
<1>8. Store!Finish
  BY <1>5, <1>6, <1>7 DEF Store!Finish, Store!Settle, NoCall
<1> QED
  BY <1>5, <1>8 DEF Steps, Store!Next

LEMMA StoreMark ==
  ASSUME IInv, TypeInv', StoreInv, Observe, MarkFrame
  PROVE  StoreInv' /\ Steps
<1>1. TypeInv /\ call.phase = "mark" /\ call.op \in {"write", "delete"}
  BY DEF IInv, TypeInv, CallInv, MarkFrame
<1>2. ~ Gone
  BY <1>1 DEF Gone, Indexing, Unready, NoCall, Initing
<1>3. PICK z : \E n \in Nat : Stands(z, n) /\ Keeps(z, n)
  BY <1>2 DEF StoreInv
<1>4. PICK n \in Nat : Stands(z, n) /\ Keeps(z, n)
  BY <1>3
<1>5. PICK m \in Nat : Marking(n, m) /\ z = Marked(Zone(ex), m, call.k)
  BY <1>1, <1>4, StandsCases
<1>6. Sound(z, n)
  BY <1>5 DEF Marking
<1>7. \A id \in Ids : Future(id) = IF id = call.id THEN Absent ELSE seen[id]
  BY <1>1 DEF Future
<1>8. CASE /\ Marking(n, m + 1)' /\ m + 1 \in Nat
           /\ call'.phase = "mark" /\ call'.op = call.op /\ call'.id = call.id
           /\ call'.len = call.len /\ call'.val = call.val
           /\ Marked(Zone(ex), m + 1, call.k)' = Marked(Zone(ex), m, call.k)
  <2>1. seen' = seen /\ Meant' /\ (seen = [id \in Ids |-> seen[id]])' /\ Steps
    BY <1>1, <1>8, Proceeds
  <2>2. \A id \in Ids : Future(id)' = Future(id)
    BY <1>7, <1>8, <2>1 DEF Future, Absent
  <2>3. Keeps(z, n)'
    BY <1>4, <2>1, <2>2, KeepsOn
  <2>4. PICK r \in Nat : r = m + 1
    BY <1>8
  <2>5. Marking(n, r)' /\ z = Marked(Zone(ex), r, call.k)'
    BY <1>5, <1>8, <2>4
  <2>6. Stands(z, n)'
    BY <2>5 DEF Stands
  <2> QED
    BY <2>1, <2>3, <2>6 DEF StoreInv
<1>9. ASSUME ready', Resting(n)', \A p \in 1 .. Capacity : Zone(ex)'[p] = Marked(Zone(ex), m, call.k)[p],
             call.op = "delete", call' = NoCall
      PROVE  StoreInv' /\ Steps
  <2>1. intent.new = Absent
    BY <1>9 DEF StoreInv, Meant
  <2> QED
    BY <1>1, <1>4, <1>5, <1>6, <1>7, <1>9, <2>1, Finishes
<1>10. ASSUME ready', Resting(n)', \A p \in 1 .. Capacity : Zone(ex)'[p] = Marked(Zone(ex), m, call.k)[p],
              call.op = "write", Putting(n)', call'.phase = "put", call'.k = 1, call'.op = "write",
              call'.id = call.id, call'.len = call.len, call'.val = call.val
       PROVE  StoreInv' /\ Steps
  <2>1. seen' = seen /\ Meant' /\ (seen = [id \in Ids |-> seen[id]])' /\ Steps
    BY <1>1, <1>10, Proceeds
  <2>2. PICK y : y = Zone(ex)'
    OBVIOUS
  <2>3. \A p \in 1 .. Capacity : y[p] = z[p]
    BY <1>5, <1>10, <2>2
  <2>4. \A id \in Ids : Has(y, n, id, IF id = call'.id THEN Absent ELSE seen'[id])
    <3> TAKE id \in Ids
    <3>1. PICK x : x = Future(id)
      OBVIOUS
    <3>2. Has(y, n, id, x)
      BY <1>4, <1>6, <2>3, <3>1, HasSame DEF Keeps
    <3> QED
      BY <1>7, <1>10, <2>1, <3>1, <3>2
  <2>5. \E w : \E k \in Nat : Stands(w, k)' /\ Keeps(w, k)'
    BY <1>10, <2>2, <2>4, PutBegins
  <2> QED
    BY <2>1, <2>5 DEF StoreInv
<1> QED
  BY <1>5, <1>8, <1>9, <1>10, MarksOn

LEMMA StorePut ==
  ASSUME IInv, TypeInv', StoreInv, Observe, PutFrame
  PROVE  StoreInv' /\ Steps
<1>1. TypeInv /\ call.phase = "put" /\ call.op = "write"
  BY DEF IInv, TypeInv, CallInv, PutFrame
<1>2. ~ Gone
  BY <1>1 DEF Gone, Indexing, Unready, NoCall, Initing
<1>3. PICK z : \E n \in Nat : Stands(z, n) /\ Keeps(z, n)
  BY <1>2 DEF StoreInv
<1>4. PICK n \in Nat : Stands(z, n) /\ Keeps(z, n)
  BY <1>3
<1>5. PICK c \in Nat : /\ Putting(c) /\ z = Filled(Zone(ex), c, call.k)
                       /\ n = c + Frames(call.len) - call.k + 1
  BY <1>1, <1>4, StandsCases
<1>6. Sound(z, n)
  BY <1>5 DEF Putting
<1>7. \A id \in Ids : Future(id) = IF id = call.id THEN Content(call) ELSE seen[id]
  BY <1>1 DEF Future
<1>8. CASE /\ Putting(c + 1)' /\ c + 1 \in Nat
           /\ call'.phase = "put" /\ call'.op = "write" /\ call'.id = call.id
           /\ call'.len = call.len /\ call'.val = call.val
           /\ Filled(Zone(ex), c + 1, call.k)' = Filled(Zone(ex), c, call.k)
           /\ c + 1 + Frames(call.len)' - call'.k = c + Frames(call.len) - call.k
  <2>1. seen' = seen /\ Meant' /\ (seen = [id \in Ids |-> seen[id]])' /\ Steps
    BY <1>1, <1>8, Proceeds
  <2>2. \A id \in Ids : Future(id)' = Future(id)
    <3>1. Content(call)' = Content(call)
      BY <1>8 DEF Content, Frames
    <3> QED
      BY <1>1, <1>7, <1>8, <2>1, <3>1 DEF Future
  <2>3. Keeps(z, n)'
    BY <1>4, <2>1, <2>2, KeepsOn
  <2>4. PICK r \in Nat : r = c + 1
    BY <1>8
  <2>5. Putting(r)' /\ z = Filled(Zone(ex), r, call.k)' /\ n = r + Frames(call.len)' - call'.k + 1
    BY <1>5, <1>8, <2>4
  <2>6. Stands(z, n)'
    BY <2>5 DEF Stands
  <2> QED
    BY <2>1, <2>3, <2>6 DEF StoreInv
<1>9. ASSUME call' = NoCall, ready', Resting(c + 1)', c + 1 = c + Frames(call.len) - call.k + 1,
             \A p \in 1 .. Capacity : Zone(ex)'[p] = Filled(Zone(ex), c, call.k)[p]
      PROVE  StoreInv' /\ Steps
  <2>1. intent.new = Content(call)
    BY <1>1 DEF StoreInv, Meant
  <2>2. n = c + 1
    BY <1>5, <1>9
  <2>3. Resting(n)'
    BY <1>9, <2>2
  <2> QED
    BY <1>1, <1>4, <1>5, <1>6, <1>7, <1>9, <2>1, <2>3, Finishes
<1> QED
  BY <1>5, <1>8, <1>9, PutsOn

-----------------------------------------------------------------------------
(* Steps of the collector, and the calls that mount.                       *)

CallOfMode ==
  /\ \A n, F : Collecting(n, F) => call.op = "collect" /\ call.phase \in {"index", "copy", "data", "erase"}
  /\ \A c : Collected(c) => call.op = "collect" /\ call.phase = "mount"
LEMMA CallFact == CallOfMode
BY DEF CallOfMode, Collecting, Collected, ToIndex, ToCopy, ToData, ToErase, Moved

LEMMA StoreMove ==
  ASSUME IInv, StoreInv, Observe, CollectIndex \/ CopyHead \/ CopyData \/ EraseCopied
  PROVE  StoreInv' /\ Steps
<1>1. TypeInv /\ call.op = "collect" /\ call.phase \in {"index", "copy", "data", "erase"}
  <2>1. TypeInv /\ call.phase \in {"index", "copy", "data", "erase"} /\ (call.phase = "index" => call.op = "collect")
    BY DEF IInv, CollectIndex, CopyHead, CopyData, EraseCopied
  <2>2. call.op = "collect"
    BY <2>1, ModeCases DEF ToCopy, ToData, ToErase, Moved
  <2> QED
    BY <2>1, <2>2
<1>2. ~ Gone
  BY <1>1 DEF Gone, Indexing, Unready, NoCall, Initing
<1>3. PICK z : \E n \in Nat : Stands(z, n) /\ Keeps(z, n)
  BY <1>2 DEF StoreInv
<1>4. PICK n \in Nat : Stands(z, n) /\ Keeps(z, n)
  BY <1>3
<1>5. Collecting(n, z)
  BY <1>1, <1>4, StandsCases
<1>6. (call.phase = "index" => \E c \in Nat : ToIndex(c, n, z))
      /\ (call.phase = "copy" => \E c \in Nat, s \in Nat : ToCopy(c, s, n, z))
      /\ (call.phase = "data" => \E c \in Nat, s \in Nat : ToData(c, s, n, z))
      /\ (call.phase = "erase" => \E c \in Nat : ToErase(c, n, z))
  BY <1>5 DEF Collecting, ToIndex, ToCopy, ToData, ToErase
<1>7. (CallOfMode)'
  BY CallFact, PTL
<1>8. ASSUME Collecting(n, z)' PROVE StoreInv' /\ Steps
  <2>1. Stands(z, n)'
    BY <1>8 DEF Stands
  <2>2. call'.op = "collect" /\ call'.phase \in {"index", "copy", "data", "erase"}
    BY <1>7, <1>8 DEF CallOfMode
  <2>3. ~ Mounted'
    BY <2>2 DEF Mounted
  <2> QED
    BY <1>1, <1>4, <2>1, <2>2, <2>3, LeavesAlone
<1>9. ASSUME Collected(n)', \A q \in 1 .. Capacity : Zone(Sector(ex - 1))'[q] = z[q]
      PROVE  StoreInv' /\ Steps
  <2>1. PICK y : y = Zone(Sector(ex - 1))'
    OBVIOUS
  <2>2. call'.op = "collect" /\ call'.phase = "mount"
    BY <1>7, <1>9 DEF CallOfMode
  <2>3. ~ Mounted'
    BY <2>2 DEF Mounted
  <2>4. Sound(z, n)
    BY <1>6, <1>1 DEF ToIndex, ToCopy, ToData, ToErase, Moved, Moving
  <2>5. Keeps(y, n)
    BY <1>4, <1>9, <2>1, <2>4, HasSame DEF Keeps
  <2>6. Stands(y, n)'
    BY <1>9, <2>1 DEF Stands
  <2> QED
    BY <1>1, <2>2, <2>3, <2>5, <2>6, LeavesAlone
<1>10. CASE CollectIndex
  <2>1. PICK c \in Nat : ToIndex(c, n, z)
    BY <1>6, <1>10 DEF CollectIndex
  <2> QED
    BY <1>8, <1>10, <2>1, CollectsIndex
<1>11. CASE CopyHead
  <2>1. PICK c \in Nat, s \in Nat : ToCopy(c, s, n, z)
    BY <1>6, <1>11 DEF CopyHead
  <2> QED
    BY <1>8, <1>11, <2>1, CopiesHead
<1>12. CASE CopyData
  <2>1. PICK c \in Nat, s \in Nat : ToData(c, s, n, z)
    BY <1>6, <1>12 DEF CopyData
  <2> QED
    BY <1>8, <1>12, <2>1, CopiesData
<1>13. CASE EraseCopied
  <2>1. PICK c \in Nat : ToErase(c, n, z)
    BY <1>6, <1>13 DEF EraseCopied
  <2> QED
    BY <1>8, <1>9, <1>13, <2>1, Erases
<1> QED
  BY <1>10, <1>11, <1>12, <1>13

IndexingFound == call.phase = "index" /\ call.op # "collect" => Indexing
IdleFound == call = NoCall /\ ready => \E c \in 1 .. Capacity + 1 : Resting(c)
LEMMA ModeFacts == IInv => IndexingFound /\ IdleFound
<1> SUFFICES ASSUME IInv PROVE IndexingFound /\ IdleFound
  OBVIOUS
<1>1. call = NoCall => call.op = "none"
  BY DEF NoCall
<1> QED
  BY <1>1, ModeCases DEF IndexingFound, IdleFound, Idle

LEMMA StoreMount ==
  ASSUME IInv, IInv', StoreInv, Observe, MountForeign \/ MountNew \/ Mount
  PROVE  StoreInv' /\ Steps
<1>1. TypeInv /\ TypeInv' /\ TypeOK /\ call.phase = "mount"
  BY DEF IInv, TypeInv, MountForeign, MountNew, Mount
<1>2. Initing \/ Wiped \/ \E c \in Nat : Collected(c)
  BY <1>1, ModeCases
<1>3. call.op \notin {"write", "delete"} /\ call # NoCall
  BY <1>1, <1>2 DEF Initing, Wiped, Collected, NoCall
<1>4. CASE Gone
  <2>1. ~ready /\ (Blanked \/ Bad # {}) /\ (call.op = "format" \/ Fresh)
    BY <1>1, <1>2, <1>3, <1>4 DEF Gone, Indexing, Wiped, Initing, Collected, Unready
  <2>2. ~ Mount
    BY <2>1, BlankMounts DEF Mount
  <2>3. CASE MountForeign
    <3>1. call' = NoCall /\ ~ready' /\ Bad' # {}
      BY <2>1, <2>3, OldUnchanged DEF MountForeign, Return, ram
    <3>2. call.op # "format"
      BY <1>1, <1>2, <2>3, BlankMounts DEF MountForeign, Wiped, Initing, Collected
    <3>3. ~ Mounted' /\ call'.op \notin {"write", "delete"} /\ call'.phase \notin {"mark", "put"}
      BY <3>1 DEF Mounted, NoCall
    <3>4. Fresh'
      BY <2>1, <3>2, <3>3, Quiet
    <3>5. Gone'
      BY <3>1, <3>4 DEF Gone, Unready
    <3> QED
      BY <1>1, <1>3, <3>3, <3>5, LeavesAlone
  <2>4. CASE MountNew
    <3>1. call' = [call EXCEPT !.phase = "index"] /\ ~ready'
      BY <2>1, <2>4 DEF MountNew, ram
    <3>2. call'.op = call.op /\ call'.phase = "index"
      BY <1>1, <3>1 DEF TypeOK, Call
    <3>3. call.op # "collect"
      BY <1>1, <1>2, <2>1 DEF Initing, Wiped, Collected
    <3>4. Indexing'
      <4>1. (IInv => IndexingFound /\ IdleFound)'
        BY ModeFacts, PTL
      <4> QED
        BY <3>2, <3>3, <4>1 DEF IndexingFound
    <3>5. ~ Mounted' /\ call'.op \notin {"write", "delete"} /\ call'.phase \notin {"mark", "put"}
      BY <1>3, <3>1, <3>2 DEF Mounted
    <3>6. Gone'
      BY <2>1, <3>1, <3>2, <3>4, <3>5, Quiet DEF Gone
    <3> QED
      BY <1>1, <1>3, <3>5, <3>6, LeavesAlone
  <2> QED
    BY <2>2, <2>3, <2>4
<1>5. ASSUME NEW z, NEW n \in Nat, Stands(z, n), Keeps(z, n) PROVE StoreInv' /\ Steps
  <2>1. PICK e \in Sectors : Old(e, n) /\ z = Zone(e)
    <3>1. Sector(ex - 1) \in Sectors
      BY <1>1, SectorBefore DEF TypeOK
    <3> QED
      BY <1>1, <1>5, <3>1, StandsCases DEF Collected
  <2>2. Bad = {} /\ Indexed(Erased) # Sectors
    BY <2>1, RingMounts DEF Old
  <2>3. Mount
    BY <2>2 DEF MountForeign, MountNew
  <2>4. n \in 1 .. Capacity + 1
    BY <2>1 DEF Old, Sound
  <2>5. Idle' /\ Resting(n)' /\ ex' = e
    BY <1>1, <2>1, <2>3, <2>4, MountsOld
  <2>6. call' = NoCall /\ ready'
    BY <2>3, <2>5 DEF Mount, Return, Resting
  <2>7. Zone(ex)' = z
    <3>1. Zone(e)' = Zone(e)
      BY <2>3, OldUnchanged DEF Mount
    <3>2. Zone(ex)' = Zone(e)'
      BY <2>5 DEF Zone
    <3> QED
      BY <2>1, <3>1, <3>2
  <2>8. \A id \in Ids : Has(z, n, id, seen[id])
    BY <1>1, <1>5 DEF Keeps, Future
  <2>9. seen' = [id \in Ids |-> seen[id]] /\ intent' = Store!NoIntent /\ StoreInv'
    BY <1>1, <2>5, <2>6, <2>7, <2>8, Settles
  <2>10. seen' = seen /\ intent' = intent
    BY <1>3, <2>9 DEF StoreInv, Meant
  <2> QED
    BY <2>9, <2>10, Stutters
<1> QED
  BY <1>4, <1>5 DEF StoreInv

-----------------------------------------------------------------------------
(* The making of a zone.                                                   *)

LEMMA StoreWipe ==
  ASSUME IInv, StoreInv, Observe, Wipe
  PROVE  StoreInv' /\ Steps
<1>1. TypeInv /\ call.phase = "wipe" /\ call.op = "format" /\ ~ready /\ call \in Call
  BY ModeCases DEF Wipe, Wiping, IInv, TypeInv, TypeOK
<1>2. call'.op = "format" /\ call'.phase \in {"wipe", "mount"} /\ ~ready'
  BY <1>1 DEF Wipe, ram, Call
<1>3. Gone' /\ ~ Mounted'
  BY <1>2 DEF Gone, Mounted
<1> QED
  BY <1>1, <1>2, <1>3, LeavesAlone

LEMMA StorePutHead ==
  ASSUME IInv, IInv', StoreInv, Observe, PutHead
  PROVE  StoreInv' /\ Steps /\ (call.op = "format" /\ call'.op # "format" => Store!Format)
<1>1. /\ TypeInv' /\ call \in Call /\ call.phase = "index" /\ call.op \in {"init", "format"} /\ ~ready
      /\ \A a \in Addresses : item[a] = FreeItem
  BY ModeCases DEF PutHead, Indexing, IInv, TypeInv, TypeOK
<1>2. (IInv => IndexingFound /\ IdleFound)'
  BY ModeFacts, PTL
<1>0. call.op = "format" \/ Fresh
  <2> SUFFICES ASSUME call.op = "init" PROVE Fresh
    BY <1>1
  <2>1. CASE Gone
    BY <2>1 DEF Gone
  <2>2. ASSUME NEW z, NEW n, Stands(z, n) PROVE FALSE
    BY <1>1, <2>2, StandsCases DEF IInv
  <2> QED
    BY <2>1, <2>2 DEF StoreInv
<1>3. CASE call.k < SectorNum - 2
  <2>1. call'.op = call.op /\ call'.phase = "index" /\ ~ready'
    BY <1>1, <1>3 DEF PutHead, ram, Call
  <2>2. Indexing'
    BY <1>1, <1>2, <2>1 DEF IndexingFound
  <2>3. ~ Mounted' /\ call'.op \notin {"write", "delete"}
    BY <1>1, <2>1 DEF Mounted
  <2>4. Gone'
    BY <1>0, <1>1, <2>1, <2>2, <2>3, Quiet DEF Gone
  <2> QED
    BY <1>1, <2>1, <2>3, <2>4, LeavesAlone
<1>4. CASE ~ call.k < SectorNum - 2
  <2>1. call' = NoCall /\ ready' /\ item' = item
    BY <1>1, <1>4 DEF PutHead, Return, FlashWrite, PutIndex
  <2>2. \E c \in (1 .. Capacity + 1)' : Resting(c)'
    BY <1>2, <2>1 DEF IdleFound
  <2>3. PICK c \in Nat : Resting(c)'
    BY <2>2, CapacityIs DEF Capacity
  <2>4. PICK z : z = Zone(ex)'
    OBVIOUS
  <2>5. ex' \in Sectors
    BY <1>1 DEF TypeInv, TypeOK, Sectors
  <2>6. PICK e \in Sectors : e = ex'
    BY <2>5
  <2>7. \A p \in 1 .. c - 1 : z[p].pro # USED
    <3>1. c \in 1 .. Capacity + 1
      BY <2>3 DEF Resting, Old, Sound, Capacity
    <3> TAKE p \in 1 .. c - 1
    <3>2. p \in 1 .. Capacity /\ p \in Int /\ e \in Int
      BY <3>1, CapacityIs, SectorBefore
    <3>3. z[p] = item'[Place(e, p)]
      BY <2>4, <2>6, <3>2 DEF Zone, Place, Sector, Row, Column, Capacity
    <3>4. z[p] = FreeItem
      BY <1>1, <2>1, <3>2, <3>3, PlaceIn
    <3> QED
      BY <3>4 DEF FreeItem, UNUSED, USED
  <2> DEFINE v == [id \in Ids |-> Absent]
  <2>8. \A id \in Ids : Has(z, c, id, Absent)
    BY <2>7 DEF Has, Heads
  <2>9. PICK u : u = v
    OBVIOUS
  <2>10. \A id \in Ids : Has(z, c, id, u[id]) /\ u[id] = Absent
    BY <2>8, <2>9
  <2> HIDE DEF v
  <2>11. seen' = [id \in Ids |-> u[id]] /\ intent' = Store!NoIntent /\ StoreInv'
    BY <1>1, <2>1, <2>3, <2>4, <2>10, Settles
  <2>12. seen' = [id \in Ids |-> Absent]
    BY <2>10, <2>11
  <2>13. CASE call.op = "format"
    <3>1. Store!Format
      BY <2>1, <2>11, <2>12, <2>13 DEF Store!Format, NoCall
    <3> QED
      BY <2>11, <3>1 DEF Steps, Store!Next
  <2>14. CASE call.op # "format"
    <3>1. seen' = seen /\ intent' = intent
      BY <1>0, <2>11, <2>12, <2>14 DEF Fresh
    <3> QED
      BY <2>11, <2>14, <3>1, Stutters
  <2> QED
    BY <2>13, <2>14
<1> QED
  BY <1>3, <1>4

-----------------------------------------------------------------------------
(* The refinement.                                                         *)

LEMMA StoreInit == MCInit => StoreInv
<1> SUFFICES ASSUME MCInit PROVE StoreInv
  OBVIOUS
<1>1. Init /\ seen = [id \in Ids |-> Absent] /\ intent = Store!NoIntent
  BY DEF MCInit, Store!Init
<1>2. call = NoCall /\ call.op = "none" /\ ~ready /\ Fresh
  BY <1>1 DEF Init, NoCall, Fresh
<1>3. Meant /\ seen = [id \in Ids |-> seen[id]]
  BY <1>1, <1>2 DEF Meant
<1>4. Unready
  BY <1>2 DEF Unready
<1>5. Blanked \/ Bad # {}
  <2>1. PICK foreign \in {{}, {0}} : head = [s \in Sectors |-> IF s \in foreign THEN Foreign ELSE Erased]
    BY <1>1 DEF Init
  <2>2. CASE foreign = {}
    BY <1>1, <2>1, <2>2 DEF Init, Blanked
  <2>3. CASE foreign = {0}
    <3>1. 0 \in Sectors /\ head[0] = Foreign
      BY <2>1, <2>3, Sizes DEF Sectors
    <3> QED
      BY <3>1, Sizes DEF Bad, Foreign, Erased
  <2> QED
    BY <2>1, <2>2, <2>3
<1> QED
  BY <1>2, <1>3, <1>4, <1>5 DEF StoreInv, Gone

LEMMA StoreStutter ==
  ASSUME IInv, StoreInv, UNCHANGED <<vars, seen, intent>>
  PROVE  StoreInv' /\ Steps
<1>1. UNCHANGED vars /\ seen' = seen /\ intent' = intent /\ call' = call /\ ready' = ready /\ Capacity' = Capacity
  BY DEF vars, Capacity
<1>2. Content(call)' = Content(call)
  BY <1>1 DEF Content, Frames
<1>3. Meant' /\ (seen = [id \in Ids |-> seen[id]])'
  BY <1>1, <1>2 DEF StoreInv, Meant, Ids, Absent, Store!NoIntent
<1>4. Unready => Unready'
  BY <1>1, Stays DEF Unready
<1>5. Gone => Gone'
  <2>1. Fresh => Fresh'
    BY <1>1 DEF Fresh, Ids, Absent, Store!NoIntent
  <2> QED
    BY <1>1, <1>4, <2>1, Stays DEF Gone
<1>6. ASSUME NEW z, NEW n \in Nat, Stands(z, n), Keeps(z, n) PROVE Stands(z, n)' /\ Keeps(z, n)'
  <2>1. \A id \in Ids : Future(id)' = Future(id)
    BY <1>1, <1>2 DEF Future, Absent
  <2>2. Keeps(z, n)'
    BY <1>1, <1>6, <2>1, KeepsOn
  <2>3. CASE call = NoCall /\ Resting(n) /\ z = Zone(ex)
    BY <1>1, <2>2, <2>3, Stays DEF Stands
  <2>4. CASE Unready /\ \E e \in Sectors : Old(e, n) /\ z = Zone(e)
    BY <1>1, <1>4, <2>2, <2>4, Stays DEF Stands, Sectors
  <2>5. CASE \E m \in Nat : Marking(n, m) /\ z = Marked(Zone(ex), m, call.k)
    BY <1>1, <2>2, <2>5, Stays DEF Stands
  <2>6. CASE \E c \in Nat : /\ Putting(c) /\ z = Filled(Zone(ex), c, call.k)
                            /\ n = c + Frames(call.len) - call.k + 1
    <3>1. Frames(call.len)' = Frames(call.len)
      BY <1>1 DEF Frames
    <3>2. PICK c \in Nat : /\ Putting(c) /\ z = Filled(Zone(ex), c, call.k)
                           /\ n = c + Frames(call.len) - call.k + 1
      BY <2>6
    <3>3. Putting(c)' /\ z = Filled(Zone(ex), c, call.k)'
      BY <1>1, <3>2, Stays
    <3> QED
      BY <1>1, <2>2, <3>1, <3>2, <3>3 DEF Stands
  <2>7. CASE Collecting(n, z)
    BY <1>1, <2>2, <2>7, Stays DEF Stands
  <2>8. CASE Collected(n) /\ z = Zone(Sector(ex - 1))
    BY <1>1, <2>2, <2>8, Stays DEF Stands
  <2> QED
    BY <1>6, <2>3, <2>4, <2>5, <2>6, <2>7, <2>8 DEF Stands
<1>7. StoreInv'
  BY <1>3, <1>5, <1>6 DEF StoreInv
<1> QED
  BY <1>1, <1>7, Stutters

LEMMA StoreNext ==
  ASSUME Cuts = {}, Fails = {}, IInv, IInv', StoreInv, [MCNext]_<<vars, seen, intent>>
  PROVE  StoreInv' /\ Steps
<1>1. TypeInv'
  BY DEF IInv
<1>2. CASE UNCHANGED <<vars, seen, intent>>
  BY <1>2, StoreStutter
<1>3. CASE MCNext
  <2>1. Next /\ Observe
    BY <1>3 DEF MCNext
  <2>2. ~ WriteFails
    BY DEF WriteFails
  <2>3. CASE Refuse \/ HalInit \/ Format \/ Restart
    BY <1>1, <2>1, <2>3, StoreIdle
  <2>4. CASE (\E f \in Files : Write(f)) \/ (\E id \in Ids : Delete(id))
    BY <1>1, <2>1, <2>4, StoreWrite, StoreDelete
  <2>5. CASE Collect
    BY <2>1, <2>5, StoreCollect
  <2>6. CASE MarkFrame \/ PutFrame
    BY <1>1, <2>1, <2>6, StoreMark, StorePut
  <2>7. CASE Wipe \/ PutHead
    BY <2>1, <2>7, StoreWipe, StorePutHead
  <2>8. CASE MountForeign \/ MountNew \/ Mount
    BY <2>1, <2>8, StoreMount
  <2>9. CASE CollectIndex \/ CopyHead \/ CopyData \/ EraseCopied
    BY <2>1, <2>9, StoreMove
  <2> QED
    BY <2>1, <2>2, <2>3, <2>4, <2>5, <2>6, <2>7, <2>8, <2>9 DEF Next
<1> QED
  BY <1>2, <1>3

(* A format that is not cut short ends with the last head of a new zone.   *)
LEMMA FormatPuts ==
  ASSUME Next, call \in Call, call.op = "format", call'.op # "format",
         call.phase \in {"wipe", "mount", "index"}, call.phase = "mount" => Blanked,
         "format" \notin Cuts, "format" \notin Fails
  PROVE  PutHead
<1>1. ~ (Refuse \/ HalInit \/ Format \/ Collect \/ Restart \/ WriteFails)
  BY DEF Refuse, HalInit, Format, Collect, Restart, WriteFails, Calling
<1>2. ~ ((\E f \in Files : Write(f)) \/ (\E id \in Ids : Delete(id)))
  BY DEF Write, Delete, Calling
<1>3. ~ (MarkFrame \/ PutFrame \/ CollectIndex \/ CopyHead \/ CopyData \/ EraseCopied)
  BY DEF MarkFrame, PutFrame, CollectIndex, CopyHead, CopyData, EraseCopied
<1>4. ~ Wipe
  BY DEF Wipe, Call
<1>5. ~ (MountForeign \/ Mount)
  BY BlankMounts DEF MountForeign, Mount
<1>6. ~ MountNew
  BY DEF MountNew, Call
<1> QED
  BY <1>1, <1>2, <1>3, <1>4, <1>5, <1>6 DEF Next

(* A format that begins leaves the files alone.                            *)
LEMMA FormatMoves ==
  ASSUME Observe, call.op = "format" /\ call'.op # "format" => Store!Format
  PROVE  (call.op = "format")' = (call.op = "format") \/ Store!Next
<1>1. CASE call.op # "format" /\ call'.op = "format"
  <2>1. seen' = seen /\ intent' = intent
    BY <1>1, Quiet DEF Mounted
  <2>2. Store!StartFormat
    BY <1>1, <2>1 DEF Store!StartFormat
  <2> QED
    BY <2>2 DEF Store!Next
<1>2. CASE call.op = "format" /\ call'.op # "format"
  BY <1>2 DEF Store!Next
<1>3. CASE (call.op = "format") <=> (call'.op = "format")
  BY <1>3
<1> QED
  BY <1>1, <1>2, <1>3

LEMMA FormatEnds ==
  ASSUME Cuts = {}, Fails = {}, IInv, IInv', StoreInv, MCNext, call.op = "format", call'.op # "format"
  PROVE  Store!Format
<1>1. Next /\ Observe
  BY DEF MCNext
<1>2. call \in Call /\ call.phase \in {"wipe", "mount", "index"} /\ (call.phase = "mount" => Wiped)
  <2>1. TypeInv /\ call # NoCall
    BY DEF IInv, NoCall
  <2>2. call.op = "format" => Wiping \/ Wiped \/ Indexing
    BY <2>1 DEF IInv, Modes, Idle, Initing, Marking, Putting, Collecting, ToIndex, ToErase, ToCopy, ToData,
                Moved, Collected, TypeInv, CallInv
  <2> QED
    BY <2>1, <2>2 DEF Wiping, Wiped, Indexing, TypeInv, TypeOK
<1>3. PutHead
  BY <1>1, <1>2, FormatPuts DEF Wiped
<1> QED
  BY <1>1, <1>3, StorePutHead

(* When the supply does not fail during a call and the flash does not fail *)
(* it, the file system is the store: hal_fs_item_write replaces one file,  *)
(* hal_fs_item_del removes one, the end of hal_fs_format all, and neither  *)
(* another call, nor a collection, nor a restart changes what an id reads  *)
(* as: no other step may lose a file.                                      *)
THEOREM ImplementsStore == Cuts = {} /\ Fails = {} => (MCSpec => StoreSpec)
<1> SUFFICES ASSUME Cuts = {} /\ Fails = {} PROVE MCSpec => StoreSpec
  OBVIOUS
<1>1. MCInit => IInv /\ StoreInv /\ Store!Init
  BY IInvInit, StoreInit DEF MCInit
<1>2. IInv /\ StoreInv /\ [MCNext]_<<vars, seen, intent>>
        => IInv' /\ StoreInv' /\ [Store!Next]_(Store!storeVars)
  <2> SUFFICES ASSUME IInv, StoreInv, [MCNext]_<<vars, seen, intent>>
               PROVE  IInv' /\ StoreInv' /\ [Store!Next]_(Store!storeVars)
    OBVIOUS
  <2>1. [Next]_vars
    BY DEF MCNext
  <2>2. IInv'
    BY <2>1, IInvStep
  <2>3. StoreInv' /\ Steps
    BY <2>2, StoreNext
  <2>4. (call.op = "format")' = (call.op = "format") \/ Store!Next
    <3>1. CASE MCNext
      BY <2>2, <3>1, FormatEnds, FormatMoves DEF MCNext
    <3>2. CASE UNCHANGED <<vars, seen, intent>>
      <4>1. call' = call
        BY <3>2 DEF vars
      <4> QED
        BY <4>1
    <3> QED
      BY <3>1, <3>2
  <2> QED
    BY <2>2, <2>3, <2>4 DEF Steps, Store!storeVars
<1> QED
  BY <1>1, <1>2, PTL DEF MCSpec, StoreSpec, Store!Spec

-----------------------------------------------------------------------------
(* The same when the supply may fail in fs_init, in a write or in a        *)
(* deletion, and the flash in fs_init or a deletion.  Then a file may be   *)
(* marked or put in part, and a sector may be without its index.           *)

(* No collection, no cut of a format and no failure of a write, for the    *)
(* runs fs_collect_after_cut, fs_format_cut and fs_write_retry show what   *)
(* they do; and no file so long that the search may read its frames.       *)
Survivable ==
  /\ "collect" \notin Ops /\ Cuts \subseteq {"init", "write", "delete"} /\ Fails \subseteq {"init", "delete"}
  /\ \A f \in Files : Frames(f.len) < Items

(* A first frame; the item behind a file; the zone z whose files begin at  *)
(* the items of H, one behind the other, the last of them before c.        *)
Opens(i1) ==
  /\ i1.pro \in {USED, DELETED} /\ i1.len > 0 /\ Frames(i1.len) < Items
  /\ i1.frame = IF Frames(i1.len) = 1 THEN SF ELSE MF_F

Behind(z, h) == h + Frames(z[h].len)

Laid(z, c, H) ==
  /\ c \in 1 .. Capacity + 1 /\ H \subseteq 1 .. c - 1 /\ 1 \in H \cup {c}
  /\ \A p \in 1 .. Capacity : z[p] \in Item /\ (p >= c => z[p] = FreeItem)
  /\ \A h \in H : Opens(z[h]) /\ Behind(z, h) \in H \cup {c}
  /\ \A h \in H \cup {c} : h = 1 \/ \E g \in H : h = Behind(z, g)
  /\ \A g, h \in H : g < h => Behind(z, g) <= h

(* The files of an id.                                                     *)
UsedBy(z, H, id) == {h \in H : z[h].pro = USED /\ z[h].id = id}
Holds(z, H, id, x) ==
  \/ UsedBy(z, H, id) = {} /\ x = Absent
  \/ \E p : UsedBy(z, H, id) = {p} /\ x = FileAt(z, p)

(* What an id may read as after a cut.                                     *)
Possible(id, x) ==
  \/ x = seen[id]
  \/ /\ intent # Store!NoIntent /\ id = intent.id
     /\ \/ x = Absent
        \/ intent.new # Absent /\ \E k \in DOMAIN intent.new.data : x = Store!Beginning(intent.new, k)

(* The exchange sector is the last one.                                    *)
Spare == SectorNum - 1
Indexes == head[Spare] = Erased /\ head[0] = 0 /\ \A s \in Sectors : head[s] \in {s, Erased}

Sited(z, c, H) ==
  /\ z = Zone(Spare) /\ Indexes /\ Laid(z, c, H)
  /\ \A id \in Ids : \E x : Holds(z, H, id, x) /\ Possible(id, x)

(* The modes of the calls.                                                 *)
Intended ==
  /\ call.id \in Ids
  /\ intent = [id |-> call.id, new |-> IF call.op = "write" THEN Content(call) ELSE Absent]

Unmounted ==
  /\ ~ready /\ (call = NoCall \/ (call.op = "init" /\ call.phase = "mount" /\ call.k = 0))
  /\ (Fresh /\ (Blanked \/ Bad # {})) \/ \E z, c, H : Sited(z, c, H)
Formatting == call.op = "format" /\ (Wiping \/ Wiped \/ Indexing)
Numbering == call.op = "init" /\ Indexing /\ Fresh
Served(z, c, H) == ready /\ ex = Spare /\ Sited(z, c, H)
Serving == call = NoCall /\ intent = Store!NoIntent /\ \E z, c, H : Served(z, c, H) /\ free = Spot(Spare, c)
Striking(z, c, H, m, j) ==
  /\ call.phase = "mark" /\ Intended /\ Served(z, c, H) /\ free = Spot(Spare, c)
  /\ m \in H /\ z[m].id = call.id /\ j \in 0 .. Frames(z[m].len) - 1
  /\ call.k = Frames(z[m].len) - j /\ call.at = Place(Spare, m + j)
  /\ IF j = 0 THEN z[m].pro = USED ELSE UsedBy(z, H, call.id) = {}
  /\ call.op = "write" => c + Frames(call.len) <= Capacity + 1
Adding(z, c, H) ==
  /\ call.phase = "put" /\ Intended /\ Served(z, c, H)
  /\ \/ /\ call.k = 1 /\ UsedBy(z, H, call.id) = {} /\ free = Spot(Spare, c)
        /\ c + Frames(call.len) <= Capacity + 1
     \/ \E d \in H : /\ call.k > 1 /\ c = d + Frames(call.len) /\ free = Spot(Spare, d + call.k - 1)
                     /\ \A i \in 1 .. call.k - 1 : z[d + i - 1] = Frame(i)
                     /\ \A i \in call.k .. Frames(call.len) : z[d + i - 1] = FreeItem

CutModes ==
  \/ Unmounted \/ Formatting \/ Numbering \/ Serving
  \/ (\E z, c, H, m, j : Striking(z, c, H, m, j)) \/ (\E z, c, H : Adding(z, c, H))

CutInv ==
  /\ TypeInv /\ seen = [id \in Ids |-> seen[id]] /\ (intent = Store!NoIntent \/ intent.id \in Ids)
  /\ CutModes


-----------------------------------------------------------------------------
(* The search in such a zone.                                              *)

LEMMA LaidFacts ==
  ASSUME NEW z, NEW c, NEW H, Laid(z, c, H), NEW h \in H
  PROVE  /\ h \in Nat /\ h >= 1 /\ h < c /\ h \in 1 .. Capacity /\ c \in Nat /\ c <= Capacity + 1 /\ Capacity \in Nat
         /\ z[h] \in Item /\ z[h].len \in Nat /\ z[h].len > 0 /\ z[h].pro \in {USED, DELETED}
         /\ Frames(z[h].len) \in Nat /\ Frames(z[h].len) >= 1 /\ Frames(z[h].len) < Items
         /\ h + Frames(z[h].len) <= c /\ Behind(z, h) = h + Frames(z[h].len)
         /\ \A k \in 1 .. Frames(z[h].len) : h + k - 1 \in 1 .. c - 1 /\ h + k - 1 \in 1 .. Capacity
<1>1. Capacity \in Nat /\ c \in 1 .. Capacity + 1 /\ H \subseteq 1 .. c - 1
  BY CapacityIs DEF Laid
<1>2. h \in Nat /\ h >= 1 /\ h < c /\ h \in 1 .. Capacity /\ c \in Nat /\ c <= Capacity + 1
  BY <1>1
<1>3. z[h] \in Item /\ Opens(z[h]) /\ Behind(z, h) \in H \cup {c}
  BY <1>2 DEF Laid
<1>4. PICK n : n = Frames(z[h].len)
  OBVIOUS
<1>5. z[h].len \in Nat /\ z[h].len > 0 /\ z[h].pro \in {USED, DELETED} /\ n < Items
  BY <1>3, <1>4, Fields DEF Opens
<1>6. n \in Nat /\ n >= 1
  BY <1>4, <1>5, FramesOf
<1>7. h + n <= c /\ Behind(z, h) = h + n
  <2>1. Behind(z, h) = h + n
    BY <1>4 DEF Behind
  <2>2. h + n \in H \cup {c}
    BY <1>3, <2>1
  <2> QED
    BY <1>1, <1>2, <1>6, <2>1, <2>2
<1>8. \A k \in 1 .. n : h + k - 1 \in 1 .. c - 1 /\ h + k - 1 \in 1 .. Capacity
  BY <1>1, <1>2, <1>6, <1>7
<1> QED
  BY <1>1, <1>2, <1>3, <1>4, <1>5, <1>6, <1>7, <1>8

(* From a file the search goes to the item behind it.                      *)
LEMMA SkipLaid ==
  ASSUME Zoned, NEW c, NEW H, Laid(Zone(ex), c, H), NEW h \in H
  PROVE  Skip(h) = Behind(Zone(ex), h)
<1> DEFINE z == Zone(ex)
           i1 == item[Addr(h)]
           frames == IF i1.frame = MF_F /\ i1.len > 0 THEN Frames(i1.len) ELSE 1
           room == Items - ((h - 1) % Items)
           over == IF room = 1 THEN frames ELSE frames - room
<1>1. /\ h \in Nat /\ h >= 1 /\ h \in 1 .. Capacity /\ z[h].len > 0
      /\ Frames(z[h].len) \in Nat /\ Frames(z[h].len) >= 1 /\ Frames(z[h].len) < Items
      /\ Behind(z, h) = h + Frames(z[h].len)
  BY LaidFacts
<1>2. i1 = z[h]
  BY <1>1, ZoneItem
<1>3. frames = Frames(z[h].len)
  <2>1. z[h].frame = IF Frames(z[h].len) = 1 THEN SF ELSE MF_F
    BY DEF Laid, Opens
  <2> HIDE DEF z
  <2>2. SF # MF_F
    BY DEF SF, MF_F
  <2> QED
    BY <1>1, <1>2, <2>1, <2>2
<1>4. room \in Int /\ room >= 1
  <2>1. Items \in Nat \ {0} /\ h - 1 \in Int
    BY <1>1, Sizes
  <2>2. (h - 1) % Items \in 0 .. Items - 1
    BY <2>1, ModDiv
  <2> QED
    BY <2>1, <2>2
<1>5. Skip(h) = IF frames < room \/ over < Items THEN h + frames
                ELSE IF frames > Items THEN h + frames - Items ELSE h + 1
  BY DEF Skip
<1> HIDE DEF z, i1, frames, room
<1>6. over < Items
  BY <1>1, <1>3, <1>4, Sizes
<1> HIDE DEF over
<1> QED
  BY <1>1, <1>3, <1>5, <1>6 DEF z

(* It reads the first frame of every file, and the end.                    *)
LEMMA SearchLaid ==
  ASSUME Zoned, NEW c, NEW H, Laid(Zone(ex), c, H)
  PROVE  \A p : p \in Visited <=> p \in H \/ (p = c /\ c <= Capacity)
<1> DEFINE z == Zone(ex)
<1>0. c \in 1 .. Capacity + 1 /\ Capacity \in Nat /\ c \in Nat /\ H \subseteq 1 .. c - 1
  BY CapacityIs DEF Laid
<1>1. \A h \in H : /\ h \in Nat /\ h <= Capacity /\ h < c /\ Skip(h) = Behind(z, h) /\ Behind(z, h) > h
                   /\ item[Addr(h)].pro # UNUSED
  <2> TAKE h \in H
  <2>1. /\ h \in Nat /\ h < c /\ h \in 1 .. Capacity /\ z[h].pro \in {USED, DELETED}
        /\ Frames(z[h].len) \in Nat /\ Frames(z[h].len) >= 1 /\ Behind(z, h) = h + Frames(z[h].len)
    BY LaidFacts
  <2>2. item[Addr(h)] = z[h]
    BY <2>1, ZoneItem
  <2>3. Skip(h) = Behind(z, h)
    BY SkipLaid
  <2> HIDE DEF z
  <2> QED
    BY <1>0, <2>1, <2>2, <2>3 DEF USED, DELETED, UNUSED
<1>2. c <= Capacity => item[Addr(c)].pro = UNUSED
  <2> SUFFICES ASSUME c <= Capacity PROVE item[Addr(c)].pro = UNUSED
    OBVIOUS
  <2>1. c \in 1 .. Capacity /\ c >= c
    BY <1>0
  <2>2. z[c] = FreeItem
    BY <2>1 DEF Laid
  <2> QED
    BY <2>1, <2>2, ZoneItem DEF FreeItem
<1>3. /\ \A h \in H : Behind(z, h) \in H \cup {c}
      /\ \A h \in H \cup {c} : h = 1 \/ \E g \in H : h = Behind(z, g)
      /\ 1 \in H \cup {c}
  BY DEF Laid
<1> HIDE DEF z
<1>4. Visited \subseteq H \cup {c}
  <2>1. \A p \in (H \cup {c}) \cap Nat : p <= Capacity /\ item[Addr(p)].pro # UNUSED => Skip(p) \in H \cup {c}
    BY <1>1, <1>2, <1>3
  <2> QED
    BY <1>3, <2>1, VisitedLeast
<1>5. Visited \subseteq 1 .. Capacity /\ 1 \in Visited
  BY VisitedRange
<1>6. \A h \in H \cup {c} : h <= Capacity => h \in Visited
  <2> DEFINE T == {x \in H \cup {c} : x <= Capacity /\ x \notin Visited}
  <2> SUFFICES ASSUME T # {} PROVE FALSE
    OBVIOUS
  <2>1. T \in SUBSET Nat
    BY <1>0, <1>1
  <2>2. PICK y \in T : \A x \in T : y <= x
    <3> HIDE DEF T
    <3> QED
      BY <2>1, Least
  <2>3. y # 1
    BY <1>5
  <2>4. PICK g \in H : y = Behind(z, g)
    BY <1>3, <2>3
  <2>5. g < y /\ g \in Nat /\ y \in Nat /\ Skip(g) = y
    BY <1>1, <2>1, <2>4
  <2>6. g \in Visited
    <3>1. ~ y <= g
      BY <2>5
    <3>2. g \notin T
      BY <2>2, <3>1
    <3> QED
      BY <1>1, <3>2
  <2>7. y \in Visited
    BY <1>1, <2>2, <2>5, <2>6, VisitedClosed
  <2> QED
    BY <2>7
<1>7. ASSUME NEW p PROVE p \in Visited <=> p \in H \/ (p = c /\ c <= Capacity)
  <2>1. ASSUME p \in Visited PROVE p \in H \/ (p = c /\ c <= Capacity)
    <3>1. p \in 1 .. Capacity /\ p \in H \cup {c}
      BY <1>4, <1>5, <2>1
    <3> QED
      BY <1>0, <3>1
  <2>2. ASSUME p \in H \/ (p = c /\ c <= Capacity) PROVE p \in Visited
    BY <1>1, <1>6, <2>2
  <2> QED
    BY <2>1, <2>2
<1> QED
  BY <1>7

LEMMA FrontierLaid ==
  ASSUME Zoned, NEW c, NEW H, Laid(Zone(ex), c, H)
  PROVE  Frontier = Spot(ex, c)
<1>0. c \in 1 .. Capacity + 1 /\ Capacity \in Nat /\ c \in Nat
  BY CapacityIs DEF Laid
<1>1. \A p : p \in Visited <=> p \in H \/ (p = c /\ c <= Capacity)
  BY SearchLaid
<1>2. \A h \in H : item[Addr(h)].pro # UNUSED
  <2> TAKE h \in H
  <2>1. h \in 1 .. Capacity /\ Zone(ex)[h].pro \in {USED, DELETED}
    BY LaidFacts
  <2> QED
    BY <2>1, ZoneItem DEF USED, DELETED, UNUSED
<1>3. CASE c <= Capacity
  <2>1. c \in 1 .. Capacity /\ c >= c
    BY <1>0, <1>3
  <2>2. Zone(ex)[c] = FreeItem
    BY <2>1 DEF Laid
  <2>3. item[Addr(c)].pro = UNUSED /\ Addr(c) = Place(ex, c)
    BY <2>1, <2>2, ZoneItem DEF FreeItem
  <2>4. FreeItems = {c}
    BY <1>1, <1>2, <1>3, <2>3 DEF FreeItems
  <2>5. Frontier = Addr(CHOOSE p \in {c} : TRUE)
    BY <2>4 DEF Frontier
  <2>6. (CHOOSE p \in {c} : TRUE) = c
    OBVIOUS
  <2> QED
    BY <1>3, <2>3, <2>5, <2>6 DEF Spot
<1>4. CASE ~ c <= Capacity
  <2>1. FreeItems = {}
    BY <1>1, <1>2, <1>4 DEF FreeItems
  <2> QED
    BY <1>4, <2>1 DEF Frontier, Spot
<1> QED
  BY <1>3, <1>4

LEMMA LocatedLaid ==
  ASSUME Zoned, NEW c, NEW H, Laid(Zone(ex), c, H), NEW id
  PROVE  /\ UsedBy(Zone(ex), H, id) = {} => Located(id) = {}
         /\ \A p : UsedBy(Zone(ex), H, id) = {p} => Located(id) = {p}
<1> DEFINE hits == {p \in Visited : item[Addr(p)].pro = USED /\ item[Addr(p)].id = id}
<1>0. c \in 1 .. Capacity + 1 /\ Capacity \in Nat /\ c \in Nat
  BY CapacityIs DEF Laid
<1>1. \A p : p \in Visited <=> p \in H \/ (p = c /\ c <= Capacity)
  BY SearchLaid
<1>2. \A h \in H : item[Addr(h)] = Zone(ex)[h] /\ h \in Nat
  <2> TAKE h \in H
  <2>1. h \in 1 .. Capacity /\ h \in Nat
    BY LaidFacts
  <2> QED
    BY <2>1, ZoneItem
<1>3. c <= Capacity => item[Addr(c)].pro # USED
  <2> SUFFICES ASSUME c <= Capacity PROVE item[Addr(c)].pro # USED
    OBVIOUS
  <2>1. c \in 1 .. Capacity /\ c >= c
    BY <1>0
  <2>2. Zone(ex)[c] = FreeItem
    BY <2>1 DEF Laid
  <2> QED
    BY <2>1, <2>2, ZoneItem DEF FreeItem, USED, UNUSED
<1>4. hits = UsedBy(Zone(ex), H, id)
  BY <1>1, <1>2, <1>3 DEF UsedBy
<1>5. Located(id) = {p \in hits : \A q \in hits : p <= q}
  BY DEF Located
<1>6. \A p \in hits : p <= p
  BY <1>2, <1>4 DEF UsedBy
<1> HIDE DEF hits
<1> QED
  BY <1>4, <1>5, <1>6

LEMMA ReadsLaid ==
  ASSUME Zoned, NEW c, NEW H, Laid(Zone(ex), c, H), NEW id, NEW x, Holds(Zone(ex), H, id, x)
  PROVE  ReadBack(id) = x
<1>1. CASE UsedBy(Zone(ex), H, id) = {} /\ x = Absent
  BY <1>1, LocatedLaid DEF ReadBack
<1>2. ASSUME NEW p, UsedBy(Zone(ex), H, id) = {p}, x = FileAt(Zone(ex), p) PROVE ReadBack(id) = x
  <2>1. Located(id) = {p}
    BY <1>2, LocatedLaid
  <2>2. p \in H
    BY <1>2 DEF UsedBy
  <2>3. p \in 1 .. Capacity /\ \A k \in 1 .. Frames(Zone(ex)[p].len) : p + k - 1 \in 1 .. Capacity
    BY <2>2, LaidFacts
  <2>4. item[Addr(p)] = Zone(ex)[p]
    BY <2>3, ZoneItem
  <2>5. \A k \in 1 .. Frames(Zone(ex)[p].len) : item[Addr(p + k - 1)].data = Zone(ex)[p + k - 1].data
    BY <2>3, ZoneItem
  <2>6. (CHOOSE q \in {p} : TRUE) = p
    OBVIOUS
  <2>7. ReadBack(id) = LET q == CHOOSE r \in {p} : TRUE
                           len == item[Addr(q)].len
                       IN  [len |-> len, data |-> [k \in 1 .. Frames(len) |-> item[Addr(q + k - 1)].data]]
    BY <2>1 DEF ReadBack
  <2>8. ReadBack(id) = [len |-> item[Addr(p)].len,
                        data |-> [k \in 1 .. Frames(item[Addr(p)].len) |-> item[Addr(p + k - 1)].data]]
    BY <2>6, <2>7
  <2> QED
    BY <1>2, <2>4, <2>5, <2>8 DEF FileAt
<1> QED
  BY <1>1, <1>2 DEF Holds


-----------------------------------------------------------------------------
(* What a frame that is marked, or put, makes of the zone.                 *)

(* Two files have no item in common.                                       *)
LEMMA FilesApart ==
  ASSUME NEW z, NEW c, NEW H, Laid(z, c, H), NEW g \in H, NEW h \in H, g # h,
         NEW i \in 1 .. Frames(z[g].len), NEW k \in 1 .. Frames(z[h].len)
  PROVE  g + i - 1 # h + k - 1
<1>1. /\ g \in Nat /\ Frames(z[g].len) \in Nat /\ Behind(z, g) = g + Frames(z[g].len)
      /\ h \in Nat /\ Frames(z[h].len) \in Nat /\ Behind(z, h) = h + Frames(z[h].len)
  BY LaidFacts
<1>2. (g < h => Behind(z, g) <= h) /\ (h < g => Behind(z, h) <= g)
  BY DEF Laid
<1> QED
  BY <1>1, <1>2

LEMMA HeadsApart ==
  ASSUME NEW z, NEW c, NEW H, Laid(z, c, H), NEW h \in H, NEW d \in H,
         NEW k \in 1 .. Frames(z[d].len), h = d + k - 1
  PROVE  k = 1 /\ h = d
<1>1. /\ h \in Nat /\ d \in Nat /\ Frames(z[h].len) \in Nat /\ Frames(z[h].len) >= 1 /\ Frames(z[d].len) \in Nat
  BY LaidFacts
<1>2. 1 \in 1 .. Frames(z[h].len) /\ h + 1 - 1 = h
  BY <1>1
<1>3. h = d
  BY <1>2, FilesApart
<1> QED
  BY <1>1, <1>3

(* Items that are written behind first frames leave the files in place.    *)
LEMMA LaidOn ==
  ASSUME NEW z, NEW c, NEW H, Laid(z, c, H), NEW y,
         \A p \in 1 .. Capacity : y[p] \in Item /\ (p >= c => y[p] = FreeItem),
         \A h \in H : y[h].len = z[h].len /\ y[h].frame = z[h].frame /\ y[h].pro \in {USED, DELETED}
  PROVE  Laid(y, c, H)
<1>1. \A h \in H : Behind(y, h) = Behind(z, h)
  BY DEF Behind
<1>2. \A h \in H : Opens(y[h])
  <2> TAKE h \in H
  <2>1. Opens(z[h])
    BY DEF Laid
  <2> QED
    BY <2>1 DEF Opens
<1>3. /\ c \in 1 .. Capacity + 1 /\ H \subseteq 1 .. c - 1 /\ 1 \in H \cup {c}
      /\ \A h \in H : Behind(z, h) \in H \cup {c}
      /\ \A h \in H \cup {c} : h = 1 \/ \E g \in H : h = Behind(z, g)
      /\ \A g, h \in H : g < h => Behind(z, g) <= h
  BY DEF Laid
<1>4. /\ \A h \in H : Behind(y, h) \in H \cup {c}
      /\ \A h \in H \cup {c} : h = 1 \/ \E g \in H : h = Behind(y, g)
      /\ \A g, h \in H : g < h => Behind(y, g) <= h
  BY <1>1, <1>3
<1> QED
  BY <1>2, <1>3, <1>4 DEF Laid

(* A frame is marked: when it is the first, the file is gone.              *)
Struck(z, y, q) == \A p \in 1 .. Capacity : y[p] = IF p = q THEN [z[p] EXCEPT !.pro = DELETED] ELSE z[p]
LEMMA StruckLaid ==
  ASSUME NEW z, NEW c, NEW H, Laid(z, c, H), NEW m \in H, NEW j \in 0 .. Frames(z[m].len) - 1, NEW y,
         Struck(z, y, m + j)
  PROVE  /\ Laid(y, c, H) /\ \A h \in H : FileAt(y, h) = FileAt(z, h) /\ y[h].id = z[h].id
         /\ \A id : UsedBy(y, H, id) = IF j = 0 THEN UsedBy(z, H, id) \ {m} ELSE UsedBy(z, H, id)
<1>1. /\ m \in Nat /\ Frames(z[m].len) \in Nat /\ c \in Nat /\ Capacity \in Nat
      /\ \A k \in 1 .. Frames(z[m].len) : m + k - 1 \in 1 .. c - 1 /\ m + k - 1 \in 1 .. Capacity
  BY LaidFacts
<1>2. j \in Nat /\ j + 1 \in 1 .. Frames(z[m].len) /\ m + j = m + (j + 1) - 1
  BY <1>1
<1>3. m + j < c /\ m + j \in 1 .. Capacity
  <2>1. m + j \in 1 .. c - 1 /\ m + j \in 1 .. Capacity
    BY <1>1, <1>2
  <2> QED
    BY <1>1, <2>1
<1>4. \A p \in 1 .. Capacity : z[p] \in Item /\ (p >= c => z[p] = FreeItem)
  BY DEF Laid
<1>5. \A i1 \in Item : LET i2 == [i1 EXCEPT !.pro = DELETED]
                       IN  /\ i2 \in Item /\ i2.pro = DELETED /\ i2.frame = i1.frame /\ i2.id = i1.id
                           /\ i2.len = i1.len /\ i2.data = i1.data
  BY DEF Item, DELETED
<1>p. PICK q : q = m + j
  OBVIOUS
<1>y. \A p \in 1 .. Capacity : (p = q => y[p] = [z[p] EXCEPT !.pro = DELETED]) /\ (p # q => y[p] = z[p])
  BY <1>p DEF Struck
<1>6. \A p \in 1 .. Capacity : /\ y[p] \in Item /\ y[p].frame = z[p].frame /\ y[p].id = z[p].id
                               /\ y[p].len = z[p].len /\ y[p].data = z[p].data
                               /\ y[p].pro = IF p = m + j THEN DELETED ELSE z[p].pro
  <2> TAKE p \in 1 .. Capacity
  <2>1. z[p] \in Item
    BY <1>4
  <2>2. CASE p = q
    <3>1. y[p] = [z[p] EXCEPT !.pro = DELETED]
      BY <1>y, <2>2
    <3> QED
      BY <1>5, <1>p, <2>1, <2>2, <3>1
  <2>3. CASE p # q
    <3>1. y[p] = z[p]
      BY <1>y, <2>3
    <3> QED
      BY <1>p, <2>1, <2>3, <3>1
  <2> QED
    BY <2>2, <2>3
<1>7. \A p \in 1 .. Capacity : p >= c => y[p] = FreeItem
  <2> SUFFICES ASSUME NEW p \in 1 .. Capacity, p >= c PROVE y[p] = FreeItem
    OBVIOUS
  <2>1. p # q
    BY <1>1, <1>3, <1>p
  <2> QED
    BY <1>4, <1>y, <2>1
<1>8. \A h \in H : /\ h \in 1 .. Capacity /\ z[h].pro \in {USED, DELETED} /\ (h = m + j => j = 0 /\ h = m)
                   /\ \A k \in 1 .. Frames(z[h].len) : h + k - 1 \in 1 .. Capacity
  <2> TAKE h \in H
  <2>1. h \in 1 .. Capacity /\ z[h].pro \in {USED, DELETED}
        /\ \A k \in 1 .. Frames(z[h].len) : h + k - 1 \in 1 .. Capacity
    BY LaidFacts
  <2>2. ASSUME h = m + j PROVE j = 0 /\ h = m
    <3>1. j + 1 = 1 /\ h = m
      BY <1>2, <2>2, HeadsApart
    <3> QED
      BY <1>2, <3>1
  <2> QED
    BY <2>1, <2>2
<1>9. Laid(y, c, H)
  BY <1>6, <1>7, <1>8, LaidOn
<1>10. ASSUME NEW h \in H PROVE FileAt(y, h) = FileAt(z, h) /\ y[h].id = z[h].id
  <2>1. \A k \in 1 .. Frames(z[h].len) : y[h + k - 1].data = z[h + k - 1].data
    BY <1>6, <1>8
  <2>2. y[h].len = z[h].len /\ y[h].id = z[h].id
    BY <1>6, <1>8
  <2> QED
    BY <2>1, <2>2 DEF FileAt
<1>11. ASSUME NEW id PROVE UsedBy(y, H, id) = IF j = 0 THEN UsedBy(z, H, id) \ {m} ELSE UsedBy(z, H, id)
  <2>1. \A h \in H : /\ y[h].id = z[h].id
                     /\ y[h].pro = USED <=> z[h].pro = USED /\ ~ (j = 0 /\ h = m)
    <3> TAKE h \in H
    <3>1. y[h].id = z[h].id /\ y[h].pro = IF h = m + j THEN DELETED ELSE z[h].pro
      BY <1>6, <1>8
    <3>2. j = 0 => m + j = m
      BY <1>1
    <3> QED
      BY <1>8, <3>1, <3>2 DEF USED, DELETED
  <2> QED
    BY <2>1 DEF UsedBy
<1> QED
  BY <1>9, <1>10, <1>11

(* The first k frames of a file that is put.                               *)
LEMMA BeginningAt ==
  ASSUME TypeInv, FileCalled, NEW y, NEW d \in Nat, NEW k \in 1 .. Frames(call.len),
         \A i \in 1 .. k : y[d + i - 1] = Frame(i),
         \A i \in k + 1 .. Frames(call.len) : y[d + i - 1] = FreeItem
  PROVE  FileAt(y, d) = Store!Beginning(Content(call), k)
<1>1. PICK n \in Nat : n = Frames(call.len) /\ k \in 1 .. n
  <2>1. call.len \in Nat
    BY DEF TypeInv, TypeOK, Call
  <2> QED
    BY <2>1, FramesOf
<1>2. y[d].len = call.len
  <2>1. d + 1 - 1 = d /\ 1 \in 1 .. k
    BY <1>1
  <2>2. y[d] = Frame(1)
    BY <2>1
  <2> QED
    BY <2>2 DEF Frame
<1>3. \A i \in 1 .. n : y[d + i - 1].data = IF i <= k THEN <<call.val, i>> ELSE Blank
  <2> TAKE i \in 1 .. n
  <2>1. CASE i <= k
    <3>1. i \in 1 .. k
      BY <1>1, <2>1
    <3>2. y[d + i - 1] = Frame(i)
      BY <3>1
    <3> QED
      BY <2>1, <3>2 DEF Frame
  <2>2. CASE ~ i <= k
    <3>1. i \in k + 1 .. Frames(call.len)
      BY <1>1, <2>2
    <3>2. y[d + i - 1] = FreeItem
      BY <3>1
    <3> QED
      BY <2>2, <3>2 DEF FreeItem
  <2> QED
    BY <2>1, <2>2
<1>4. FileAt(y, d) = [len |-> call.len, data |-> [i \in 1 .. n |-> IF i <= k THEN <<call.val, i>> ELSE Blank]]
  BY <1>1, <1>2, <1>3 DEF FileAt
<1>5. Content(call) = [len |-> call.len, data |-> [i \in 1 .. n |-> <<call.val, i>>]]
  BY <1>1 DEF Content
<1> DEFINE D == [i \in 1 .. n |-> <<call.val, i>>]
           C == [len |-> call.len, data |-> D]
<1>6. DOMAIN D = 1 .. n /\ \A i \in 1 .. n : D[i] = <<call.val, i>>
  OBVIOUS
<1>7. [i \in DOMAIN D |-> IF i <= k THEN D[i] ELSE Blank] = [i \in 1 .. n |-> IF i <= k THEN <<call.val, i>> ELSE Blank]
  <2> HIDE DEF D
  <2> QED
    BY <1>6
<1>8. Store!Beginning(C, k) = [len |-> call.len, data |-> [i \in DOMAIN D |-> IF i <= k THEN D[i] ELSE Blank]]
  <2> HIDE DEF D
  <2>1. C.data = D
    OBVIOUS
  <2> QED
    BY <2>1 DEF Store!Beginning
<1> QED
  BY <1>4, <1>5, <1>7, <1>8


(* The first frame of a file is put.                                       *)
Grown(z, y, q, k) == \A p \in 1 .. Capacity : y[p] = IF p = q THEN Frame(k) ELSE z[p]
Added(z, y, c, H) ==
  /\ Laid(y, c + Frames(call.len), H \cup {c}) /\ \A h \in H : FileAt(y, h) = FileAt(z, h)
  /\ \A id : UsedBy(y, H \cup {c}, id) = IF id = call.id THEN UsedBy(z, H, id) \cup {c} ELSE UsedBy(z, H, id)
  /\ y[c] = Frame(1) /\ \A i \in 2 .. Frames(call.len) : y[c + i - 1] = FreeItem
LEMMA GrownLaid ==
  ASSUME TypeInv, FileCalled, Frames(call.len) < Items, NEW z, NEW c, NEW H, Laid(z, c, H),
         c + Frames(call.len) <= Capacity + 1,
         NEW y, Grown(z, y, c, 1)
  PROVE  Added(z, y, c, H)
<1>n. PICK n \in Nat : n = Frames(call.len) /\ n >= 1 /\ n < Items
  <2>1. PICK f \in Files : call.id = f.id /\ call.len = f.len /\ call.val = f.val
    BY DEF FileCalled
  <2>2. f.len \in Nat /\ f.len > 0
    BY FsAssumption, Fields
  <2> QED
    BY <2>1, <2>2, FramesOf
<1>0. /\ c \in 1 .. Capacity + 1 /\ Capacity \in Nat /\ c \in Nat /\ c >= 1 /\ c <= Capacity /\ c \in 1 .. Capacity
      /\ H \subseteq 1 .. c - 1 /\ c \notin H /\ c + n \in 1 .. Capacity + 1 /\ c + n \in Nat
  BY <1>n, CapacityIs DEF Laid
<1>1. 1 \in 1 .. Frames(call.len)
  BY <1>n
<1>2. /\ Frame(1) \in Item /\ Frame(1).pro = USED /\ Frame(1).id = call.id /\ Frame(1).len = call.len
      /\ Frame(1).frame = IF Frames(call.len) = 1 THEN SF ELSE MF_F
  <2>1. Written(Frame(1))
    BY <1>1, FrameWritten
  <2>2. Frame(1) \in Item
    BY <2>1 DEF Written
  <2> QED
    BY <2>2 DEF Frame, FrameKind
<1>3. Frame(1).len > 0
  <2>1. PICK f \in Files : call.len = f.len
    BY DEF FileCalled
  <2>2. f.len > 0
    BY FsAssumption, Fields
  <2> QED
    BY <1>2, <2>1, <2>2
<1>4. Opens(Frame(1))
  BY <1>n, <1>2, <1>3 DEF Opens
<1>5. PICK i1 : i1 = Frame(1)
  OBVIOUS
<1>6. y[c] = i1 /\ \A p \in 1 .. Capacity : p # c => y[p] = z[p]
  BY <1>0, <1>5 DEF Grown
<1>7. \A h \in H : /\ h \in Nat /\ h < c /\ h \in 1 .. Capacity /\ y[h] = z[h] /\ h # c
                   /\ Behind(z, h) = h + Frames(z[h].len) /\ Frames(z[h].len) \in Nat /\ Frames(z[h].len) >= 1
                   /\ Behind(z, h) <= c /\ Behind(z, h) \in Nat
                   /\ \A k \in 1 .. Frames(z[h].len) : h + k - 1 \in 1 .. c - 1 /\ h + k - 1 \in 1 .. Capacity
  <2> TAKE h \in H
  <2>1. /\ h \in Nat /\ h < c /\ h \in 1 .. Capacity
        /\ Behind(z, h) = h + Frames(z[h].len) /\ Frames(z[h].len) \in Nat /\ Frames(z[h].len) >= 1
        /\ h + Frames(z[h].len) <= c
        /\ \A k \in 1 .. Frames(z[h].len) : h + k - 1 \in 1 .. c - 1 /\ h + k - 1 \in 1 .. Capacity
    BY LaidFacts
  <2>2. h # c
    BY <1>0, <2>1
  <2> QED
    BY <1>6, <2>1, <2>2
<1>8. \A h \in H : Behind(y, h) = Behind(z, h)
  BY <1>7 DEF Behind
<1>9. Behind(y, c) = c + n
  BY <1>n, <1>2, <1>5, <1>6 DEF Behind
<1>10. /\ 1 \in H \cup {c} /\ \A h \in H : Opens(z[h]) /\ Behind(z, h) \in H \cup {c}
       /\ \A h \in H \cup {c} : h = 1 \/ \E g \in H : h = Behind(z, g)
       /\ \A g, h \in H : g < h => Behind(z, g) <= h
  BY DEF Laid
<1>11. \A p \in 1 .. Capacity : z[p] \in Item /\ (p >= c => z[p] = FreeItem)
  BY DEF Laid
<1>12. Laid(y, c + n, H \cup {c})
  <2>1. H \cup {c} \subseteq 1 .. c + n - 1
    BY <1>0, <1>n
  <2>2. \A p \in 1 .. Capacity : y[p] \in Item /\ (p >= c + n => y[p] = FreeItem)
    <3> TAKE p \in 1 .. Capacity
    <3>1. CASE p = c
      BY <1>0, <1>2, <1>5, <1>6, <1>n, <3>1
    <3>2. CASE p # c
      <4>1. p >= c + n => p >= c
        BY <1>0, <1>n
      <4> QED
        BY <1>6, <1>11, <3>2, <4>1
    <3> QED
      BY <3>1, <3>2
  <2>3. \A h \in H \cup {c} : Opens(y[h]) /\ Behind(y, h) \in H \cup {c} \cup {c + n}
    <3> TAKE h \in H \cup {c}
    <3>1. CASE h = c
      BY <1>4, <1>5, <1>6, <1>9, <3>1
    <3>2. CASE h \in H
      BY <1>7, <1>8, <1>10, <3>2
    <3> QED
      BY <3>1, <3>2
  <2>4. \A h \in (H \cup {c}) \cup {c + n} : h = 1 \/ \E g \in H \cup {c} : h = Behind(y, g)
    <3> TAKE h \in (H \cup {c}) \cup {c + n}
    <3>1. CASE h = c + n
      BY <1>9, <3>1
    <3>2. CASE h \in H \cup {c}
      BY <1>8, <1>10, <3>2
    <3> QED
      BY <3>1, <3>2
  <2>5. \A g, h \in H \cup {c} : g < h => Behind(y, g) <= h
    <3> SUFFICES ASSUME NEW g \in H \cup {c}, NEW h \in H \cup {c}, g < h PROVE Behind(y, g) <= h
      OBVIOUS
    <3>1. g \in H
      BY <1>0, <1>7
    <3>2. Behind(y, g) = Behind(z, g)
      BY <1>8, <3>1
    <3>3. CASE h = c
      BY <1>7, <3>1, <3>2, <3>3
    <3>4. CASE h \in H
      BY <1>10, <3>1, <3>2, <3>4
    <3> QED
      BY <3>3, <3>4
  <2>6. (H \cup {c}) \cup {c + n} = H \cup {c} \cup {c + n} /\ 1 \in (H \cup {c}) \cup {c + n}
    BY <1>10
  <2>7. c + n \in 1 .. Capacity + 1
    BY <1>0
  <2> QED
    BY <2>1, <2>2, <2>3, <2>4, <2>5, <2>6, <2>7 DEF Laid
<1>13. ASSUME NEW h \in H PROVE FileAt(y, h) = FileAt(z, h)
  <2>1. y[h] = z[h] /\ \A k \in 1 .. Frames(z[h].len) : h + k - 1 \in 1 .. Capacity /\ h + k - 1 # c
    BY <1>0, <1>7
  <2>2. \A k \in 1 .. Frames(z[h].len) : y[h + k - 1].data = z[h + k - 1].data
    BY <1>6, <2>1
  <2> QED
    BY <2>1, <2>2 DEF FileAt
<1>14. ASSUME NEW id
       PROVE  UsedBy(y, H \cup {c}, id) = IF id = call.id THEN UsedBy(z, H, id) \cup {c} ELSE UsedBy(z, H, id)
  <2>1. y[c].pro = USED /\ y[c].id = call.id
    BY <1>2, <1>5, <1>6
  <2>2. \A h \in H : y[h] = z[h]
    BY <1>7
  <2> QED
    BY <2>1, <2>2 DEF UsedBy
<1>15. \A i \in 2 .. n : y[c + i - 1] = FreeItem
  <2> TAKE i \in 2 .. n
  <2>1. c + i - 1 \in 1 .. Capacity /\ c + i - 1 >= c /\ c + i - 1 # c
    BY <1>0, <1>n
  <2> QED
    BY <1>6, <1>11, <2>1
<1> QED
  BY <1>n, <1>5, <1>6, <1>12, <1>13, <1>14, <1>15 DEF Added

(* A frame behind it is put.                                               *)
LEMMA WrittenLaid ==
  ASSUME TypeInv, FileCalled, NEW z, NEW c, NEW H, Laid(z, c, H), NEW d \in H, z[d] = Frame(1),
         NEW k \in 2 .. Frames(call.len),
         NEW y, Grown(z, y, d + k - 1, k)
  PROVE  /\ Laid(y, c, H) /\ \A h \in H : h # d => FileAt(y, h) = FileAt(z, h)
         /\ \A id : UsedBy(y, H, id) = UsedBy(z, H, id)
         /\ y[d + k - 1] = Frame(k)
         /\ \A i \in 1 .. Frames(call.len) : i # k => y[d + i - 1] = z[d + i - 1]
<1>n. PICK n \in Nat : n = Frames(call.len) /\ k \in 2 .. n /\ k \in Nat /\ k \in 1 .. n
  <2>1. call.len \in Nat
    BY DEF TypeInv, TypeOK, Call
  <2>2. Frames(call.len) \in Nat
    BY <2>1, FramesOf
  <2> QED
    BY <2>2
<1>1. z[d].len = call.len
  BY DEF Frame
<1>2. /\ d \in Nat /\ d < c /\ c \in Nat /\ Capacity \in Nat
      /\ \A i \in 1 .. n : d + i - 1 \in 1 .. c - 1 /\ d + i - 1 \in 1 .. Capacity
  <2>1. /\ d \in Nat /\ d < c /\ c \in Nat /\ Capacity \in Nat
        /\ \A i \in 1 .. Frames(z[d].len) : d + i - 1 \in 1 .. c - 1 /\ d + i - 1 \in 1 .. Capacity
    BY LaidFacts
  <2> QED
    BY <1>n, <1>1, <2>1
<1>3. PICK q : q = d + k - 1
  OBVIOUS
<1>4. q \in 1 .. Capacity /\ q < c /\ q \in Nat
  <2>1. q \in 1 .. c - 1 /\ q \in 1 .. Capacity
    BY <1>n, <1>2, <1>3
  <2> QED
    BY <1>2, <2>1
<1>5. PICK i1 : i1 = Frame(k)
  OBVIOUS
<1>6. i1 \in Item
  <2>1. Written(Frame(k))
    BY <1>n, FrameWritten
  <2> QED
    BY <1>5, <2>1 DEF Written
<1>7. \A p \in 1 .. Capacity : (p = q => y[p] = i1) /\ (p # q => y[p] = z[p])
  BY <1>3, <1>5 DEF Grown
<1>8. \A p \in 1 .. Capacity : z[p] \in Item /\ (p >= c => z[p] = FreeItem)
  BY DEF Laid
<1>9. \A h \in H : h # q /\ h \in 1 .. Capacity /\ z[h].pro \in {USED, DELETED}
  <2> TAKE h \in H
  <2>1. h \in 1 .. Capacity /\ z[h].pro \in {USED, DELETED}
    BY LaidFacts
  <2>2. ASSUME h = q PROVE FALSE
    <3>1. k \in 1 .. Frames(z[d].len) /\ h = d + k - 1
      BY <1>n, <1>1, <1>3, <2>2
    <3>2. k = 1
      BY <3>1, HeadsApart
    <3> QED
      BY <1>n, <3>2
  <2> QED
    BY <2>1, <2>2
<1>10. \A h \in H : y[h] = z[h]
  BY <1>7, <1>9
<1>11. Laid(y, c, H)
  <2>1. \A p \in 1 .. Capacity : y[p] \in Item /\ (p >= c => y[p] = FreeItem)
    <3> TAKE p \in 1 .. Capacity
    <3>1. CASE p = q
      BY <1>2, <1>4, <1>6, <1>7, <3>1
    <3>2. CASE p # q
      BY <1>7, <1>8, <3>2
    <3> QED
      BY <3>1, <3>2
  <2> QED
    BY <1>9, <1>10, <2>1, LaidOn
<1>12. ASSUME NEW h \in H, h # d PROVE FileAt(y, h) = FileAt(z, h)
  <2>1. \A i \in 1 .. Frames(z[h].len) : h + i - 1 \in 1 .. Capacity
    BY LaidFacts
  <2>2. \A i \in 1 .. Frames(z[h].len) : h + i - 1 # q
    <3> TAKE i \in 1 .. Frames(z[h].len)
    <3>1. k \in 1 .. Frames(z[d].len)
      BY <1>n, <1>1
    <3> QED
      BY <1>3, <1>12, <3>1, FilesApart
  <2>3. \A i \in 1 .. Frames(z[h].len) : y[h + i - 1].data = z[h + i - 1].data
    BY <1>7, <2>1, <2>2
  <2> QED
    BY <1>10, <2>3 DEF FileAt
<1>13. \A id : UsedBy(y, H, id) = UsedBy(z, H, id)
  BY <1>10 DEF UsedBy
<1>14. \A i \in 1 .. n : i # k => y[d + i - 1] = z[d + i - 1]
  <2> TAKE i \in 1 .. n
  <2>1. d + i - 1 \in 1 .. Capacity /\ (i # k => d + i - 1 # q)
    BY <1>n, <1>2, <1>3
  <2> QED
    BY <1>7, <2>1
<1> QED
  BY <1>n, <1>3, <1>4, <1>5, <1>7, <1>11, <1>12, <1>13, <1>14


-----------------------------------------------------------------------------
(* What stays when a call ends or goes on.                                 *)

CutSteps == [Store!Next \/ Store!Tear]_<<seen, intent>>

LEMMA CutStutters == UNCHANGED <<seen, intent>> => CutSteps
BY DEF CutSteps

LEMMA LaidNext ==
  ASSUME NEW z, NEW c, NEW H, Laid(z, c, H)
  PROVE  Laid(z, c, H)'
<1>1. Item' = Item /\ Capacity' = Capacity /\ FreeItem' = FreeItem
  BY DEF Item, Data, Capacity, FreeItem
<1>2. \A h : Behind(z, h)' = Behind(z, h) /\ (Opens(z[h])' <=> Opens(z[h]))
  BY DEF Behind, Opens, Frames
<1> QED
  BY <1>1, <1>2 DEF Laid

LEMMA HoldsNext ==
  ASSUME NEW z, NEW H, NEW id, NEW x
  PROVE  Holds(z, H, id, x) <=> Holds(z, H, id, x)'
BY DEF Holds, UsedBy, FileAt, Frames, USED, Absent

LEMMA PossibleKept ==
  ASSUME seen' = seen, intent' = intent \/ intent = Store!NoIntent
  PROVE  \A id, x : Possible(id, x) => Possible(id, x)'
BY DEF Possible, Store!NoIntent, Absent, Store!Beginning

(* Where the zone is.                                                      *)
LEMMA SitedNext ==
  ASSUME NEW z, NEW c, NEW H, z = Zone(Spare)', Indexes', Laid(z, c, H),
         \A id \in Ids : \E x : Holds(z, H, id, x) /\ Possible(id, x)'
  PROVE  Sited(z, c, H)'
<1>1. Laid(z, c, H)'
  BY LaidNext
<1>2. \A id \in Ids : \E x : Holds(z, H, id, x)' /\ Possible(id, x)'
  BY HoldsNext
<1> QED
  BY <1>1, <1>2 DEF Sited, Ids

LEMMA SitedKept ==
  ASSUME NEW z, NEW c, NEW H, Sited(z, c, H), UNCHANGED flash,
         seen' = seen, intent' = intent \/ intent = Store!NoIntent
  PROVE  Sited(z, c, H)'
<1>1. head' = head /\ Zone(Spare)' = Zone(Spare)
  BY OldUnchanged DEF flash, Zone, Spare
<1>2. Indexes'
  BY <1>1 DEF Sited, Indexes, Spare, Sectors, Erased
<1>3. \A id \in Ids : \E x : Holds(z, H, id, x) /\ Possible(id, x)'
  BY PossibleKept DEF Sited
<1> QED
  BY <1>1, <1>2, <1>3, SitedNext DEF Sited

LaidReads == \A z, c, H, id, x : z = Zone(ex) /\ Laid(z, c, H) /\ Holds(z, H, id, x) => ReadBack(id) = x
LEMMA LaidReadFact == Zoned => LaidReads
BY ReadsLaid DEF LaidReads

LaidFrontier == \A z, c, H : z = Zone(ex) /\ Laid(z, c, H) => Frontier = Spot(ex, c)
LEMMA LaidFrontierFact == Zoned => LaidFrontier
BY FrontierLaid DEF LaidFrontier

(* A call ends, and the files are read.                                    *)
LEMMA CutEnds ==
  ASSUME CutInv, Observe, TypeInv', call.op # "format", call' = NoCall, ready', ex' = Spare,
         NEW z, NEW c, NEW H, z = Zone(Spare)', Indexes', Laid(z, c, H), free' = Spot(Spare, c),
         \A id \in Ids : \E x : Holds(z, H, id, x) /\ Possible(id, x)
  PROVE  CutInv' /\ CutSteps
<1>1. Mounted'
  BY DEF Mounted, NoCall
<1>2. ASSUME NEW id \in Ids, NEW x, Holds(z, H, id, x) PROVE ReadBack(id)' = x
  <2>1. (Zoned => LaidReads)'
    BY LaidReadFact, PTL
  <2>2. Zoned'
    BY DEF TypeInv, TypeOK, Zoned
  <2>3. z = Zone(ex)'
    BY DEF Zone, Spare
  <2>4. Laid(z, c, H)' /\ Holds(z, H, id, x)'
    BY <1>2, LaidNext, HoldsNext
  <2> QED
    BY <2>1, <2>2, <2>3, <2>4 DEF LaidReads
<1>3. seen' = [id \in Ids |-> ReadBack(id)'] /\ intent' = Store!NoIntent
  BY <1>1 DEF Observe, View, Ids
<1>4. \A id \in Ids : Holds(z, H, id, seen'[id]) /\ Possible(id, seen'[id])
  BY <1>2, <1>3
<1>5. Sited(z, c, H)'
  <2>1. PICK v : v = seen'
    OBVIOUS
  <2>2. \A id \in Ids : Possible(id, v[id])'
    BY <2>1 DEF Possible
  <2>3. \A id \in Ids : \E x : Holds(z, H, id, x) /\ Possible(id, x)'
    BY <1>4, <2>1, <2>2
  <2> QED
    BY <2>3, SitedNext
<1>6. Serving'
  <2>1. Served(z, c, H)' /\ free' = Spot(Spare, c)'
    BY <1>5 DEF Served, Spare, Spot, Place, Sector, Row, Column, Capacity
  <2> QED
    BY <1>3, <2>1 DEF Serving, NoCall, Store!NoIntent
<1>7. CutInv'
  <2>1. (seen = [id \in Ids |-> seen[id]])'
    BY <1>3 DEF Ids
  <2> QED
    BY <1>3, <1>6, <2>1 DEF CutInv, CutModes, Store!NoIntent
<1>8. CASE intent = Store!NoIntent
  <2>1. \A id \in Ids : seen'[id] = seen[id]
    BY <1>4, <1>8 DEF Possible
  <2>2. seen' = seen
    BY <1>3, <2>1 DEF CutInv
  <2> QED
    BY <1>3, <1>7, <1>8, <2>2, CutStutters
<1>9. CASE intent # Store!NoIntent
  <2>1. intent.id \in Ids /\ seen = [id \in Ids |-> seen[id]]
    BY <1>9 DEF CutInv
  <2>2. \A id \in Ids : id # intent.id => seen'[id] = seen[id]
    BY <1>4 DEF Possible
  <2>3. PICK r : r = seen'[intent.id]
    OBVIOUS
  <2>4. seen' = [seen EXCEPT ![intent.id] = r]
    BY <1>3, <2>1, <2>2, <2>3
  <2>5. Store!Settle(r)
    BY <1>3, <1>9, <2>4 DEF Store!Settle, NoCall
  <2>6. Possible(intent.id, r)
    BY <1>4, <2>1, <2>3
  <2>7. Store!Tear
    BY <2>5, <2>6 DEF Store!Tear, Possible
  <2> QED
    BY <1>7, <2>7 DEF CutSteps
<1> QED
  BY <1>8, <1>9


-----------------------------------------------------------------------------
(* Steps between calls.                                                    *)

LEMMA CutCases ==
  ASSUME CutInv
  PROVE  /\ call.op = "none" => call = NoCall /\ (Serving \/ Unmounted)
         /\ call.phase = "mark" => \E z, c, H, m, j : Striking(z, c, H, m, j)
         /\ call.phase = "put" => \E z, c, H : Adding(z, c, H)
         /\ call.phase = "wipe" => Formatting /\ Wiping
         /\ call.phase = "mount" => Unmounted \/ (Formatting /\ Wiped)
         /\ call.phase = "index" => (Formatting \/ Numbering) /\ Indexing
         /\ call.phase \notin {"copy", "data", "erase"} /\ call.op # "collect"
         /\ call.op = "init" => Unmounted \/ Numbering
         /\ call.op = "format" => Formatting
         /\ call.op \in {"write", "delete"} => call.phase \in {"mark", "put"}
<1>1. Unmounted => (call = NoCall /\ call.op = "none" /\ call.phase = "none") \/ (call.op = "init" /\ call.phase = "mount")
  BY DEF Unmounted, NoCall
<1>2. Formatting => call.op = "format" /\ ((call.phase = "wipe" /\ Wiping) \/ (call.phase = "mount" /\ Wiped)
                                           \/ (call.phase = "index" /\ Indexing))
  BY DEF Formatting, Wiping, Wiped, Indexing
<1>3. Numbering => call.op = "init" /\ call.phase = "index" /\ Indexing
  BY DEF Numbering, Indexing
<1>4. Serving => call = NoCall /\ call.op = "none" /\ call.phase = "none"
  BY DEF Serving, NoCall
<1>5. (\E z, c, H, m, j : Striking(z, c, H, m, j)) => call.op \in {"write", "delete"} /\ call.phase = "mark"
  BY DEF CutInv, TypeInv, CallInv, Striking
<1>6. (\E z, c, H : Adding(z, c, H)) => call.op = "write" /\ call.phase = "put"
  BY DEF CutInv, TypeInv, CallInv, Adding
<1> QED
  BY <1>1, <1>2, <1>3, <1>4, <1>5, <1>6 DEF CutInv, CutModes

(* What was seen and is meant stays while no call ends.                    *)
LEMMA CutQuiet ==
  ASSUME CutInv, Observe, TypeInv', ~ Mounted', call # NoCall \/ call'.op \notin {"write", "delete"}
  PROVE  seen' = seen /\ intent' = intent /\ CutSteps /\ (CutModes' => CutInv')
<1>1. seen' = seen /\ intent' = intent
  BY DEF Observe
<1>2. (seen = [id \in Ids |-> seen[id]])'
  BY <1>1 DEF CutInv, Ids
<1>3. (intent = Store!NoIntent \/ intent.id \in Ids)'
  BY <1>1 DEF CutInv, Ids, Store!NoIntent, Absent
<1> QED
  BY <1>1, <1>2, <1>3, CutStutters DEF CutInv

(* RAM is lost, or was, and flash is as it was.                            *)
LEMMA CutLost ==
  ASSUME CutInv, Observe, TypeInv', UNCHANGED flash, ~ready',
         call' = NoCall \/ (call'.op = "init" /\ call'.phase = "mount" /\ call'.k = 0),
         (Fresh /\ (Blanked \/ Bad # {})) \/ \E z, c, H : Sited(z, c, H)
  PROVE  CutInv' /\ CutSteps
<1>1. ~ Mounted' /\ call'.op \notin {"write", "delete"}
  BY DEF Mounted, NoCall
<1>2. seen' = seen /\ intent' = intent /\ CutSteps /\ (CutModes' => CutInv')
  BY <1>1, CutQuiet
<1>3. Unmounted'
  <2>1. CASE Fresh /\ (Blanked \/ Bad # {})
    <3>1. Fresh'
      BY <1>2, <2>1 DEF Fresh, Store!NoIntent, Ids, Absent
    <3> QED
      BY <2>1, <3>1, OldUnchanged DEF Unmounted
  <2>2. ASSUME NEW z, NEW c, NEW H, Sited(z, c, H) PROVE Unmounted'
    <3>1. Sited(z, c, H)'
      BY <1>2, <2>2, SitedKept
    <3> QED
      BY <3>1 DEF Unmounted
  <2> QED
    BY <2>1, <2>2
<1> QED
  BY <1>2, <1>3 DEF CutModes

(* Nothing happens to a zone that is mounted.                              *)
LEMMA CutStays ==
  ASSUME CutInv, Observe, TypeInv', Serving, call' = NoCall, UNCHANGED <<flash, ram>>
  PROVE  CutInv' /\ CutSteps
<1>1. PICK z, c, H : Served(z, c, H) /\ free = Spot(Spare, c)
  BY DEF Serving
<1>2. ready' /\ ex' = Spare /\ free' = Spot(Spare, c) /\ call.op # "format"
  BY <1>1 DEF ram, Served, Serving, NoCall
<1>3. z = Zone(Spare) /\ Indexes /\ Laid(z, c, H) /\ \A id \in Ids : \E x : Holds(z, H, id, x) /\ Possible(id, x)
  BY <1>1 DEF Served, Sited
<1>4. z = Zone(Spare)' /\ Indexes'
  BY <1>3 DEF flash, Zone, Spare, Indexes, Sectors, Erased, Capacity, Place, Sector, Row, Column
<1> QED
  BY <1>2, <1>3, <1>4, CutEnds

(* A zone that is being made.                                              *)
Started(n) ==
  /\ \A s \in Sectors : head[s] = IF s < n THEN s ELSE Erased
  /\ \A a \in Addresses : item[a] = FreeItem

LEMMA SpareIs ==
  /\ Spare \in Sectors /\ Spare \in Int /\ 0 \in Sectors /\ Spare # 0 /\ Spare >= 2
  /\ Sector(-1) = Spare /\ Spot(Spare, 1) = <<0, 1>> /\ SectorNum - 1 = Spare
<1>1. Spare \in Sectors /\ Spare \in Int /\ 0 \in Sectors /\ Spare # 0 /\ Spare >= 2 /\ SectorNum \in Nat
  BY Sizes DEF Spare, Sectors
<1>2. Sector(-1) = Spare
  <2>1. Spare = -1 + 1 * SectorNum
    BY <1>1 DEF Spare
  <2>2. Sector(-1 + 1 * SectorNum) = Sector(-1)
    BY SectorTurn
  <2> QED
    BY <1>1, <2>1, <2>2, SectorIs
<1>3. Row(1) = 0 /\ Column(1) = 1
  <2>1. 1 = Items * 0 + 1 /\ 1 \in 1 .. Items
    BY Sizes
  <2> QED
    BY <2>1, RowColumnIs
<1>4. Sector(Spare + 1 + 0) = 0
  <2>1. Spare + 1 + 0 = 0 + 1 * SectorNum
    BY <1>1 DEF Spare
  <2>2. Sector(0 + 1 * SectorNum) = Sector(0)
    BY SectorTurn
  <2> QED
    BY <1>1, <2>1, <2>2, SectorIs
<1>5. 1 <= Capacity
  BY CapacityIs, Sizes
<1>6. Spot(Spare, 1) = <<0, 1>>
  BY <1>3, <1>4, <1>5 DEF Spot, Place
<1> QED
  BY <1>1, <1>2, <1>6 DEF Spare

LEMMA FreshLaid ==
  ASSUME NEW z, \A p \in 1 .. Capacity : z[p] = FreeItem
  PROVE  Laid(z, 1, {}) /\ \A id : Holds(z, {}, id, Absent)
<1>1. Capacity \in Nat /\ 1 \in 1 .. Capacity + 1
  BY CapacityIs
<1>2. FreeItem \in Item
  BY Fields DEF FreeItem, Item, Data, UNUSED, SF
<1>3. \A id : UsedBy(z, {}, id) = {}
  BY DEF UsedBy
<1> QED
  BY <1>1, <1>2, <1>3 DEF Laid, Holds

LEMMA ZoneFresh ==
  ASSUME \A a \in Addresses : item[a] = FreeItem
  PROVE  \A p \in 1 .. Capacity : Zone(Spare)[p] = FreeItem
<1> TAKE p \in 1 .. Capacity
<1>1. p \in Int /\ Place(Spare, p) \in Addresses
  BY CapacityIs, SpareIs, PlaceIn
<1> QED
  BY <1>1 DEF Zone

StartedSites ==
  \A n \in 1 .. SectorNum - 1 : Started(n) =>
    /\ Indexes /\ \A p \in 1 .. Capacity : Zone(Spare)[p] = FreeItem
    /\ Fresh => Sited(Zone(Spare), 1, {})
LEMMA StartedFact == StartedSites
<1> SUFFICES ASSUME NEW n \in 1 .. SectorNum - 1, Started(n)
             PROVE  /\ Indexes /\ \A p \in 1 .. Capacity : Zone(Spare)[p] = FreeItem
                    /\ Fresh => Sited(Zone(Spare), 1, {})
  BY DEF StartedSites
<1>1. n \in Int /\ 0 < n /\ ~ Spare < n
  BY SpareIs
<1>2. head[0] = 0 /\ head[Spare] = Erased /\ \A s \in Sectors : head[s] \in {s, Erased}
  BY <1>1, SpareIs DEF Started
<1>3. \A p \in 1 .. Capacity : Zone(Spare)[p] = FreeItem
  BY ZoneFresh DEF Started
<1>4. PICK z : z = Zone(Spare)
  OBVIOUS
<1>5. Laid(z, 1, {}) /\ \A id : Holds(z, {}, id, Absent)
  BY <1>3, <1>4, FreshLaid
<1>6. Fresh => \A id \in Ids : Possible(id, Absent)
  BY DEF Fresh, Possible
<1>7. Fresh => Sited(z, 1, {})
  BY <1>2, <1>4, <1>5, <1>6 DEF Sited, Indexes
<1> QED
  BY <1>2, <1>3, <1>4, <1>7 DEF Indexes

LEMMA CutIdle ==
  ASSUME Survivable, CutInv, Observe, TypeInv', Refuse \/ HalInit \/ Format \/ Restart
  PROVE  CutInv' /\ CutSteps
<1>1. Unmounted => (Fresh /\ (Blanked \/ Bad # {})) \/ \E z, c, H : Sited(z, c, H)
  BY DEF Unmounted
<1>2. Serving => ready /\ \E z, c, H : Sited(z, c, H)
  BY DEF Serving, Served
<1>3. CASE Refuse
  <2>1. call.op = "none" /\ ~ready /\ ~ready' /\ UNCHANGED flash /\ call' = NoCall
    BY <1>3 DEF Refuse, Calling, Return, ram
  <2> QED
    BY <1>1, <1>2, <2>1, CutCases, CutLost
<1>4. CASE HalInit
  <2>1. call.op = "none" /\ UNCHANGED <<flash, ram>> /\ UNCHANGED flash
    BY <1>4 DEF HalInit, Calling
  <2>2. CASE ready
    <3>1. Serving /\ call' = NoCall
      BY <1>4, <2>1, <2>2, CutCases DEF HalInit, Return, Unmounted
    <3> QED
      BY <2>1, <3>1, CutStays
  <2>3. CASE ~ready
    <3>1. call' = [NoCall EXCEPT !.op = "init", !.phase = "mount"] /\ ~ready'
      BY <1>4, <2>1, <2>3 DEF HalInit, Enter, ram
    <3>2. call'.op = "init" /\ call'.phase = "mount" /\ call'.k = 0
      BY <3>1 DEF NoCall
    <3> QED
      BY <1>1, <1>2, <2>1, <2>3, <3>1, <3>2, CutCases, CutLost
  <2> QED
    BY <2>2, <2>3
<1>5. CASE Format
  <2>1. ~ready' /\ call' = [NoCall EXCEPT !.op = "format", !.phase = "wipe"]
    BY <1>5 DEF Format, Enter
  <2>2. call'.op = "format" /\ call'.phase = "wipe" /\ call'.k = 0
    BY <2>1 DEF NoCall
  <2>3. 0 \in Sectors /\ \A s \in Sectors : ~ s < 0
    BY Sizes DEF Sectors
  <2>4. \A a \in Addresses : ~ a[1] < 0
    BY <2>3 DEF Addresses
  <2>5. Wiping'
    BY <2>1, <2>2, <2>3, <2>4 DEF Wiping, Sectors, Addresses
  <2>6. CutModes'
    BY <2>2, <2>5 DEF CutModes, Formatting
  <2>7. ~ Mounted' /\ call'.op \notin {"write", "delete"}
    BY <2>2 DEF Mounted
  <2> QED
    BY <2>6, <2>7, CutQuiet
<1>6. CASE Restart
  <2>1. ~ready' /\ UNCHANGED flash /\ call' = NoCall /\ call.op \in Cuts \cup {"none"}
    BY <1>6 DEF Restart, Return
  <2>2. call.op # "format"
    BY <2>1 DEF Survivable
  <2>3. ~ Formatting
    BY <2>2 DEF Formatting
  <2>4. Numbering => Fresh /\ (Blanked \/ \E z, c, H : Sited(z, c, H))
    <3> SUFFICES ASSUME Numbering PROVE Fresh /\ (Blanked \/ \E z, c, H : Sited(z, c, H))
      OBVIOUS
    <3>1. Fresh /\ Started(call.k) /\ call.k \in 0 .. SectorNum - 2
      BY DEF Numbering, Indexing, Started
    <3>2. CASE call.k = 0
      <4>1. \A s \in Sectors : ~ s < 0
        BY DEF Sectors
      <4> QED
        BY <3>1, <3>2, <4>1 DEF Started, Blanked
    <3>3. CASE call.k # 0
      <4>1. call.k \in 1 .. SectorNum - 1
        BY <3>1, <3>3, Sizes
      <4> QED
        BY <3>1, <4>1, StartedFact DEF StartedSites
    <3> QED
      BY <3>2, <3>3
  <2>5. (\E z, c, H, m, j : Striking(z, c, H, m, j)) => \E z, c, H : Sited(z, c, H)
    BY DEF Striking, Served
  <2>6. (\E z, c, H : Adding(z, c, H)) => \E z, c, H : Sited(z, c, H)
    BY DEF Adding, Served
  <2>7. (Fresh /\ (Blanked \/ Bad # {})) \/ \E z, c, H : Sited(z, c, H)
    BY <1>1, <1>2, <2>3, <2>4, <2>5, <2>6 DEF CutInv, CutModes
  <2> QED
    BY <2>1, <2>7, CutLost
<1> QED
  BY <1>3, <1>4, <1>5, <1>6


-----------------------------------------------------------------------------
(* The making of a zone.                                                   *)

MakingFound ==
  /\ call.phase = "wipe" => Wiping
  /\ call.phase = "mount" /\ call.op = "format" => Wiped
  /\ call.phase = "index" /\ call.op # "collect" => Indexing
LEMMA MakingFact == IInv => MakingFound
<1> SUFFICES ASSUME IInv PROVE MakingFound
  OBVIOUS
<1>1. /\ Initing => call.op = "init"
      /\ \A c : Collected(c) => call.op = "collect"
  BY DEF Initing, Collected
<1> QED
  BY <1>1, ModeCases DEF MakingFound

LEMMA CutWipe ==
  ASSUME CutInv, Observe, TypeInv', Wipe
  PROVE  CutInv' /\ CutSteps
<1>1. Wiping /\ TypeInv /\ call \in Call
  BY CutCases DEF Wipe, CutInv, TypeInv, TypeOK
<1>2. IInv'
  BY <1>1, ModesWipe DEF IInv, Modes
<1>3. call.op = "format" /\ call # NoCall /\ ~ready
  BY <1>1 DEF Wiping, NoCall
<1>4. call'.op = "format" /\ call'.phase \in {"wipe", "mount"} /\ ~ready'
  BY <1>1, <1>3 DEF Wipe, ram, Call
<1>5. (IInv => MakingFound)'
  BY MakingFact, PTL
<1>6. Formatting'
  BY <1>2, <1>4, <1>5 DEF MakingFound, Formatting
<1>7. ~ Mounted' /\ CutModes'
  BY <1>4, <1>6 DEF Mounted, CutModes
<1> QED
  BY <1>3, <1>7, CutQuiet

(* The head of the k-th sector is programmed.                              *)
LEMMA HeadPut ==
  ASSUME TypeInv, Indexing, FlashWrite, NEW n, n = call.k + 1
  PROVE  n \in 1 .. SectorNum - 1 /\ Started(n)'
<1>1. /\ call.phase = "index" /\ call.op # "collect" /\ call.k \in 0 .. SectorNum - 2
      /\ \A s \in Sectors : head[s] = IF s < call.k THEN s ELSE Erased
      /\ \A a \in Addresses : item[a] = FreeItem
  BY DEF Indexing
<1>2. call.k \in Sectors /\ call.k \in Int /\ SectorNum \in Nat /\ SectorNum >= 3 /\ 0 + call.k = call.k
      /\ ~ call.k < call.k
  BY <1>1, Sizes DEF Sectors
<1>3. head' = [head EXCEPT ![call.k] = call.k] /\ item' = item
  <2>1. PutIndex(Sector(0 + call.k), call.k)
    BY <1>1 DEF FlashWrite
  <2>2. Sector(0 + call.k) = call.k /\ head[call.k] = Erased
    BY <1>1, <1>2, SectorIs
  <2>3. And[<<Erased, call.k>>] = call.k
    BY <1>1, <1>2, IndexProgrammed
  <2> QED
    BY <2>1, <2>2, <2>3 DEF PutIndex
<1>4. \A s \in Sectors : head'[s] = IF s < n THEN s ELSE Erased
  <2> TAKE s \in Sectors
  <2>1. s \in Int /\ (s < n <=> s < call.k \/ s = call.k)
    BY <1>2 DEF Sectors
  <2>2. head'[s] = IF s = call.k THEN call.k ELSE head[s]
    BY <1>2, <1>3 DEF TypeInv, TypeOK
  <2> QED
    BY <1>1, <1>2, <2>1, <2>2
<1>5. n \in 1 .. SectorNum - 1
  BY <1>1, <1>2
<1> QED
  BY <1>1, <1>3, <1>4, <1>5 DEF Started, Sectors, Addresses, FreeItem, Erased

LEMMA CutPutHead ==
  ASSUME CutInv, Observe, TypeInv', PutHead
  PROVE  CutInv' /\ CutSteps /\ (call.op = "format" /\ call'.op # "format" => Store!Format)
<1>1. (Formatting \/ Numbering) /\ Indexing /\ TypeInv /\ call \in Call /\ call.phase = "index"
  BY CutCases DEF PutHead, CutInv, TypeInv, TypeOK
<1>2. call.op \in {"init", "format"} /\ call # NoCall /\ ~ready /\ FlashWrite /\ (call.op = "init" => Numbering)
  BY <1>1 DEF Indexing, NoCall, PutHead, Formatting
<1>3. CASE call.k < SectorNum - 2
  <2>1. call'.op = call.op /\ call'.phase = "index" /\ ~ready'
    BY <1>1, <1>2, <1>3 DEF PutHead, ram, Call
  <2>2. IInv'
    BY <1>1, ModesPutHead DEF IInv, Modes
  <2>3. (IInv => MakingFound)'
    BY MakingFact, PTL
  <2>4. Indexing'
    BY <1>2, <2>1, <2>2, <2>3 DEF MakingFound
  <2>5. ~ Mounted'
    BY <1>2, <2>1 DEF Mounted
  <2>6. seen' = seen /\ intent' = intent /\ CutSteps /\ (CutModes' => CutInv')
    BY <1>2, <2>5, CutQuiet
  <2>7. CASE call.op = "format"
    BY <2>1, <2>4, <2>6, <2>7 DEF CutModes, Formatting
  <2>8. CASE call.op = "init"
    <3>1. Fresh'
      BY <1>2, <2>6, <2>8 DEF Numbering, Fresh, Store!NoIntent, Ids, Absent
    <3> QED
      BY <2>1, <2>4, <2>6, <2>8, <3>1 DEF CutModes, Numbering
  <2> QED
    BY <1>2, <2>7, <2>8
<1>4. CASE ~ call.k < SectorNum - 2
  <2>1. PICK n : n = call.k + 1
    OBVIOUS
  <2>2. n \in 1 .. SectorNum - 1 /\ Started(n)'
    BY <1>1, <1>2, <2>1, HeadPut
  <2>3. call' = NoCall /\ ready' /\ ex' = Spare /\ free' = <<0, 1>>
    BY <1>4 DEF PutHead, Return, Spare
  <2>4. StartedSites'
    BY StartedFact, PTL
  <2>5. Indexes' /\ \A p \in 1 .. Capacity : Zone(Spare)'[p] = FreeItem
    BY <2>2, <2>4 DEF StartedSites, Capacity, FreeItem
  <2>6. PICK z : z = Zone(Spare)'
    OBVIOUS
  <2>7. Laid(z, 1, {}) /\ \A id : Holds(z, {}, id, Absent)
    BY <2>5, <2>6, FreshLaid
  <2>8. \A id \in Ids : ReadBack(id)' = Absent
    <3>1. (Zoned => LaidReads)'
      BY LaidReadFact, PTL
    <3>2. Zoned'
      BY DEF TypeInv, TypeOK, Zoned
    <3>3. z = Zone(ex)'
      BY <2>3, <2>6 DEF Zone, Spare
    <3>4. Laid(z, 1, {})' /\ \A id : Holds(z, {}, id, Absent)'
      BY <2>7, LaidNext, HoldsNext DEF Absent
    <3> QED
      BY <3>1, <3>2, <3>3, <3>4 DEF LaidReads, Absent
  <2>9. Mounted'
    BY <2>3 DEF Mounted, NoCall
  <2>10. seen' = [id \in Ids |-> Absent] /\ intent' = Store!NoIntent
    BY <2>8, <2>9 DEF Observe, View, Ids
  <2>11. Fresh'
    BY <2>10 DEF Fresh, Ids, Absent, Store!NoIntent
  <2>12. \A id \in Ids : Holds(z, {}, id, Absent) /\ Possible(id, Absent)'
    BY <2>7, <2>10 DEF Possible, Ids, Absent
  <2>13. Sited(z, 1, {})'
    BY <2>5, <2>6, <2>7, <2>12, SitedNext
  <2>14. Spot(Spare, 1)' = Spot(Spare, 1) /\ Spot(Spare, 1) = <<0, 1>>
    BY SpareIs DEF Spot, Spare, Place, Sector, Row, Column, Capacity
  <2>15. Serving'
    BY <2>3, <2>10, <2>13, <2>14 DEF Serving, Served, NoCall, Spare, Store!NoIntent
  <2>16. CutInv'
    BY <2>10, <2>15 DEF CutInv, CutModes, Ids, Absent, Store!NoIntent
  <2>17. CASE call.op = "format"
    <3>1. Store!Format
      BY <2>3, <2>10, <2>17 DEF Store!Format, NoCall
    <3> QED
      BY <2>16, <3>1 DEF CutSteps, Store!Next
  <2>18. CASE call.op = "init"
    <3>1. seen' = seen /\ intent' = intent
      BY <1>2, <2>10, <2>18 DEF Numbering, Fresh
    <3> QED
      BY <2>16, <2>18, <3>1, CutStutters
  <2> QED
    BY <1>2, <2>17, <2>18
<1> QED
  BY <1>3, <1>4

LEMMA CutMountsNew ==
  ASSUME CutInv, Observe, TypeInv', Blanked, MountForeign \/ MountNew \/ Mount,
         (Formatting /\ Wiped) \/ (call.op = "init" /\ Unmounted /\ Fresh)
  PROVE  CutInv' /\ CutSteps
<1>1. MountNew
  BY BlankMounts DEF MountForeign, Mount
<1>2. TypeInv /\ call \in Call /\ ~ready /\ call # NoCall /\ call.op \in {"init", "format"}
  BY DEF CutInv, TypeInv, TypeOK, Wiped, Unmounted, NoCall
<1>3. IInv
  <2>1. CASE Formatting /\ Wiped
    BY <1>2, <2>1 DEF IInv, Modes
  <2>2. CASE call.op = "init" /\ Unmounted
    <3>1. Initing
      BY <2>2 DEF Unmounted, NoCall, Initing, Mountable
    <3> QED
      BY <1>2, <3>1 DEF IInv, Modes
  <2> QED
    BY <2>1, <2>2
<1>4. IInv'
  BY <1>1, <1>3, ModesMount DEF IInv
<1>5. call' = [call EXCEPT !.phase = "index"] /\ ~ready'
  BY <1>1, <1>2 DEF MountNew, ram
<1>6. call'.op = call.op /\ call'.phase = "index"
  BY <1>2, <1>5 DEF Call
<1>7. (IInv => MakingFound)'
  BY MakingFact, PTL
<1>8. Indexing'
  BY <1>2, <1>4, <1>6, <1>7 DEF MakingFound
<1>9. ~ Mounted'
  BY <1>5 DEF Mounted
<1>10. seen' = seen /\ intent' = intent /\ CutSteps /\ (CutModes' => CutInv')
  BY <1>2, <1>9, CutQuiet
<1>11. CASE call.op = "format"
  BY <1>6, <1>8, <1>10, <1>11 DEF CutModes, Formatting
<1>12. CASE call.op = "init"
  <2>1. Fresh
    BY <1>12 DEF Wiped
  <2>2. Fresh'
    BY <1>10, <2>1 DEF Fresh, Store!NoIntent, Ids, Absent
  <2> QED
    BY <1>6, <1>8, <1>10, <1>12, <2>2 DEF CutModes, Numbering
<1> QED
  BY <1>2, <1>11, <1>12

(* fs_init finds the files where they are.                                 *)
LEMMA CutMountsOld ==
  ASSUME CutInv, Observe, TypeInv', call.op # "format", MountForeign \/ MountNew \/ Mount,
         NEW z, NEW c, NEW H, Sited(z, c, H)
  PROVE  CutInv' /\ CutSteps
<1>1. z = Zone(Spare) /\ Indexes /\ Laid(z, c, H) /\ \A id \in Ids : \E x : Holds(z, H, id, x) /\ Possible(id, x)
  BY DEF Sited
<1>2. head[Spare] = Erased /\ head[0] = 0 /\ \A s \in Sectors : head[s] \in {s, Erased}
  BY <1>1 DEF Indexes
<1>3. Erased # 0 /\ \A s \in Sectors : s \in Int /\ (s # Spare => ~ s >= SectorNum - 1)
  BY Sizes DEF Erased, Sectors, Spare
<1>4. Bad = {}
  BY <1>2, <1>3 DEF Bad
<1>5. Indexed(0) = {0}
  BY <1>2, <1>3, SpareIs DEF Indexed
<1>6. Indexed(Erased) # Sectors
  BY <1>2, <1>3, SpareIs DEF Indexed
<1>7. Mount
  BY <1>4, <1>6 DEF MountForeign, MountNew
<1>8. call' = NoCall /\ UNCHANGED flash
  BY <1>7 DEF Mount, Return
<1>9. ready' /\ free' = Frontier' /\ \E s \in {0} : ex' = Sector(s - 1)
  BY <1>5, <1>7 DEF Mount
<1>10. ex' = Spare
  <2>1. 0 - 1 = -1
    OBVIOUS
  <2> QED
    BY <1>9, <2>1, SpareIs
<1>11. z = Zone(Spare)' /\ Indexes'
  BY <1>1, <1>8 DEF flash, Zone, Spare, Indexes, Sectors, Erased, Capacity, Place, Sector, Row, Column
<1>12. free' = Spot(Spare, c)
  <2>1. (Zoned => LaidFrontier)'
    BY LaidFrontierFact, PTL
  <2>2. Zoned'
    BY DEF TypeInv, TypeOK, Zoned
  <2>3. z = Zone(ex)'
    BY <1>10, <1>11 DEF Zone, Spare
  <2>4. Laid(z, c, H)'
    BY <1>1, LaidNext
  <2>5. Frontier' = Spot(ex, c)'
    BY <2>1, <2>2, <2>3, <2>4 DEF LaidFrontier
  <2>6. Spot(ex, c)' = Spot(Spare, c)
    BY <1>10 DEF Spot, Place, Sector, Row, Column, Capacity
  <2> QED
    BY <1>9, <2>5, <2>6
<1> QED
  BY <1>1, <1>8, <1>9, <1>10, <1>11, <1>12, CutEnds

LEMMA CutMount ==
  ASSUME CutInv, Observe, TypeInv', MountForeign \/ MountNew \/ Mount
  PROVE  CutInv' /\ CutSteps
<1>1. call.phase = "mount"
  BY DEF MountForeign, MountNew, Mount
<1>2. Unmounted \/ (Formatting /\ Wiped)
  BY <1>1, CutCases
<1>3. CASE Formatting /\ Wiped
  BY <1>3, CutMountsNew DEF Wiped
<1>4. CASE Unmounted
  <2>1. call.op = "init" /\ ~ready
    BY <1>1, <1>4 DEF Unmounted, NoCall
  <2>2. CASE Fresh /\ Blanked
    BY <1>4, <2>1, <2>2, CutMountsNew
  <2>3. CASE Fresh /\ Bad # {}
    <3>1. MountForeign
      BY <2>3, BlankMounts DEF MountNew, Mount, Bad, Indexed
    <3>2. call' = NoCall /\ UNCHANGED flash /\ ~ready'
      BY <2>1, <3>1 DEF MountForeign, Return, ram
    <3> QED
      BY <2>3, <3>2, CutLost
  <2>4. ASSUME NEW z, NEW c, NEW H, Sited(z, c, H) PROVE CutInv' /\ CutSteps
    BY <2>1, <2>4, CutMountsOld
  <2> QED
    BY <1>4, <2>2, <2>3, <2>4 DEF Unmounted
<1> QED
  BY <1>2, <1>3, <1>4


-----------------------------------------------------------------------------
(* hal_fs_item_write and hal_fs_item_del.                                  *)

LEMMA HoldsMoved ==
  ASSUME NEW z, NEW H, NEW y, NEW G, NEW id, NEW x, Holds(z, H, id, x), UsedBy(y, G, id) = UsedBy(z, H, id),
         \A h \in UsedBy(z, H, id) : FileAt(y, h) = FileAt(z, h)
  PROVE  Holds(y, G, id, x)
BY DEF Holds

LEMMA HoldsOne ==
  ASSUME NEW z, NEW H, NEW id, NEW x, Holds(z, H, id, x), NEW h \in UsedBy(z, H, id)
  PROVE  UsedBy(z, H, id) = {h} /\ x = FileAt(z, h)
BY DEF Holds

LEMMA ContentThere ==
  ASSUME TypeInv, FileCalled
  PROVE  Content(call) # Absent /\ DOMAIN Content(call).data = 1 .. Frames(call.len)
<1>1. call.len # 0
  <2>1. PICK f \in Files : call.len = f.len
    BY DEF FileCalled
  <2>2. f.len > 0
    BY FsAssumption, Fields
  <2> QED
    BY <2>1, <2>2
<1>2. Content(call).len = call.len /\ Absent.len = 0
  BY DEF Content, Absent
<1>3. DOMAIN Content(call).data = 1 .. Frames(call.len)
  BY DEF Content
<1> QED
  BY <1>1, <1>2, <1>3

LEMMA IntentThere ==
  ASSUME Intended
  PROVE  intent # Store!NoIntent /\ intent.id = call.id
<1>1. intent.id = call.id /\ call.id \in Ids
  BY DEF Intended
<1>2. \A f \in Files : f.id # 0
  BY FsAssumption
<1>3. call.id # 0
  BY <1>1, <1>2 DEF Ids
<1> QED
  BY <1>1, <1>3 DEF Store!NoIntent

(* The call's own file may be gone, or begun.                              *)
LEMMA IntendedPossible ==
  ASSUME TypeInv, Intended
  PROVE  /\ Possible(call.id, Absent)
         /\ call.op = "write" => \A k \in 1 .. Frames(call.len) : Possible(call.id, Store!Beginning(Content(call), k))
<1>1. intent # Store!NoIntent /\ intent.id = call.id
  BY IntentThere
<1>2. Possible(call.id, Absent)
  BY <1>1 DEF Possible
<1>3. ASSUME call.op = "write", NEW k \in 1 .. Frames(call.len)
      PROVE  Possible(call.id, Store!Beginning(Content(call), k))
  <2>1. FileCalled
    BY <1>3 DEF TypeInv, CallInv
  <2>2. intent.new = Content(call)
    BY <1>3 DEF Intended
  <2>3. Content(call) # Absent /\ k \in DOMAIN Content(call).data
    BY <2>1, ContentThere
  <2> QED
    BY <1>1, <2>2, <2>3 DEF Possible
<1> QED
  BY <1>2, <1>3

LEMMA ServedNext ==
  ASSUME seen' = seen, intent' = intent \/ intent = Store!NoIntent, ready', ex' = Spare,
         NEW z, z = Zone(Spare)', head' = head, Indexes, NEW c, NEW H, Laid(z, c, H),
         \A id \in Ids : \E x : Holds(z, H, id, x) /\ Possible(id, x)
  PROVE  Served(z, c, H)'
<1>1. Indexes'
  BY DEF Indexes, Spare, Sectors, Erased
<1>2. \A id \in Ids : \E x : Holds(z, H, id, x) /\ Possible(id, x)'
  BY PossibleKept
<1>3. Sited(z, c, H)'
  BY <1>1, <1>2, SitedNext
<1> QED
  BY <1>3 DEF Served, Spare

LEMMA StrikingNext ==
  ASSUME NEW z, NEW c, NEW H, NEW m \in H, NEW j \in 0 .. Frames(z[m].len) - 1,
         call'.phase = "mark", Intended', Served(z, c, H)', free' = Spot(Spare, c), z[m].id = call'.id,
         call'.k = Frames(z[m].len) - j, call'.at = Place(Spare, m + j),
         IF j = 0 THEN z[m].pro = USED ELSE UsedBy(z, H, call'.id) = {},
         call'.op = "write" => c + Frames(call'.len) <= Capacity + 1
  PROVE  CutModes'
<1>1. Frames(z[m].len)' = Frames(z[m].len) /\ Frames(call.len)' = Frames(call'.len) /\ Capacity' = Capacity
  BY DEF Frames, Capacity
<1>2. Spot(Spare, c)' = Spot(Spare, c) /\ Place(Spare, m + j)' = Place(Spare, m + j)
  BY DEF Spot, Place, Spare, Sector, Row, Column, Capacity
<1>3. UsedBy(z, H, call.id)' = UsedBy(z, H, call'.id)
  BY DEF UsedBy, USED
<1>4. Striking(z, c, H, m, j)'
  BY <1>1, <1>2, <1>3 DEF Striking, USED
<1> QED
  BY <1>4 DEF CutModes

LEMMA AddingFirst ==
  ASSUME NEW z, NEW c, NEW H, call'.phase = "put", Intended', Served(z, c, H)', free' = Spot(Spare, c),
         call'.k = 1, UsedBy(z, H, call'.id) = {}, c + Frames(call'.len) <= Capacity + 1
  PROVE  CutModes'
<1>1. Frames(call.len)' = Frames(call'.len) /\ Capacity' = Capacity
  BY DEF Frames, Capacity
<1>2. Spot(Spare, c)' = Spot(Spare, c)
  BY DEF Spot, Place, Spare, Sector, Row, Column, Capacity
<1>3. UsedBy(z, H, call.id)' = UsedBy(z, H, call'.id)
  BY DEF UsedBy, USED
<1>4. Adding(z, c, H)'
  BY <1>1, <1>2, <1>3 DEF Adding
<1> QED
  BY <1>4 DEF CutModes

LEMMA AddingOn ==
  ASSUME NEW z, NEW c, NEW H, NEW d \in H, NEW k, call'.phase = "put", Intended', Served(z, c, H)',
         call'.k = k, k > 1, c = d + Frames(call.len), free' = Spot(Spare, d + k - 1),
         \A i \in 1 .. k - 1 : z[d + i - 1] = Frame(i),
         \A i \in k .. Frames(call.len) : z[d + i - 1] = FreeItem,
         call'.id = call.id, call'.len = call.len, call'.val = call.val
  PROVE  CutModes'
<1>1. Frames(call.len)' = Frames(call.len) /\ \A i : Frame(i)' = Frame(i)
  BY DEF Frames, Frame, FrameKind, USED, SF, MF_F, MF_C, MF_E
<1>2. Spot(Spare, d + k - 1)' = Spot(Spare, d + k - 1)
  BY DEF Spot, Place, Spare, Sector, Row, Column, Capacity
<1>3. Adding(z, c, H)'
  BY <1>1, <1>2 DEF Adding, FreeItem
<1> QED
  BY <1>3 DEF CutModes

(* A write or a delete begins, or goes on.                                 *)
LEMMA CutBegins ==
  ASSUME CutInv, Observe, TypeInv', Serving, call'.op \in {"write", "delete"}, call'.id \in Ids,
         NEW new \in {Content(f) : f \in Files} \cup {Absent}, (IF call'.op = "write" THEN Content(call') ELSE Absent) = new
  PROVE  seen' = seen /\ intent = Store!NoIntent /\ Intended' /\ CutSteps /\ (CutModes' => CutInv')
<1>1. call = NoCall /\ ~ Mounted' /\ intent = Store!NoIntent
  BY DEF Serving, Mounted
<1>2. seen' = seen /\ intent' = [id |-> call'.id, new |-> new]
  BY <1>1 DEF Observe
<1>3. Intended'
  BY <1>2 DEF Intended, Content, Frames, Absent, Ids
<1>4. (seen = [id \in Ids |-> seen[id]])' /\ (intent = Store!NoIntent \/ intent.id \in Ids)'
  BY <1>2 DEF CutInv, Ids
<1>5. CutSteps
  <2>1. Store!Begin(call'.id, new)
    BY <1>1, <1>2 DEF Store!Begin, NoCall
  <2>2. Store!Next
    BY <2>1 DEF Store!Next
  <2> QED
    BY <2>2 DEF CutSteps
<1> QED
  BY <1>1, <1>2, <1>3, <1>4, <1>5 DEF CutInv

LEMMA CutGoesOn ==
  ASSUME CutInv, Observe, TypeInv', Intended, call.op \in {"write", "delete"},
         call'.op = call.op, call'.id = call.id, call'.len = call.len, call'.val = call.val
  PROVE  seen' = seen /\ intent' = intent /\ Intended' /\ CutSteps /\ (CutModes' => CutInv')
<1>1. ~ Mounted' /\ call # NoCall
  BY DEF Mounted, NoCall
<1>2. seen' = seen /\ intent' = intent /\ CutSteps /\ (CutModes' => CutInv')
  BY <1>1, CutQuiet
<1>3. Content(call)' = Content(call)
  BY DEF Content, Frames
<1>4. Intended'
  BY <1>2, <1>3 DEF Intended, Absent, Ids
<1> QED
  BY <1>2, <1>4

(* A file is found, and all its frames are marked.                         *)
MarkOf(id, a, n) == [NoCall EXCEPT !.phase = "mark", !.id = id, !.at = a, !.k = n]

LEMMA MarkLaid ==
  ASSUME Zoned, NEW c, NEW H, Laid(Zone(ex), c, H), NEW id, NEW x, Holds(Zone(ex), H, id, x), Located(id) # {}
  PROVE  \E m \in H : /\ UsedBy(Zone(ex), H, id) = {m} /\ Zone(ex)[m].id = id /\ Zone(ex)[m].pro = USED
                      /\ Frames(Zone(ex)[m].len) \in Nat /\ Frames(Zone(ex)[m].len) >= 1 /\ m \in Nat
                      /\ Mark(id) = MarkOf(id, Place(ex, m), Frames(Zone(ex)[m].len))
<1>1. PICK m : UsedBy(Zone(ex), H, id) = {m}
  BY LocatedLaid DEF Holds
<1>2. m \in H /\ Zone(ex)[m].id = id /\ Zone(ex)[m].pro = USED
  BY <1>1 DEF UsedBy
<1>3. Frames(Zone(ex)[m].len) \in Nat /\ Frames(Zone(ex)[m].len) >= 1 /\ m \in 1 .. Capacity /\ m \in Nat
  BY <1>2, LaidFacts
<1>4. Located(id) = {m}
  BY <1>1, LocatedLaid
<1>5. (CHOOSE q \in Located(id) : TRUE) = m
  BY <1>4
<1>6. item[Addr(m)] = Zone(ex)[m] /\ Addr(m) = Place(ex, m)
  BY <1>3, ZoneItem
<1>7. Mark(id) = MarkOf(id, Place(ex, m), Frames(Zone(ex)[m].len))
  BY <1>5, <1>6 DEF Mark, MarkOf
<1> QED
  BY <1>1, <1>2, <1>3, <1>7

LEMMA CutWrite ==
  ASSUME CutInv, Observe, TypeInv', NEW f \in Files, Write(f)
  PROVE  CutInv' /\ CutSteps
<1>1. call.op = "none" /\ ready /\ UNCHANGED <<flash, ram>> /\ TypeInv
  BY DEF Write, Calling, CutInv
<1>2. Serving
  BY <1>1, CutCases DEF Unmounted
<1>3. CASE ~ Fits(f)
  <2>1. call' = NoCall
    BY <1>3 DEF Write, Return
  <2> QED
    BY <1>1, <1>2, <2>1, CutStays
<1>4. CASE Fits(f)
  <2>1. PICK z, c, H : Served(z, c, H) /\ free = Spot(Spare, c)
    BY <1>2 DEF Serving
  <2>2. /\ ex = Spare /\ z = Zone(Spare) /\ z = Zone(ex) /\ Indexes /\ Laid(z, c, H)
        /\ \A id \in Ids : \E x : Holds(z, H, id, x) /\ Possible(id, x)
    BY <2>1 DEF Served, Sited
  <2>3. ready' /\ ex' = Spare /\ free' = Spot(Spare, c) /\ head' = head /\ z = Zone(Spare)' /\ Zoned
    BY <1>1, <2>1, <2>2 DEF ram, flash, Zone, Spare, Capacity, Place, Sector, Row, Column, TypeInv, TypeOK, Zoned
  <2>4. f.id \in Ids /\ f.len \in Nat
    BY FsAssumption, Fields DEF Ids
  <2>5. c + Frames(f.len) <= Capacity + 1
    <3>1. c \in 1 .. Capacity + 1 /\ Capacity \in Nat
      BY <2>2, CapacityIs DEF Laid
    <3>2. f.len <= DataLen * (Capacity + 1 - c)
      BY <1>4, <2>1, <2>2, <3>1, SpareIs, FreeSizeIs DEF Fits
    <3>3. Capacity + 1 - c \in Nat /\ Frames(f.len) \in Nat
      BY <2>4, <3>1, FramesOf
    <3>4. Frames(f.len) <= Capacity + 1 - c
      BY <2>4, <3>2, <3>3, FramesFit
    <3> QED
      BY <3>1, <3>3, <3>4
  <2>6. call' = Begun(f)
    BY <1>4 DEF Write, Enter
  <2>7. PICK x : Holds(z, H, f.id, x) /\ Possible(f.id, x)
    BY <2>2, <2>4
  <2>8. ASSUME call'.op = "write", call'.id = f.id, call'.len = f.len, call'.val = f.val
        PROVE  /\ Intended' /\ CutSteps /\ (CutModes' => CutInv') /\ Served(z, c, H)'
               /\ c + Frames(call'.len) <= Capacity + 1
    <3>1. Content(call') = Content(f) /\ Frames(call'.len) = Frames(f.len)
      BY <2>8 DEF Content, Frames
    <3>2. seen' = seen /\ intent = Store!NoIntent /\ Intended' /\ CutSteps /\ (CutModes' => CutInv')
      BY <1>2, <2>4, <2>8, <3>1, CutBegins
    <3>3. Served(z, c, H)'
      BY <2>2, <2>3, <3>2, ServedNext
    <3> QED
      BY <2>5, <3>1, <3>2, <3>3
  <2>9. CASE Located(f.id) = {}
    <3>1. /\ call'.phase = "put" /\ call'.k = 1 /\ call'.len = f.len
          /\ call'.op = "write" /\ call'.id = f.id /\ call'.val = f.val
      BY <2>6, <2>9 DEF Begun, NoCall
    <3>2. UsedBy(z, H, call'.id) = {}
      <4> SUFFICES ASSUME UsedBy(z, H, f.id) # {} PROVE FALSE
        BY <3>1
      <4>1. PICK p : UsedBy(z, H, f.id) = {p}
        BY <2>7 DEF Holds
      <4> QED
        BY <2>2, <2>3, <2>9, <4>1, LocatedLaid
    <3> QED
      BY <2>3, <2>8, <3>1, <3>2, AddingFirst
  <2>10. CASE Located(f.id) # {}
    <3>1. PICK m \in H : /\ z[m].id = f.id /\ z[m].pro = USED
                         /\ Frames(z[m].len) \in Nat /\ Frames(z[m].len) >= 1 /\ m \in Nat
                         /\ Mark(f.id) = MarkOf(f.id, Place(ex, m), Frames(z[m].len))
      BY <2>2, <2>3, <2>7, <2>10, MarkLaid
    <3>2. Mark(f.id).k # 0
      BY <3>1 DEF NoCall, MarkOf
    <3>3. call' = [Mark(f.id) EXCEPT !.op = "write", !.len = f.len, !.val = f.val]
      BY <2>6, <2>10, <3>2 DEF Begun
    <3>4. /\ call'.phase = "mark" /\ call'.k = Frames(z[m].len) /\ call'.len = f.len /\ call'.at = Place(Spare, m)
          /\ call'.op = "write" /\ call'.id = f.id /\ call'.val = f.val
      BY <2>2, <3>1, <3>3 DEF NoCall, MarkOf
    <3>5. 0 \in 0 .. Frames(z[m].len) - 1 /\ Frames(z[m].len) = Frames(z[m].len) - 0 /\ m + 0 = m
      BY <3>1
    <3>6. PICK j : j = 0
      OBVIOUS
    <3>7. CutModes'
      BY <2>3, <2>8, <3>1, <3>4, <3>5, <3>6, StrikingNext
    <3> QED
      BY <2>8, <3>4, <3>7
  <2> QED
    BY <2>9, <2>10
<1> QED
  BY <1>3, <1>4

LEMMA CutDelete ==
  ASSUME CutInv, Observe, TypeInv', NEW id \in Ids, Delete(id)
  PROVE  CutInv' /\ CutSteps
<1>1. call.op = "none" /\ ready /\ UNCHANGED <<flash, ram>> /\ TypeInv
  BY DEF Delete, Calling, CutInv
<1>2. Serving
  BY <1>1, CutCases DEF Unmounted
<1>3. CASE Located(id) = {}
  <2>1. call' = NoCall
    BY <1>3 DEF Delete, Return
  <2> QED
    BY <1>1, <1>2, <2>1, CutStays
<1>4. CASE Located(id) # {}
  <2>1. PICK z, c, H : Served(z, c, H) /\ free = Spot(Spare, c)
    BY <1>2 DEF Serving
  <2>2. /\ ex = Spare /\ z = Zone(Spare) /\ z = Zone(ex) /\ Indexes /\ Laid(z, c, H)
        /\ \A i \in Ids : \E x : Holds(z, H, i, x) /\ Possible(i, x)
    BY <2>1 DEF Served, Sited
  <2>3. ready' /\ ex' = Spare /\ free' = Spot(Spare, c) /\ head' = head /\ z = Zone(Spare)' /\ Zoned
    BY <1>1, <2>1, <2>2 DEF ram, flash, Zone, Spare, Capacity, Place, Sector, Row, Column, TypeInv, TypeOK, Zoned
  <2>7. PICK x : Holds(z, H, id, x) /\ Possible(id, x)
    BY <2>2
  <2>8. PICK m \in H : /\ z[m].id = id /\ z[m].pro = USED
                       /\ Frames(z[m].len) \in Nat /\ Frames(z[m].len) >= 1 /\ m \in Nat
                       /\ Mark(id) = MarkOf(id, Place(ex, m), Frames(z[m].len))
    BY <1>4, <2>2, <2>3, <2>7, MarkLaid
  <2>9. Mark(id).k # 0
    BY <2>8 DEF NoCall, MarkOf
  <2>10. call' = [Mark(id) EXCEPT !.op = "delete"]
    BY <1>4, <2>9 DEF Delete, Enter
  <2>11. /\ call'.phase = "mark" /\ call'.k = Frames(z[m].len) /\ call'.at = Place(Spare, m)
         /\ call'.op = "delete" /\ call'.id = id
    BY <2>2, <2>8, <2>10 DEF NoCall, MarkOf
  <2>12. 0 \in 0 .. Frames(z[m].len) - 1 /\ Frames(z[m].len) = Frames(z[m].len) - 0 /\ m + 0 = m
    BY <2>8
  <2>13. PICK j : j = 0
    OBVIOUS
  <2>14. seen' = seen /\ intent = Store!NoIntent /\ Intended' /\ CutSteps /\ (CutModes' => CutInv')
    <3>1. PICK new : new = Absent
      OBVIOUS
    <3> QED
      BY <1>2, <2>11, <3>1, CutBegins
  <2>15. Served(z, c, H)'
    BY <2>2, <2>3, <2>14, ServedNext
  <2>16. CutModes'
    BY <2>3, <2>8, <2>11, <2>12, <2>13, <2>14, <2>15, StrikingNext
  <2> QED
    BY <2>14, <2>16
<1> QED
  BY <1>3, <1>4


(* One item of the zone is written.                                        *)
LEMMA SparePut ==
  ASSUME TypeOK, NEW q \in 1 .. Capacity, NEW i1, item' = [item EXCEPT ![Place(Spare, q)] = i1]
  PROVE  \A p \in 1 .. Capacity : Zone(Spare)'[p] = IF p = q THEN i1 ELSE Zone(Spare)[p]
<1> TAKE p \in 1 .. Capacity
<1>1. p \in 1 .. SectorNum * Items /\ q \in 1 .. SectorNum * Items /\ Spare \in Sectors
  BY CapacityIs, Sizes, SpareIs
<1>2. p \in Int /\ q \in Int /\ Spare \in Int /\ (Place(Spare, p) = Place(Spare, q) <=> p = q)
  BY <1>1, PlaceInjective, SpareIs
<1>3. Place(Spare, p) \in Addresses /\ Place(Spare, q) \in Addresses
  BY <1>2, PlaceIn
<1>4. item'[Place(Spare, p)] = IF p = q THEN i1 ELSE item[Place(Spare, p)]
  BY <1>2, <1>3 DEF TypeOK
<1>5. Zone(Spare)'[p] = item'[Place(Spare, p)] /\ Zone(Spare)[p] = item[Place(Spare, p)]
  BY DEF Zone, Spare, Place, Capacity, Sector, Row, Column
<1> QED
  BY <1>4, <1>5

(* A frame is marked: from the first on the file is gone.                  *)
LEMMA CutStrikes ==
  ASSUME CutInv, call.phase = "mark", FlashWrite, NEW z, NEW c, NEW H, NEW m, NEW j, Striking(z, c, H, m, j),
         NEW y, y = Zone(Spare)'
  PROVE  /\ head' = head /\ Laid(y, c, H) /\ UsedBy(y, H, call.id) = {}
         /\ \A id \in Ids : \E x : Holds(y, H, id, x) /\ Possible(id, x)
         /\ y[m].id = z[m].id /\ y[m].len = z[m].len
<1>1. /\ TypeInv /\ TypeOK /\ Intended /\ m \in H /\ z[m].id = call.id /\ j \in 0 .. Frames(z[m].len) - 1
      /\ call.at = Place(Spare, m + j) /\ z = Zone(Spare) /\ Laid(z, c, H)
      /\ \A id \in Ids : \E x : Holds(z, H, id, x) /\ Possible(id, x)
      /\ IF j = 0 THEN z[m].pro = USED ELSE UsedBy(z, H, call.id) = {}
  BY DEF CutInv, TypeInv, Striking, Served, Sited
<1>2. m + j \in 1 .. Capacity /\ m \in 1 .. Capacity
  <2>1. /\ m \in Nat /\ Frames(z[m].len) \in Nat /\ m \in 1 .. Capacity
        /\ \A k \in 1 .. Frames(z[m].len) : m + k - 1 \in 1 .. Capacity
    BY <1>1, LaidFacts
  <2>2. j + 1 \in 1 .. Frames(z[m].len) /\ m + (j + 1) - 1 = m + j
    BY <1>1, <2>1
  <2> QED
    BY <2>1, <2>2
<1>3. PICK q \in 1 .. Capacity : q = m + j
  BY <1>2
<1>4. PICK i1 : i1 = [z[q] EXCEPT !.pro = DELETED]
  OBVIOUS
<1>5. head' = head /\ item' = [item EXCEPT ![Place(Spare, q)] = i1]
  <2>1. head' = head /\ item' = [item EXCEPT ![call.at] = [item[call.at] EXCEPT !.pro = DELETED]]
    BY DEF FlashWrite, Put
  <2>2. z[q] = item[Place(Spare, q)]
    BY <1>1 DEF Zone
  <2> QED
    BY <1>1, <1>3, <1>4, <2>1, <2>2
<1>6. \A p \in 1 .. Capacity : y[p] = IF p = q THEN i1 ELSE z[p]
  <2>1. \A p \in 1 .. Capacity : Zone(Spare)'[p] = IF p = q THEN i1 ELSE Zone(Spare)[p]
    BY <1>1, <1>5, SparePut
  <2> QED
    BY <1>1, <2>1
<1>7. Struck(z, y, m + j)
  BY <1>3, <1>4, <1>6 DEF Struck
<1>8. /\ Laid(y, c, H) /\ \A h \in H : FileAt(y, h) = FileAt(z, h) /\ y[h].id = z[h].id
      /\ \A id : UsedBy(y, H, id) = IF j = 0 THEN UsedBy(z, H, id) \ {m} ELSE UsedBy(z, H, id)
  BY <1>1, <1>7, StruckLaid
<1>9. UsedBy(y, H, call.id) = {}
  <2>1. CASE j = 0
    <3>1. m \in UsedBy(z, H, call.id)
      BY <1>1, <2>1 DEF UsedBy
    <3>2. PICK x : Holds(z, H, call.id, x)
      BY <1>1 DEF Intended
    <3>3. UsedBy(z, H, call.id) = {m}
      BY <3>1, <3>2, HoldsOne
    <3> QED
      BY <1>8, <2>1, <3>3
  <2>2. CASE j # 0
    BY <1>1, <1>8, <2>2
  <2> QED
    BY <2>1, <2>2
<1>10. ASSUME NEW id \in Ids PROVE \E x : Holds(y, H, id, x) /\ Possible(id, x)
  <2>1. CASE id = call.id
    <3>1. Holds(y, H, id, Absent)
      BY <1>9, <2>1 DEF Holds
    <3>2. Possible(id, Absent)
      BY <1>1, <2>1, IntendedPossible
    <3> QED
      BY <3>1, <3>2
  <2>2. CASE id # call.id
    <3>1. PICK x : Holds(z, H, id, x) /\ Possible(id, x)
      BY <1>1
    <3>2. m \notin UsedBy(z, H, id)
      BY <1>1, <2>2 DEF UsedBy
    <3>3. UsedBy(y, H, id) = UsedBy(z, H, id)
      BY <1>8, <3>2
    <3>4. \A h \in UsedBy(z, H, id) : FileAt(y, h) = FileAt(z, h)
      BY <1>8 DEF UsedBy
    <3>5. Holds(y, H, id, x)
      BY <3>1, <3>3, <3>4, HoldsMoved
    <3> QED
      BY <3>1, <3>5
  <2> QED
    BY <2>1, <2>2
<1>11. y[m].len = z[m].len
  <2>1. z[m] \in Item
    BY <1>1, <1>2 DEF Laid
  <2>2. \A i2 \in Item : [i2 EXCEPT !.pro = DELETED].len = i2.len
    BY DEF Item
  <2>3. CASE m = m + j
    <3>1. y[m] = [z[m] EXCEPT !.pro = DELETED]
      BY <1>2, <1>7, <2>3 DEF Struck
    <3> QED
      BY <2>1, <2>2, <3>1
  <2>4. CASE m # m + j
    BY <1>2, <1>7, <2>4 DEF Struck
  <2> QED
    BY <2>3, <2>4
<1> QED
  BY <1>1, <1>5, <1>8, <1>9, <1>10, <1>11

LEMMA CutMark ==
  ASSUME CutInv, Observe, TypeInv', MarkFrame
  PROVE  CutInv' /\ CutSteps
<1>1. /\ TypeInv /\ call \in Call /\ call.phase = "mark" /\ call.op \in {"write", "delete"} /\ call.k >= 1
      /\ call.k \in Nat /\ FlashWrite /\ UNCHANGED ram
  BY DEF CutInv, TypeInv, TypeOK, CallInv, MarkFrame, Call
<1>2. PICK z, c, H, m, j : Striking(z, c, H, m, j)
  BY <1>1, CutCases
<1>3. PICK y : y = Zone(Spare)'
  OBVIOUS
<1>4. /\ Intended /\ m \in H /\ z[m].id = call.id /\ j \in 0 .. Frames(z[m].len) - 1
      /\ call.k = Frames(z[m].len) - j /\ call.at = Place(Spare, m + j)
      /\ ready' /\ ex' = Spare /\ free' = Spot(Spare, c) /\ Indexes /\ Laid(z, c, H)
      /\ call.op = "write" => c + Frames(call.len) <= Capacity + 1
  BY <1>1, <1>2 DEF Striking, Served, Sited, ram
<1>5. /\ head' = head /\ Laid(y, c, H) /\ UsedBy(y, H, call.id) = {}
      /\ \A id \in Ids : \E x : Holds(y, H, id, x) /\ Possible(id, x)
      /\ y[m].id = z[m].id /\ y[m].len = z[m].len
  BY <1>1, <1>2, <1>3, CutStrikes
<1>6. PICK n \in Nat : n = Frames(z[m].len) /\ j \in 0 .. n - 1 /\ call.k = n - j /\ m \in Nat
  BY <1>4, LaidFacts
<1>7. CASE call.k > 1
  <2>1. call' = [call EXCEPT !.at = After(@), !.k = @ - 1]
    BY <1>7 DEF MarkFrame
  <2>2. PICK i : i = j + 1
    OBVIOUS
  <2>3. m + j \in Int /\ m + j + 1 = m + i /\ i \in 0 .. n - 1 /\ i # 0 /\ call.k - 1 = n - i
    BY <1>6, <1>7, <2>2
  <2>4. /\ call'.phase = "mark" /\ call'.op = call.op /\ call'.k = n - i /\ call'.len = call.len
        /\ call'.at = Place(Spare, m + i) /\ call'.id = call.id /\ call'.val = call.val
    BY <1>1, <1>4, <2>1, <2>3, SpareIs, PlaceAfter DEF Call
  <2>5. seen' = seen /\ intent' = intent /\ Intended' /\ CutSteps /\ (CutModes' => CutInv')
    BY <1>1, <1>4, <2>4, CutGoesOn
  <2>6. Served(y, c, H)'
    BY <1>3, <1>4, <1>5, <2>5, ServedNext
  <2>7. CutModes'
    BY <1>4, <1>5, <1>6, <2>3, <2>4, <2>5, <2>6, StrikingNext
  <2> QED
    BY <2>5, <2>7
<1>8. CASE ~ call.k > 1 /\ call.op = "delete"
  <2>1. call' = NoCall
    BY <1>8 DEF MarkFrame, Return
  <2>2. Indexes'
    BY <1>4, <1>5 DEF Indexes, Spare, Sectors, Erased
  <2> QED
    BY <1>3, <1>4, <1>5, <1>8, <2>1, <2>2, CutEnds
<1>9. CASE ~ call.k > 1 /\ call.op = "write"
  <2>1. call' = [call EXCEPT !.phase = "put", !.at = NoCall.at] /\ call.k = 1
    BY <1>1, <1>9 DEF MarkFrame
  <2>2. /\ call'.phase = "put" /\ call'.op = call.op /\ call'.k = 1 /\ call'.len = call.len
        /\ call'.id = call.id /\ call'.val = call.val
    BY <1>1, <2>1 DEF Call
  <2>3. seen' = seen /\ intent' = intent /\ Intended' /\ CutSteps /\ (CutModes' => CutInv')
    BY <1>1, <1>4, <2>2, CutGoesOn
  <2>4. Served(y, c, H)'
    BY <1>3, <1>4, <1>5, <2>3, ServedNext
  <2>5. CutModes'
    BY <1>4, <1>5, <1>9, <2>2, <2>3, <2>4, AddingFirst
  <2> QED
    BY <2>3, <2>5
<1> QED
  BY <1>1, <1>7, <1>8, <1>9

(* A frame is put: from the first on the file is begun.                    *)
LEMMA CutAdds ==
  ASSUME Survivable, CutInv, call.phase = "put", FlashWrite, NEW z, NEW c, NEW H, Adding(z, c, H),
         NEW y, y = Zone(Spare)'
  PROVE  \E e, G, d : /\ head' = head /\ d \in G /\ e = d + Frames(call.len) /\ d + call.k - 1 \in 1 .. Capacity
                      /\ free = Spot(Spare, d + call.k - 1) /\ Laid(y, e, G)
                      /\ \A id \in Ids : \E x : Holds(y, G, id, x) /\ Possible(id, x)
                      /\ \A i \in 1 .. call.k : y[d + i - 1] = Frame(i)
                      /\ \A i \in call.k + 1 .. Frames(call.len) : y[d + i - 1] = FreeItem
<1>1. /\ TypeInv /\ TypeOK /\ Intended /\ z = Zone(Spare) /\ Laid(z, c, H) /\ ex = Spare
      /\ \A id \in Ids : \E x : Holds(z, H, id, x) /\ Possible(id, x)
      /\ call.op = "write" /\ FileCalled
  BY DEF CutInv, TypeInv, CallInv, Adding, Served, Sited
<1>m. PICK n \in Nat : n = Frames(call.len)
  BY <1>1, FramesOf DEF TypeOK, Call
<1>k. PICK k \in 1 .. n : k = call.k
  BY <1>1, <1>m DEF TypeInv, CallInv
<1>n. n \in Nat /\ k \in 1 .. n /\ k \in Nat /\ n = Frames(call.len) /\ k = call.k
  BY <1>m, <1>k
<1>2. Frames(call.len) < Items
  BY <1>1 DEF FileCalled, Survivable
<1>0. c \in 1 .. Capacity + 1 /\ Capacity \in Nat
  BY <1>1, CapacityIs DEF Laid
<1>3. ASSUME NEW q \in 1 .. Capacity, free = Spot(Spare, q), z[q] = FreeItem
      PROVE  head' = head /\ Grown(z, y, q, k)
  <2>1. free = Place(Spare, q) /\ item[free] = FreeItem
    BY <1>1, <1>3, <1>0 DEF Spot, Zone
  <2>2. PICK i1 \in Item : i1 = Frame(call.k)
    BY <1>1, FrameTyped
  <2>3. ProgramData(ProgramHead(FreeItem, i1), i1) = i1
    BY ItemProgrammed
  <2>4. head' = head /\ item' = [item EXCEPT ![Place(Spare, q)] = i1]
    BY <2>1, <2>2, <2>3 DEF FlashWrite, Put
  <2> QED
    <3>1. \A p \in 1 .. Capacity : Zone(Spare)'[p] = IF p = q THEN i1 ELSE Zone(Spare)[p]
      BY <1>1, <2>4, SparePut
    <3> QED
      BY <1>1, <1>n, <2>2, <2>4, <3>1 DEF Grown
<1>4. CASE /\ call.k = 1 /\ UsedBy(z, H, call.id) = {} /\ free = Spot(Spare, c)
           /\ c + Frames(call.len) <= Capacity + 1
  <2>1. c \in 1 .. Capacity /\ c >= c /\ c + 1 - 1 = c /\ k = 1
    BY <1>0, <1>n, <1>4
  <2>2. z[c] = FreeItem
    BY <1>1, <2>1 DEF Laid
  <2>3. head' = head /\ Grown(z, y, c, 1)
    BY <1>3, <1>4, <2>1, <2>2
  <2>4. /\ Laid(y, c + Frames(call.len), H \cup {c}) /\ \A h \in H : FileAt(y, h) = FileAt(z, h)
        /\ \A id : UsedBy(y, H \cup {c}, id) = IF id = call.id THEN UsedBy(z, H, id) \cup {c} ELSE UsedBy(z, H, id)
        /\ y[c] = Frame(1) /\ \A i \in 2 .. Frames(call.len) : y[c + i - 1] = FreeItem
    <3>1. Added(z, y, c, H)
      BY <1>1, <1>2, <1>4, <2>3, GrownLaid
    <3> QED
      BY <3>1 DEF Added
  <2>5. /\ \A i \in 1 .. 1 : y[c + i - 1] = Frame(i)
        /\ \A i \in 1 + 1 .. Frames(call.len) : y[c + i - 1] = FreeItem
    <3>1. \A i \in 1 .. 1 : i = 1
      OBVIOUS
    <3>2. 1 + 1 = 2
      OBVIOUS
    <3> QED
      BY <2>1, <2>4, <3>1, <3>2
  <2>6. FileAt(y, c) = Store!Beginning(Content(call), 1)
    <3>1. 1 \in 1 .. Frames(call.len) /\ c \in Nat
      BY <1>n, <2>1
    <3> QED
      BY <1>1, <2>5, <3>1, BeginningAt
  <2>7. ASSUME NEW id \in Ids PROVE \E x : Holds(y, H \cup {c}, id, x) /\ Possible(id, x)
    <3>1. CASE id = call.id
      <4>1. UsedBy(y, H \cup {c}, id) = {c}
        BY <1>4, <2>4, <3>1
      <4>2. 1 \in 1 .. Frames(call.len)
        BY <1>n, <2>1
      <4>3. Possible(id, FileAt(y, c))
        BY <1>1, <2>6, <3>1, <4>2, IntendedPossible
      <4> QED
        BY <4>1, <4>3 DEF Holds
    <3>2. CASE id # call.id
      <4>1. PICK x : Holds(z, H, id, x) /\ Possible(id, x)
        BY <1>1
      <4>2. UsedBy(y, H \cup {c}, id) = UsedBy(z, H, id)
        BY <2>4, <3>2
      <4>3. \A h \in UsedBy(z, H, id) : FileAt(y, h) = FileAt(z, h)
        BY <2>4 DEF UsedBy
      <4>4. Holds(y, H \cup {c}, id, x)
        BY <4>1, <4>2, <4>3, HoldsMoved
      <4> QED
        BY <4>1, <4>4
    <3> QED
      BY <3>1, <3>2
  <2>8. PICK e : e = c + Frames(call.len)
    OBVIOUS
  <2>9. PICK G : G = H \cup {c}
    OBVIOUS
  <2>10. /\ head' = head /\ c \in G /\ e = c + Frames(call.len) /\ c + call.k - 1 \in 1 .. Capacity
         /\ free = Spot(Spare, c + call.k - 1) /\ Laid(y, e, G)
    BY <1>4, <2>1, <2>3, <2>4, <2>8, <2>9
  <2>11. \A id \in Ids : \E x : Holds(y, G, id, x) /\ Possible(id, x)
    BY <2>7, <2>9
  <2>12. /\ \A i \in 1 .. call.k : y[c + i - 1] = Frame(i)
         /\ \A i \in call.k + 1 .. Frames(call.len) : y[c + i - 1] = FreeItem
    BY <1>4, <2>5
  <2> QED
    BY <2>10, <2>11, <2>12
<1>5. ASSUME NEW d \in H, call.k > 1, c = d + Frames(call.len), free = Spot(Spare, d + call.k - 1),
             \A i \in 1 .. call.k - 1 : z[d + i - 1] = Frame(i),
             \A i \in call.k .. Frames(call.len) : z[d + i - 1] = FreeItem
      PROVE  /\ head' = head /\ d + call.k - 1 \in 1 .. Capacity /\ Laid(y, c, H)
             /\ \A id \in Ids : \E x : Holds(y, H, id, x) /\ Possible(id, x)
             /\ \A i \in 1 .. call.k : y[d + i - 1] = Frame(i)
             /\ \A i \in call.k + 1 .. Frames(call.len) : y[d + i - 1] = FreeItem
  <2>1. k \in 2 .. n /\ 1 \in 1 .. k - 1 /\ k \in k .. n
    BY <1>n, <1>5
  <2>2. d \in Nat /\ d + 1 - 1 = d
    BY <1>1, LaidFacts
  <2>3. z[d] = Frame(1)
    BY <1>n, <1>5, <2>1, <2>2
  <2>4. z[d].len = call.len /\ z[d].id = call.id /\ z[d].pro = USED
    BY <2>3 DEF Frame
  <2>5. d + k - 1 \in 1 .. Capacity
    <3>1. \A i \in 1 .. Frames(z[d].len) : d + i - 1 \in 1 .. Capacity
      BY <1>1, LaidFacts
    <3> QED
      BY <1>n, <2>4, <3>1
  <2>6. z[d + k - 1] = FreeItem
    BY <1>n, <1>5, <2>1
  <2>7. head' = head /\ Grown(z, y, d + k - 1, k)
    BY <1>3, <1>5, <1>n, <2>5, <2>6
  <2>8. k \in 2 .. Frames(call.len)
    BY <1>n, <2>1
  <2>9. /\ Laid(y, c, H) /\ \A h \in H : h # d => FileAt(y, h) = FileAt(z, h)
        /\ \A id : UsedBy(y, H, id) = UsedBy(z, H, id)
        /\ y[d + k - 1] = Frame(k)
        /\ \A i \in 1 .. Frames(call.len) : i # k => y[d + i - 1] = z[d + i - 1]
    BY <1>1, <2>3, <2>7, <2>8, WrittenLaid
  <2>10. \A i \in 1 .. k : y[d + i - 1] = Frame(i)
    <3> TAKE i \in 1 .. k
    <3>1. i \in 1 .. n /\ (i = k \/ i \in 1 .. k - 1)
      BY <1>n
    <3> QED
      BY <1>5, <1>n, <2>9, <3>1
  <2>11. \A i \in k + 1 .. n : y[d + i - 1] = FreeItem
    <3> TAKE i \in k + 1 .. n
    <3>1. i \in 1 .. n /\ i # k /\ i \in k .. n
      BY <1>n
    <3> QED
      BY <1>5, <1>n, <2>9, <3>1
  <2>12. FileAt(y, d) = Store!Beginning(Content(call), k)
    <3>1. k \in 1 .. Frames(call.len)
      BY <1>n
    <3> QED
      BY <1>1, <1>n, <2>2, <2>10, <2>11, <3>1, BeginningAt
  <2>13. ASSUME NEW id \in Ids PROVE \E x : Holds(y, H, id, x) /\ Possible(id, x)
    <3>1. PICK x : Holds(z, H, id, x) /\ Possible(id, x)
      BY <1>1
    <3>2. CASE id = call.id
      <4>1. d \in UsedBy(z, H, id)
        BY <2>4, <3>2 DEF UsedBy
      <4>2. UsedBy(y, H, id) = {d}
        BY <2>9, <3>1, <4>1, HoldsOne
      <4>3. k \in 1 .. Frames(call.len)
        BY <1>n
      <4>4. Possible(id, FileAt(y, d))
        BY <1>1, <2>12, <3>2, <4>3, IntendedPossible
      <4> QED
        BY <4>2, <4>4 DEF Holds
    <3>3. CASE id # call.id
      <4>1. d \notin UsedBy(z, H, id)
        BY <2>4, <3>3 DEF UsedBy
      <4>2. \A h \in UsedBy(z, H, id) : FileAt(y, h) = FileAt(z, h)
        BY <2>9, <4>1 DEF UsedBy
      <4>3. Holds(y, H, id, x)
        BY <2>9, <3>1, <4>2, HoldsMoved
      <4> QED
        BY <3>1, <4>3
    <3> QED
      BY <3>2, <3>3
  <2> QED
    BY <1>n, <2>5, <2>7, <2>9, <2>10, <2>11, <2>13
<1> QED
  BY <1>4, <1>5 DEF Adding


LEMMA CutPut ==
  ASSUME Survivable, CutInv, Observe, TypeInv', PutFrame
  PROVE  CutInv' /\ CutSteps
<1>1. /\ TypeInv /\ call \in Call /\ call.phase = "put" /\ call.op = "write" /\ FlashWrite
      /\ free' = NextFree /\ UNCHANGED <<ready, ex>> /\ call.k \in 1 .. Frames(call.len)
  BY DEF CutInv, TypeInv, TypeOK, CallInv, PutFrame
<1>2. PICK z, c, H : Adding(z, c, H)
  BY <1>1, CutCases
<1>3. PICK y : y = Zone(Spare)'
  OBVIOUS
<1>4. Intended /\ ready' /\ ex = Spare /\ ex' = Spare /\ Indexes
  BY <1>1, <1>2 DEF Adding, Served, Sited
<1>5. PICK e, G, d : /\ head' = head /\ d \in G /\ e = d + Frames(call.len) /\ d + call.k - 1 \in 1 .. Capacity
                     /\ free = Spot(Spare, d + call.k - 1) /\ Laid(y, e, G)
                     /\ \A id \in Ids : \E x : Holds(y, G, id, x) /\ Possible(id, x)
                     /\ \A i \in 1 .. call.k : y[d + i - 1] = Frame(i)
                     /\ \A i \in call.k + 1 .. Frames(call.len) : y[d + i - 1] = FreeItem
  BY <1>1, <1>2, <1>3, CutAdds
<1>6. d \in Nat
  BY <1>5, LaidFacts
<1>m. PICK n \in Nat : n = Frames(call.len)
  BY <1>1, FramesOf DEF Call
<1>k. PICK k \in 1 .. n : k = call.k
  BY <1>1, <1>m
<1>7. free' = Spot(Spare, d + k)
  <2>1. PICK p \in 1 .. Capacity : p = d + k - 1
    BY <1>5, <1>k
  <2>2. p + 1 = d + k
    BY <1>6, <1>k, <2>1
  <2>3. NextFree = Spot(ex, p + 1)
    BY <1>4, <1>5, <1>k, <2>1, SpotNext, SpareIs
  <2> QED
    BY <1>1, <1>4, <2>2, <2>3
<1>8. CASE k < n
  <2>1. call' = [call EXCEPT !.k = @ + 1]
    BY <1>8, <1>k, <1>m DEF PutFrame
  <2>2. PICK i : i = k + 1
    OBVIOUS
  <2>3. i > 1 /\ i - 1 = k /\ d + i - 1 = d + k
    BY <1>6, <1>k, <2>2
  <2>4. /\ call'.phase = "put" /\ call'.op = call.op /\ call'.k = i /\ call'.len = call.len
        /\ call'.id = call.id /\ call'.val = call.val
    BY <1>1, <1>k, <2>1, <2>2 DEF Call
  <2>5. seen' = seen /\ intent' = intent /\ Intended' /\ CutSteps /\ (CutModes' => CutInv')
    BY <1>1, <1>4, <2>4, CutGoesOn
  <2>6. Served(y, e, G)'
    BY <1>3, <1>4, <1>5, <2>5, ServedNext
  <2>7. \A j \in 1 .. i - 1 : y[d + j - 1] = Frame(j)
    BY <1>5, <1>k, <2>3
  <2>8. \A j \in i .. Frames(call.len) : y[d + j - 1] = FreeItem
    BY <1>5, <1>k, <2>2
  <2>9. free' = Spot(Spare, d + i - 1)
    BY <1>7, <2>3
  <2>10. CutModes'
    BY <1>5, <2>3, <2>4, <2>5, <2>6, <2>7, <2>8, <2>9, AddingOn
  <2> QED
    BY <2>5, <2>10
<1>9. CASE ~ k < n
  <2>1. call' = NoCall
    BY <1>9, <1>k, <1>m DEF PutFrame, Return
  <2>2. Indexes'
    BY <1>4, <1>5 DEF Indexes, Spare, Sectors, Erased
  <2>3. free' = Spot(Spare, e)
    BY <1>5, <1>6, <1>7, <1>9, <1>k, <1>m
  <2> QED
    BY <1>1, <1>3, <1>4, <1>5, <2>1, <2>2, <2>3, CutEnds
<1> QED
  BY <1>8, <1>9

-----------------------------------------------------------------------------
(* A flash write fails, with its effect or without.                        *)
LEMMA CutFails ==
  ASSUME Survivable, CutInv, Observe, TypeInv', WriteFails
  PROVE  CutInv' /\ CutSteps
<1>1. /\ call.op \in {"init", "delete"} /\ call' = NoCall /\ UNCHANGED ram /\ TypeInv /\ call \in Call
      /\ FlashWrite \/ (call.phase \in {"mark", "put", "copy", "data", "index"} /\ UNCHANGED flash)
      /\ ready' = ready /\ ex' = ex /\ free' = free
  BY DEF WriteFails, Survivable, Return, ram, CutInv, TypeInv, TypeOK
<1>2. CASE call.op = "init"
  <2>1. Unmounted \/ Numbering
    BY <1>2, CutCases
  <2>2. Unmounted => call.phase = "mount"
    BY <1>2 DEF Unmounted, NoCall
  <2>3. Numbering
    BY <1>1, <2>1, <2>2 DEF FlashWrite
  <2>4. Indexing /\ Fresh /\ ~ready /\ call.phase = "index" /\ call.k \in 0 .. SectorNum - 2 /\ Started(call.k)
    BY <2>3 DEF Numbering, Indexing, Started
  <2>5. CASE FlashWrite
    <3>1. PICK n : n = call.k + 1
      OBVIOUS
    <3>2. n \in 1 .. SectorNum - 1 /\ Started(n)'
      BY <1>1, <2>4, <2>5, <3>1, HeadPut
    <3>3. ~ Mounted' /\ call'.op \notin {"write", "delete"}
      BY <1>1, <2>4 DEF Mounted, NoCall
    <3>4. seen' = seen /\ intent' = intent /\ CutSteps /\ (CutModes' => CutInv')
      BY <3>3, CutQuiet
    <3>5. Fresh'
      BY <2>4, <3>4 DEF Fresh, Store!NoIntent, Ids, Absent
    <3>6. StartedSites'
      BY StartedFact, PTL
    <3>7. Sited(Zone(Spare), 1, {})'
      BY <3>2, <3>5, <3>6 DEF StartedSites
    <3>8. Unmounted'
      BY <1>1, <2>4, <3>7 DEF Unmounted, NoCall
    <3> QED
      BY <3>4, <3>8 DEF CutModes
  <2>6. CASE UNCHANGED flash
    <3>1. CASE call.k = 0
      <4>1. \A s \in Sectors : ~ s < 0
        BY DEF Sectors
      <4>2. Blanked
        BY <2>4, <3>1, <4>1 DEF Started, Blanked
      <4> QED
        BY <1>1, <2>4, <2>6, <4>2, CutLost
    <3>2. CASE call.k # 0
      <4>1. call.k \in 1 .. SectorNum - 1
        BY <2>4, <3>2, Sizes
      <4>2. Sited(Zone(Spare), 1, {})
        BY <2>4, <4>1, StartedFact DEF StartedSites
      <4> QED
        BY <1>1, <2>4, <2>6, <4>2, CutLost
    <3> QED
      BY <3>1, <3>2
  <2> QED
    BY <1>1, <2>5, <2>6
<1>3. CASE call.op = "delete"
  <2>1. call.phase = "mark"
    <3>1. call.phase \in {"mark", "put"} /\ (call.phase = "put" => call.op = "write")
      BY <1>1, <1>3, CutCases DEF TypeInv, CallInv
    <3> QED
      BY <1>3, <3>1
  <2>2. PICK z, c, H, m, j : Striking(z, c, H, m, j)
    BY <2>1, CutCases
  <2>3. PICK y : y = Zone(Spare)'
    OBVIOUS
  <2>4. /\ ready' /\ ex' = Spare /\ free' = Spot(Spare, c) /\ Indexes /\ Laid(z, c, H) /\ z = Zone(Spare)
        /\ \A id \in Ids : \E x : Holds(z, H, id, x) /\ Possible(id, x)
    BY <1>1, <2>2 DEF Striking, Served, Sited
  <2>5. CASE FlashWrite
    <3>1. /\ head' = head /\ Laid(y, c, H)
          /\ \A id \in Ids : \E x : Holds(y, H, id, x) /\ Possible(id, x)
      BY <2>1, <2>2, <2>3, <2>5, CutStrikes
    <3>2. Indexes'
      BY <2>4, <3>1 DEF Indexes, Spare, Sectors, Erased
    <3> QED
      BY <1>1, <2>3, <2>4, <3>1, <3>2, CutEnds
  <2>6. CASE UNCHANGED flash
    <3>1. head' = head /\ Zone(Spare)' = Zone(Spare)
      BY <2>6, OldUnchanged DEF flash, Zone, Spare
    <3>2. Indexes' /\ z = Zone(Spare)'
      BY <2>4, <3>1 DEF Indexes, Spare, Sectors, Erased
    <3> QED
      BY <1>1, <2>4, <3>2, CutEnds
  <2> QED
    BY <1>1, <2>5, <2>6
<1> QED
  BY <1>1, <1>2, <1>3


-----------------------------------------------------------------------------
(* The invariant.                                                          *)
LEMMA CutStutter ==
  ASSUME CutInv, UNCHANGED <<vars, seen, intent>>
  PROVE  CutInv' /\ CutSteps
<1>1. UNCHANGED vars /\ UNCHANGED flash /\ seen' = seen /\ intent' = intent /\ call' = call
      /\ ready' = ready /\ ex' = ex /\ free' = free
  BY DEF vars, flash
<1>2. TypeInv'
  BY <1>1, TypeStep DEF CutInv
<1>3. CutSteps
  BY <1>1, CutStutters
<1>4. (seen = [id \in Ids |-> seen[id]])' /\ (intent = Store!NoIntent \/ intent.id \in Ids)'
  BY <1>1 DEF CutInv, Ids, Store!NoIntent, Absent
<1>5. Fresh => Fresh'
  BY <1>1 DEF Fresh, Store!NoIntent, Ids, Absent
<1>6. \A z, c, H : Sited(z, c, H) => Sited(z, c, H)'
  BY <1>1, SitedKept
<1>7. Intended => Intended'
  <2>1. Content(call)' = Content(call)
    BY <1>1 DEF Content, Frames
  <2> QED
    BY <1>1, <2>1 DEF Intended, Absent, Ids
<1>8. \A z, c, H : Served(z, c, H) => Served(z, c, H)'
  BY <1>1, <1>6 DEF Served, Spare
<1>9. \A c : Spot(Spare, c)' = Spot(Spare, c)
  BY DEF Spot, Place, Spare, Sector, Row, Column, Capacity
<1>10. CASE Unmounted
  <2>1. (Fresh /\ (Blanked \/ Bad # {})) => (Fresh /\ (Blanked \/ Bad # {}))'
    BY <1>1, <1>5, OldUnchanged
  <2>2. (\E z, c, H : Sited(z, c, H)) => (\E z, c, H : Sited(z, c, H))'
    BY <1>6
  <2>3. Unmounted'
    BY <1>1, <1>10, <2>1, <2>2 DEF Unmounted, NoCall
  <2> QED
    BY <1>2, <1>3, <1>4, <2>3 DEF CutInv, CutModes
<1>11. CASE Formatting \/ Numbering
  <2>1. Formatting' \/ Numbering'
    BY <1>1, <1>5, <1>11, Stays DEF Formatting, Numbering
  <2> QED
    BY <1>2, <1>3, <1>4, <2>1 DEF CutInv, CutModes
<1>12. CASE Serving
  <2>1. Serving'
    BY <1>1, <1>8, <1>9, <1>12 DEF Serving, NoCall, Store!NoIntent, Absent
  <2> QED
    BY <1>2, <1>3, <1>4, <2>1 DEF CutInv, CutModes
<1>13. ASSUME NEW z, NEW c, NEW H, NEW m, NEW j, Striking(z, c, H, m, j) PROVE CutInv' /\ CutSteps
  <2>1. /\ m \in H /\ j \in 0 .. Frames(z[m].len) - 1 /\ call.phase = "mark" /\ Intended /\ Served(z, c, H)
        /\ free = Spot(Spare, c) /\ z[m].id = call.id /\ call.k = Frames(z[m].len) - j /\ call.at = Place(Spare, m + j)
        /\ IF j = 0 THEN z[m].pro = USED ELSE UsedBy(z, H, call.id) = {}
        /\ call.op = "write" => c + Frames(call.len) <= Capacity + 1
    BY <1>13 DEF Striking
  <2>2. CutModes'
    BY <1>1, <1>7, <1>8, <2>1, StrikingNext
  <2> QED
    BY <1>2, <1>3, <1>4, <2>2 DEF CutInv
<1>14. ASSUME NEW z, NEW c, NEW H, Adding(z, c, H) PROVE CutInv' /\ CutSteps
  <2>1. CutModes'
    BY <1>1, <1>7, <1>8, <1>14, AddingFirst, AddingOn DEF Adding
  <2> QED
    BY <1>2, <1>3, <1>4, <2>1 DEF CutInv
<1> QED
  BY <1>10, <1>11, <1>12, <1>13, <1>14 DEF CutInv, CutModes

LEMMA CutInit == MCInit => CutInv
<1> SUFFICES ASSUME MCInit PROVE CutInv
  OBVIOUS
<1>1. Init /\ seen = [id \in Ids |-> Absent] /\ intent = Store!NoIntent
  BY DEF MCInit, Store!Init
<1>3. call = NoCall /\ ~ready /\ TypeInv
  BY <1>1, TypeInit DEF Init
<1>4. Blanked \/ Bad # {}
  <2>1. PICK foreign \in {{}, {0}} : head = [s \in Sectors |-> IF s \in foreign THEN Foreign ELSE Erased]
    BY <1>1 DEF Init
  <2>2. CASE foreign = {}
    BY <1>1, <2>1, <2>2 DEF Init, Blanked
  <2>3. CASE foreign = {0}
    <3>1. 0 \in Sectors /\ head[0] = Foreign
      BY <2>1, <2>3, Sizes DEF Sectors
    <3> QED
      BY <3>1, Sizes DEF Bad, Foreign, Erased
  <2> QED
    BY <2>1, <2>2, <2>3
<1>5. Unmounted
  BY <1>1, <1>3, <1>4 DEF Unmounted, Fresh
<1> QED
  BY <1>1, <1>3, <1>5 DEF CutInv, CutModes

LEMMA CutNext ==
  ASSUME Survivable, CutInv, [MCNext]_<<vars, seen, intent>>
  PROVE  CutInv' /\ CutSteps
<1>1. TypeInv'
  <2>1. [Next]_vars
    BY DEF MCNext
  <2> QED
    BY <2>1, TypeStep DEF CutInv
<1>2. CASE UNCHANGED <<vars, seen, intent>>
  BY <1>2, CutStutter
<1>3. CASE MCNext
  <2>1. Next /\ Observe
    BY <1>3 DEF MCNext
  <2>2. ~ (Collect \/ CollectIndex \/ CopyHead \/ CopyData \/ EraseCopied)
    BY CutCases DEF Survivable, Collect, Calling, CollectIndex, CopyHead, CopyData, EraseCopied
  <2>3. CASE Refuse \/ HalInit \/ Format \/ Restart
    BY <1>1, <2>1, <2>3, CutIdle
  <2>4. CASE (\E f \in Files : Write(f)) \/ (\E id \in Ids : Delete(id))
    BY <1>1, <2>1, <2>4, CutWrite, CutDelete
  <2>5. CASE MarkFrame \/ PutFrame
    BY <1>1, <2>1, <2>5, CutMark, CutPut
  <2>6. CASE Wipe \/ PutHead
    BY <1>1, <2>1, <2>6, CutWipe, CutPutHead
  <2>7. CASE MountForeign \/ MountNew \/ Mount
    BY <1>1, <2>1, <2>7, CutMount
  <2>8. CASE WriteFails
    BY <1>1, <2>1, <2>8, CutFails
  <2> QED
    BY <2>1, <2>2, <2>3, <2>4, <2>5, <2>6, <2>7, <2>8 DEF Next
<1> QED
  BY <1>2, <1>3

LEMMA CutFormatEnds ==
  ASSUME Survivable, CutInv, CutInv', MCNext, call.op = "format", call'.op # "format"
  PROVE  Store!Format
<1>1. Next /\ Observe
  BY DEF MCNext
<1>2. Formatting /\ call \in Call
  BY CutCases DEF CutInv, TypeInv, TypeOK
<1>3. call.phase \in {"wipe", "mount", "index"} /\ (call.phase = "mount" => Blanked)
  BY <1>2 DEF Formatting, Wiping, Wiped, Indexing
<1>4. PutHead
  BY <1>1, <1>2, <1>3, FormatPuts DEF Survivable
<1> QED
  BY <1>1, <1>4, CutPutHead DEF CutInv

(* When the supply fails in fs_init, in a write or in a deletion, or the   *)
(* flash in fs_init or a deletion, every other file is as it was, and the  *)
(* file of the call is the old one, or gone, or the beginning of the new   *)
(* one, however often that happens and whenever the zone is mounted again. *)
THEOREM SurvivesCuts == Survivable => (MCSpec => StoreCutSpec)
<1> SUFFICES ASSUME Survivable PROVE MCSpec => StoreCutSpec
  OBVIOUS
<1>1. MCInit => CutInv /\ Store!Init
  BY CutInit DEF MCInit
<1>2. CutInv /\ [MCNext]_<<vars, seen, intent>> => CutInv' /\ [Store!Next \/ Store!Tear]_(Store!storeVars)
  <2> SUFFICES ASSUME CutInv, [MCNext]_<<vars, seen, intent>>
               PROVE  CutInv' /\ [Store!Next \/ Store!Tear]_(Store!storeVars)
    OBVIOUS
  <2>1. CutInv' /\ CutSteps
    BY CutNext
  <2>2. (call.op = "format")' = (call.op = "format") \/ Store!Next
    <3>1. CASE MCNext
      BY <2>1, <3>1, CutFormatEnds, FormatMoves DEF MCNext
    <3>2. CASE UNCHANGED <<vars, seen, intent>>
      <4>1. call' = call
        BY <3>2 DEF vars
      <4> QED
        BY <4>1
    <3> QED
      BY <3>1, <3>2
  <2> QED
    BY <2>1, <2>2 DEF CutSteps, Store!storeVars
<1> QED
  BY <1>1, <1>2, PTL DEF MCSpec, StoreCutSpec, Store!CutSpec


-----------------------------------------------------------------------------
(* What else holds after a cut.                                            *)
LEMMA CutErased == CutInv => ProgramsErased
<1> SUFFICES ASSUME CutInv PROVE ProgramsErased
  OBVIOUS
<1>1. TypeInv /\ call.phase # "copy" /\ call.op # "collect"
  BY CutCases DEF CutInv
<1>2. ASSUME call.phase = "put" PROVE free \in Addresses /\ item[free] = FreeItem /\ free[1] # ex
  <2>1. PICK z, c, H : Adding(z, c, H)
    BY <1>2, CutCases
  <2>2. z = Zone(Spare) /\ Laid(z, c, H) /\ ex = Spare
    BY <2>1 DEF Adding, Served, Sited
  <2>m. PICK n \in Nat : n = Frames(call.len)
    BY <1>1, FramesOf DEF TypeInv, TypeOK, Call
  <2>k. PICK k \in 1 .. n : k = call.k
    BY <1>1, <1>2, <2>m DEF TypeInv, CallInv
  <2>3. \E q \in 1 .. Capacity : free = Spot(Spare, q) /\ z[q] = FreeItem
    <3>0. c \in 1 .. Capacity + 1 /\ Capacity \in Nat /\ \A p \in 1 .. Capacity : p >= c => z[p] = FreeItem
      BY <2>2, CapacityIs DEF Laid
    <3>1. CASE call.k = 1 /\ free = Spot(Spare, c) /\ c + Frames(call.len) <= Capacity + 1
      <4>1. c \in 1 .. Capacity /\ c >= c
        BY <2>m, <2>k, <3>0, <3>1
      <4> QED
        BY <3>0, <3>1, <4>1
    <3>2. ASSUME NEW d \in H, call.k > 1, free = Spot(Spare, d + call.k - 1),
                 \A i \in 1 .. call.k - 1 : z[d + i - 1] = Frame(i),
                 \A i \in call.k .. Frames(call.len) : z[d + i - 1] = FreeItem
          PROVE  \E q \in 1 .. Capacity : free = Spot(Spare, q) /\ z[q] = FreeItem
      <4>1. d \in Nat /\ d + 1 - 1 = d /\ \A i \in 1 .. Frames(z[d].len) : d + i - 1 \in 1 .. Capacity
        BY <2>2, LaidFacts
      <4>2. 1 \in 1 .. k - 1 /\ k \in k .. n
        BY <2>k, <3>2
      <4>3. z[d].len = call.len
        <5>1. z[d] = Frame(1)
          BY <2>k, <3>2, <4>1, <4>2
        <5> QED
          BY <5>1 DEF Frame
      <4>4. d + k - 1 \in 1 .. Capacity
        BY <2>m, <2>k, <4>1, <4>3
      <4>5. z[d + k - 1] = FreeItem
        BY <2>m, <2>k, <3>2, <4>2
      <4> QED
        BY <2>k, <3>2, <4>4, <4>5
    <3> QED
      BY <2>1, <3>1, <3>2 DEF Adding
  <2>4. PICK q \in 1 .. Capacity : free = Spot(Spare, q) /\ z[q] = FreeItem
    BY <2>3
  <2>5. free = Place(Spare, q) /\ free \in Addresses /\ free[1] # Spare
    <3>1. q <= Capacity /\ Capacity \in Nat
      BY CapacityIs
    <3> QED
      BY <2>4, <3>1, SpareIs, PlaceOutside DEF Spot
  <2> QED
    BY <2>2, <2>4, <2>5 DEF Zone
<1> QED
  BY <1>1, <1>2 DEF ProgramsErased

LEMMA CutInvisible == CutInv => RestartInvisible
<1> SUFFICES ASSUME CutInv, Mounted
             PROVE  /\ Indexed(0) # {} /\ Bad = {}
                    /\ ex = Sector((CHOOSE s \in Indexed(0) : \A r \in Indexed(0) : s <= r) - 1)
                    /\ free = Frontier
  BY DEF RestartInvisible
<1>1. Serving /\ TypeInv
  BY CutCases DEF Mounted, Unmounted, CutInv
<1>2. PICK z, c, H : Served(z, c, H) /\ free = Spot(Spare, c)
  BY <1>1 DEF Serving
<1>3. ex = Spare /\ z = Zone(ex) /\ Indexes /\ Laid(z, c, H) /\ Zoned
  BY <1>1, <1>2 DEF Served, Sited, TypeInv, TypeOK, Zoned
<1>4. head[0] = 0 /\ head[Spare] = Erased /\ \A s \in Sectors : head[s] \in {s, Erased}
  BY <1>3 DEF Indexes
<1>5. Indexed(0) = {0}
  <2>1. Erased # 0
    BY DEF Erased
  <2> QED
    BY <1>4, <2>1, SpareIs DEF Indexed
<1>6. Bad = {}
  <2>1. \A s \in Sectors : s # Spare => ~ s >= SectorNum - 1
    BY Sizes DEF Sectors, Spare
  <2> QED
    BY <1>4, <2>1 DEF Bad
<1>7. (CHOOSE s \in {0} : \A r \in {0} : s <= r) = 0
  OBVIOUS
<1>8. ex = Sector((CHOOSE s \in Indexed(0) : \A r \in Indexed(0) : s <= r) - 1)
  <2>1. 0 - 1 = -1
    OBVIOUS
  <2> QED
    BY <1>3, <1>5, <1>7, <2>1, SpareIs
<1>9. free = Frontier
  BY <1>2, <1>3, FrontierLaid
<1> QED
  BY <1>5, <1>6, <1>8, <1>9

LEMMA CutAlways == Survivable => (MCSpec => []CutInv)
<1> SUFFICES ASSUME Survivable PROVE MCSpec => []CutInv
  OBVIOUS
<1>1. MCInit => CutInv
  BY CutInit
<1>2. CutInv /\ [MCNext]_<<vars, seen, intent>> => CutInv'
  BY CutNext
<1> QED
  BY <1>1, <1>2, PTL DEF MCSpec

(* Nor does a cut, or a torn file it leaves, bring a later write to a      *)
(* place that was written since its sector was erased.                     *)
THEOREM WritesErasedAfterCuts == Survivable => (MCSpec => []ProgramsErased)
BY CutAlways, CutErased, PTL

(* After any cut, fs_init finds the exchange sector and the free position  *)
(* that later writes keep up: another restart between calls is invisible.  *)
THEOREM RestartInvisibleAfterCuts == Survivable => (MCSpec => []RestartInvisible)
BY CutAlways, CutInvisible, PTL
=============================================================================
