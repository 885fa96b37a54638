-------------------------------- MODULE Fs --------------------------------
(***************************************************************************)
(* The file system of components/fs.c: files are runs of fixed-size items, *)
(* appended to a ring of flash sectors of which one, the exchange sector,  *)
(* is kept erased for the garbage collector.                               *)
(*                                                                         *)
(* A call is a sequence of flash operations, one action each, so that a    *)
(* flash write that fails, or a supply that does, can come between any two *)
(* of them.  Programming flash only clears bits.  An address is a sector   *)
(* and the number of an item in it; a file's length is in bytes, and its   *)
(* data one value per frame.                                               *)
(***************************************************************************)
EXTENDS Integers, FiniteSets, Sequences

CONSTANTS
  SectorNum,   \* fs.cfg.sector_num
  Items,       \* FS_SECTOR_ITEM_NUM
  DataLen,     \* FS_ITEM_DATA_LEN
  Files,       \* the files the application writes: an id, a length, a content
  Ops,         \* the calls the application makes: a subset of Calls
  Cuts,        \* the calls the supply may fail in
  Fails        \* the calls in which a flash write may fail

Calls == {"init", "format", "write", "delete", "collect"}

(* len/FS_ITEM_DATA_LEN + ((len%FS_ITEM_DATA_LEN)?1:0)                     *)
Frames(len) == len \div DataLen + (IF len % DataLen > 0 THEN 1 ELSE 0)

(* The largest id and length that the fields of fs_item_t hold.            *)
IdMax == 65535
LenMax == 4095

(* sector_order in fs_init has 78 entries.  No file fills two sectors:     *)
(* 4095 bytes are 342 frames at 255 items, and 69 at 63 items.             *)
ASSUME FsAssumption ==
  /\ SectorNum \in 3 .. 78
  /\ Items \in Nat /\ Items >= 2
  /\ DataLen \in Nat \ {0}
  /\ Files \subseteq [id : 1 .. IdMax - 1, len : 1 .. LenMax, val : Nat]
  /\ \A f \in Files : Frames(f.len) < 2 * Items
  /\ Ops \subseteq Calls /\ Cuts \subseteq Calls /\ Fails \subseteq Calls

VARIABLES
  head,    \* the index in each sector's head, or Erased or Foreign
  item,    \* the items of the zone
  ready,   \* fs_init_flag
  ex,      \* fs.exchange_sector
  free,    \* fs.current_sector and fs.offset, as the address of an item
  call,    \* the call that is running, and where it is
  ret      \* what the last call returned

vars == <<head, item, ready, ex, free, call, ret>>
flash == <<head, item>>
ram == <<ready, ex, free>>

Ids == {f.id : f \in Files}
Sectors == 0 .. SectorNum - 1
Addresses == Sectors \X (1 .. Items)

Erased == 255
Foreign == 254

(* Frame data: of an unwritten frame, and of one written twice.            *)
Blank == <<0, 0>>
Mixed == <<-1, -1>>

(* item_pro and item_frame.                                                *)
UNUSED == 3
USED == 2
RESERVED == 1
DELETED == 0
SF == 3
MF_F == 1
MF_C == 2
MF_E == 0

(* An item that was never written; a call, when none is running.           *)
FreeItem == [pro |-> UNUSED, frame |-> SF, id |-> IdMax, len |-> LenMax, data |-> Blank]
NoCall == [op |-> "none", phase |-> "none", id |-> 0, len |-> 0, val |-> 0,
           k |-> 0, at |-> <<0, 1>>, to |-> <<0, 1>>]

(* The zone is blank, or one of its sectors holds something else.          *)
Init ==
  /\ \E foreign \in {{}, {0}} :
       head = [s \in Sectors |-> IF s \in foreign THEN Foreign ELSE Erased]
  /\ item = [a \in Addresses |-> FreeItem]
  /\ ready = FALSE /\ ex = 0 /\ free = <<0, 1>>
  /\ call = NoCall
  /\ ret = "none"

-----------------------------------------------------------------------------
(* Flash and addresses.                                                    *)

And[p \in Nat \X Nat] ==
  IF p[1] = 0 \/ p[2] = 0 THEN 0
  ELSE ((p[1] % 2) * (p[2] % 2)) + 2 * And[<<p[1] \div 2, p[2] \div 2>>]

(* An item after a head, or after data, is programmed over it.             *)
ProgramHead(old, new) ==
  [old EXCEPT !.pro = And[<<@, new.pro>>], !.frame = And[<<@, new.frame>>],
              !.id = And[<<@, new.id>>], !.len = And[<<@, new.len>>]]

ProgramData(old, new) ==
  [old EXCEPT !.data = IF @ \in {Blank, new.data} THEN new.data
                       ELSE IF new.data = Blank THEN @ ELSE Mixed]

Sector(s) == s % SectorNum

(* Variants with a plausible slip stand before the definition they vary;   *)
(* the specification does not use them, the properties must tell them      *)
(* from it.  Here: check_addr does not turn back at the zone's end.        *)
AfterOpen(a) == IF a[2] < Items THEN <<a[1], a[2] + 1>> ELSE <<a[1] + 1, 1>>

(* check_addr: the item after a, over sector heads and the zone's end.     *)
After(a) == IF a[2] < Items THEN <<a[1], a[2] + 1>> ELSE <<Sector(a[1] + 1), 1>>

(* The p-th item of the zone in the order of the search, which starts      *)
(* behind the exchange sector.                                             *)
Addr(p) == <<Sector(ex + 1 + (p - 1) \div Items), ((p - 1) % Items) + 1>>
Capacity == (SectorNum - 1) * Items

-----------------------------------------------------------------------------
(* fs_search_items and what is built on it.                                *)

(* Slip: the frames of a file are not skipped.                             *)
SkipOne(p) == p + 1

(* Where the search goes from a head at p.  The frames left over when the  *)
(* file reaches the end of a sector are counted as if they began a sector  *)
(* earlier when they fill a sector or more.                                *)
Skip(p) ==
  LET i1 == item[Addr(p)]
      frames == IF i1.frame = MF_F /\ i1.len > 0 THEN Frames(i1.len) ELSE 1
      room == Items - ((p - 1) % Items)
      over == IF room = 1 THEN frames ELSE frames - room
  IN  IF frames < room \/ over < Items THEN p + frames
      ELSE IF frames > Items THEN p + frames - Items ELSE p + 1

(* The items the search reads: it ends at the first unused one.            *)
Visited ==
  LET from[p \in Nat] ==
        IF p > Capacity THEN {}
        ELSE IF item[Addr(p)].pro = UNUSED THEN {p}
        ELSE {p} \cup from[Skip(p)]
  IN  from[1]

(* The items at which SEARCH_APPOINTED_ITEM ends: at most one.             *)
Located(id) ==
  LET hits == {p \in Visited : item[Addr(p)].pro = USED /\ item[Addr(p)].id = id}
  IN  {p \in hits : \A q \in hits : p <= q}

(* SEARCH_FREE_ITEM; a full zone is one item past its last sector.         *)
FreeItems == {p \in Visited : item[Addr(p)].pro = UNUSED}
Frontier ==
  IF FreeItems = {} THEN <<Sector(ex - 1), Items + 1>>
  ELSE Addr(CHOOSE p \in FreeItems : TRUE)

(* SEARCH_DELETED_ITEMS: the number of deleted files.                      *)
GarbageFiles == Cardinality({p \in Visited : item[Addr(p)].pro = DELETED})

(* Slip: the exchange sector is counted.                                   *)
FreeSizeExchange ==
  IF free[2] > Items THEN 0
  ELSE DataLen * (Sector(ex - free[1]) * Items + Items + 1 - free[2])

(* hal_fs_get_free_size: the sectors up to the exchange sector and the     *)
(* rest of this one.                                                       *)
FreeSize ==
  IF free[2] > Items THEN 0
  ELSE DataLen * (Sector(ex - free[1] - 1) * Items + Items + 1 - free[2])

(* The contents of a file: its length and its data, frame by frame.        *)
Content(f) == [len |-> f.len, data |-> [k \in 1 .. Frames(f.len) |-> <<f.val, k>>]]

(* What hal_fs_item_read returns with a buffer that is large enough.       *)
Absent == [len |-> 0, data |-> << >>]
ReadBack(id) ==
  IF Located(id) = {} THEN Absent
  ELSE LET p == CHOOSE q \in Located(id) : TRUE
           len == item[Addr(p)].len
       IN  [len |-> len, data |-> [k \in 1 .. Frames(len) |-> item[Addr(p + k - 1)].data]]

-----------------------------------------------------------------------------
(* The flash operation of each phase of a call.                            *)

FrameKind(k) ==
  IF Frames(call.len) = 1 THEN SF
  ELSE IF k = 1 THEN MF_F ELSE IF k < Frames(call.len) THEN MF_C ELSE MF_E

Frame(k) == [pro |-> USED, frame |-> FrameKind(k), id |-> call.id,
             len |-> call.len, data |-> <<call.val, k>>]

Put(a, i1) == item' = [item EXCEPT ![a] = i1] /\ UNCHANGED head
PutIndex(s, i) == head' = [head EXCEPT ![s] = And[<<@, i>>]] /\ UNCHANGED item

FlashWrite ==
  \/ /\ call.phase = "mark"
     /\ Put(call.at, [item[call.at] EXCEPT !.pro = DELETED])
  \/ /\ call.phase = "put"
     /\ Put(free, ProgramData(ProgramHead(item[free], Frame(call.k)), Frame(call.k)))
  \/ /\ call.phase = "copy"
     /\ Put(call.to, ProgramHead(item[call.to], item[call.at]))
  \/ /\ call.phase = "data"
     /\ Put(call.to, ProgramData(item[call.to], item[call.at]))
  \/ /\ call.phase = "index"
     /\ PutIndex(Sector((IF call.op = "collect" THEN ex ELSE 0) + call.k), call.k)

EraseSector(s) ==
  /\ head' = [head EXCEPT ![s] = Erased]
  /\ item' = [a \in Addresses |-> IF a[1] = s THEN FreeItem ELSE item[a]]

Enter(c) == call' = c /\ ret' = "none"
Return(code) == call' = NoCall /\ ret' = code

(* A flash write fails, before or after it has had its effect, and the     *)
(* call gives up.                                                          *)
WriteFails ==
  /\ call.op \in Fails
  /\ FlashWrite \/ (call.phase \in {"mark", "put", "copy", "data", "index"} /\ UNCHANGED flash)
  /\ Return(IF call.op = "write" /\ call.phase = "mark" THEN "FATAL" ELSE "WRITE_FAILED")
  /\ UNCHANGED ram

-----------------------------------------------------------------------------
(* hal_fs_item_write and hal_fs_item_del.                                  *)

Calling(op) == call.op = "none" /\ op \in Ops

(* Before hal_fs_init has succeeded nothing but it and hal_fs_format runs. *)
Refuse ==
  /\ \E op \in {"write", "delete", "collect"} : Calling(op)
  /\ ~ready
  /\ Return("UNINITIALIZED")
  /\ UNCHANGED <<flash, ram>>

(* Begin to mark the frames of id deleted.  A file of length 0, which two   *)
(* copies over each other can leave, has none.                             *)
Mark(id) ==
  LET p == CHOOSE q \in Located(id) : TRUE
  IN  [NoCall EXCEPT !.phase = "mark", !.id = id, !.at = Addr(p),
                     !.k = Frames(item[Addr(p)].len)]

(* Slip: the old file stays.                                               *)
BegunBeside(f) ==
  [NoCall EXCEPT !.op = "write", !.phase = "put", !.id = f.id,
                 !.len = f.len, !.val = f.val, !.k = 1]

(* A file of the same id is deleted before the new one is written.         *)
Begun(f) ==
  IF Located(f.id) = {} \/ Mark(f.id).k = 0
  THEN [NoCall EXCEPT !.op = "write", !.phase = "put", !.id = f.id,
                      !.len = f.len, !.val = f.val, !.k = 1]
  ELSE [Mark(f.id) EXCEPT !.op = "write", !.len = f.len, !.val = f.val]

(* Slip: a file as long as the room left, and one frame more, is let in.   *)
FitsNearly(f) == f.len <= FreeSize + DataLen

Fits(f) == f.len <= FreeSize

Write(f) ==
  /\ Calling("write") /\ ready
  /\ IF ~Fits(f) THEN Return("NOT_ENOUGH_SIZE")
     ELSE Enter(Begun(f))
  /\ UNCHANGED <<flash, ram>>

Delete(id) ==
  /\ Calling("delete") /\ ready
  /\ IF Located(id) = {} THEN Return("NOT_FIND_ID")
     ELSE IF Mark(id).k = 0 THEN Return("SUCCESS")
     ELSE Enter([Mark(id) EXCEPT !.op = "delete"])
  /\ UNCHANGED <<flash, ram>>

MarkFrame ==
  /\ call.phase = "mark"
  /\ FlashWrite
  /\ IF call.k > 1 THEN call' = [call EXCEPT !.at = After(@), !.k = @ - 1] /\ UNCHANGED ret
     ELSE IF call.op = "delete" THEN Return("SUCCESS")
     ELSE call' = [call EXCEPT !.phase = "put", !.at = NoCall.at] /\ UNCHANGED ret
  /\ UNCHANGED ram

(* Slip: the exchange sector is used like the others.                      *)
NextFreeAnywhere == After(free)

(* The free position after a frame is written: it stays behind the last    *)
(* item when the next sector is the exchange sector.                       *)
NextFree ==
  IF free[2] = Items /\ Sector(free[1] + 1) = ex THEN <<free[1], Items + 1>> ELSE After(free)

PutFrame ==
  /\ call.phase = "put"
  /\ FlashWrite
  /\ free' = NextFree
  /\ IF call.k < Frames(call.len) THEN call' = [call EXCEPT !.k = @ + 1] /\ UNCHANGED ret
     ELSE Return("SUCCESS")
  /\ UNCHANGED <<ready, ex>>

-----------------------------------------------------------------------------
(* fs_init, and the calls that end with it.                                *)

HalInit ==
  /\ Calling("init")
  /\ IF ready THEN Return("UNINITIALIZED")
     ELSE Enter([NoCall EXCEPT !.op = "init", !.phase = "mount"])
  /\ UNCHANGED <<flash, ram>>

Format ==
  /\ Calling("format")
  /\ ready' = FALSE
  /\ Enter([NoCall EXCEPT !.op = "format", !.phase = "wipe"])
  /\ UNCHANGED <<flash, ex, free>>

Wipe ==
  /\ call.phase = "wipe"
  /\ EraseSector(call.k)
  /\ call' = IF call.k < SectorNum - 1 THEN [call EXCEPT !.k = @ + 1]
             ELSE [call EXCEPT !.phase = "mount", !.k = 0]
  /\ UNCHANGED <<ram, ret>>

Indexed(i) == {s \in Sectors : head[s] = i}
Bad == {s \in Sectors : head[s] # Erased /\ head[s] >= SectorNum - 1}

(* The zone holds something else, or nothing, or files: the exchange       *)
(* sector is the one before the first sector of index 0.                   *)
MountForeign ==
  /\ call.phase = "mount" /\ Bad # {}
  /\ Return("CONTEXT")
  /\ UNCHANGED <<flash, ram>>

MountNew ==
  /\ call.phase = "mount" /\ Indexed(Erased) = Sectors
  /\ call' = [call EXCEPT !.phase = "index"]
  /\ UNCHANGED <<flash, ram, ret>>

Mount ==
  /\ call.phase = "mount" /\ Bad = {} /\ Indexed(Erased) # Sectors
  /\ UNCHANGED flash
  /\ IF Indexed(0) = {} THEN UNCHANGED ram
     ELSE /\ \E s \in Indexed(0) : (\A r \in Indexed(0) : s <= r) /\ ex' = Sector(s - 1)
          /\ ready' = TRUE
          /\ free' = Frontier'
  /\ Return("SUCCESS")

(* The heads of a new zone: all sectors but the last.                      *)
PutHead ==
  /\ call.phase = "index" /\ call.op # "collect"
  /\ FlashWrite
  /\ IF call.k < SectorNum - 2
     THEN call' = [call EXCEPT !.k = @ + 1] /\ UNCHANGED <<ram, ret>>
     ELSE ready' = TRUE /\ ex' = SectorNum - 1 /\ free' = <<0, 1>> /\ Return("SUCCESS")

-----------------------------------------------------------------------------
(* hal_fs_garbage_collect: every sector in turn is copied and erased.      *)

Collect ==
  /\ Calling("collect") /\ ready
  /\ Enter([NoCall EXCEPT !.op = "collect", !.phase = "index", !.to = <<ex, 1>>])
  /\ UNCHANGED <<flash, ram>>

(* Slip: deleted items are copied too.                                     *)
KeptAll(a) == {b \in {a} \cap Addresses : item[b].pro # UNUSED}

(* The next item to copy from a on: the source is left at its first unused *)
(* item.                                                                   *)
Kept(a) ==
  {b \in Addresses : /\ b[1] = a[1] /\ b[2] >= a[2] /\ item[b].pro = USED
                     /\ \A j \in a[2] .. b[2] - 1 : item[<<a[1], j>>].pro \in {DELETED, RESERVED}}

(* Copy the item at b, or leave the sector.                                *)
CopyFrom(a) ==
  IF Kept(a) = {} THEN [call EXCEPT !.phase = "erase", !.at = <<a[1], 1>>]
  ELSE [call EXCEPT !.phase = "copy", !.at = CHOOSE b \in Kept(a) : TRUE]

CollectIndex ==
  /\ call.phase = "index" /\ call.op = "collect"
  /\ FlashWrite
  /\ call' = CopyFrom(<<Sector(ex + 1 + call.k), 1>>)
  /\ UNCHANGED <<ram, ret>>

CopyHead ==
  /\ call.phase = "copy"
  /\ FlashWrite
  /\ call' = [call EXCEPT !.phase = "data"]
  /\ UNCHANGED <<ram, ret>>

CopyData ==
  /\ call.phase = "data"
  /\ FlashWrite
  /\ call' = [CopyFrom(<<call.at[1], call.at[2] + 1>>) EXCEPT !.to = After(@)]
  /\ UNCHANGED <<ram, ret>>

EraseCopied ==
  /\ call.phase = "erase"
  /\ EraseSector(call.at[1])
  /\ call' = IF call.k < SectorNum - 2 THEN [call EXCEPT !.phase = "index", !.k = @ + 1]
             ELSE [NoCall EXCEPT !.op = "collect", !.phase = "mount"]
  /\ UNCHANGED <<ram, ret>>

-----------------------------------------------------------------------------
(* A reset, or the end of the supply: RAM is lost.                         *)
Restart ==
  /\ call.op \in Cuts \cup {"none"}
  /\ ready' = FALSE /\ ex' = 0 /\ free' = <<0, 1>>
  /\ Return("none")
  /\ UNCHANGED flash

Next ==
  \/ Refuse \/ HalInit \/ Format \/ Collect
  \/ (\E f \in Files : Write(f)) \/ (\E id \in Ids : Delete(id))
  \/ MarkFrame \/ PutFrame
  \/ Wipe \/ MountForeign \/ MountNew \/ Mount \/ PutHead
  \/ CollectIndex \/ CopyHead \/ CopyData \/ EraseCopied
  \/ WriteFails \/ Restart

Spec == Init /\ [][Next]_vars
-----------------------------------------------------------------------------
(* Properties.                                                             *)

Data == {Blank, Mixed} \cup {<<f.val, k>> : f \in Files, k \in 1 .. 2 * Items}
Item == [pro : 0 .. 3, frame : 0 .. 3, id : 0 .. IdMax, len : 0 .. LenMax, data : Data]
Call == [op : Calls \cup {"none"},
         phase : {"none", "mark", "put", "wipe", "mount", "index", "copy", "data", "erase"},
         id : Nat, len : Nat, val : Nat,
         k : Nat, at : Addresses, to : Addresses]

(* Every variable stays in its type: the flash holds items and indexes,    *)
(* and the free position is an item of the zone or one past a sector.      *)
TypeOK ==
  /\ head \in [Sectors -> 0 .. Erased]
  /\ item \in [Addresses -> Item]
  /\ ready \in BOOLEAN /\ ex \in Sectors
  /\ free \in Sectors \X (1 .. Items + 1)
  /\ call \in Call
  /\ ret \in {"none", "SUCCESS", "UNINITIALIZED", "NOT_ENOUGH_SIZE", "NOT_FIND_ID",
              "WRITE_FAILED", "FATAL", "CONTEXT"}

(* A frame is only ever written, by a write or by the collector, to an     *)
(* item that was not written since its sector was erased, and an index to  *)
(* an erased sector head: what is programmed is what is read back.         *)
ProgramsErased ==
  /\ call.phase = "put" => free \in Addresses /\ item[free] = FreeItem /\ free[1] # ex
  /\ call.phase = "copy" => item[call.to] = FreeItem
  /\ call.phase = "index" /\ call.op = "collect" => head[Sector(ex + call.k)] = Erased

Mounted == ready /\ call.op = "none"

(* hal_fs_get_free_size is exactly the room that is left: the items never  *)
(* written outside the exchange sector, so a file that fits is never       *)
(* refused and one that does not is never begun.                           *)
FreeSizeExact ==
  Mounted =>
    FreeSize = DataLen * Cardinality({a \in Addresses : a[1] # ex /\ item[a] = FreeItem})

(* What RAM says of the zone, kept up to date write by write, is what      *)
(* fs_init would find in flash now: a restart between calls is invisible.  *)
RestartInvisible ==
  Mounted =>
    /\ Indexed(0) # {} /\ Bad = {}
    /\ ex = Sector((CHOOSE s \in Indexed(0) : \A r \in Indexed(0) : s <= r) - 1)
    /\ free = Frontier

(* A collection that succeeds leaves no garbage, and all the room that the *)
(* files that exist do not need.                                           *)
CollectReclaims ==
  [][call.op = "collect" /\ call.phase = "mount" =>
       LET used == {a \in Addresses : item[a].pro = USED}
       IN  /\ \A a \in Addresses : item[a].pro \in {UNUSED, USED}
           /\ FreeSize' = DataLen * (Capacity - Cardinality(used))]_vars

-----------------------------------------------------------------------------
(* What the header says of each call, include/fs.h.                        *)

(* hal_fs_get_garbage_size: "garbage_file_num:deleted file number".        *)
GarbageCounted ==
  Mounted =>
    GarbageFiles = Cardinality({a \in Addresses : item[a].pro = DELETED
                                                  /\ item[a].frame \in {SF, MF_F}})

(* hal_fs_init: "PPlus_SUCCESS fs init success.".                          *)
InitSuccessMounts == [][call.op = "init" /\ ret' = "SUCCESS" => ready']_vars

(* hal_fs_item_write: "PPlus_SUCCESS file write success": the file can be  *)
(* read back.                                                              *)
WriteSuccessStores ==
  [][\A f \in Files :
       call.op = "write" /\ call.id = f.id /\ call.val = f.val /\ ret' = "SUCCESS"
         => ReadBack(f.id)' = Content(f)]_vars
=============================================================================
