------------------------------- MODULE MCFs -------------------------------
(***************************************************************************)
(* Model-checking instances of Fs, and the file system seen as a FileStore.*)
(***************************************************************************)
EXTENDS Fs

(* Files of one, two and four frames, two for each id.                     *)
MCFiles ==
  {[id |-> 1, len |-> 1, val |-> 1], [id |-> 1, len |-> 7, val |-> 2],
   [id |-> 2, len |-> 3, val |-> 3], [id |-> 2, len |-> 4, val |-> 4]}

(* No file reaches the number of items of a sector.                        *)
ShortFiles ==
  {[id |-> 1, len |-> 1, val |-> 1], [id |-> 1, len |-> 4, val |-> 2],
   [id |-> 2, len |-> 3, val |-> 3]}

(* Observers of Fs: what each id read as when the zone was last mounted    *)
(* with no call running, and the write or delete that has begun since.     *)
VARIABLES seen, intent

Store == INSTANCE FileStore WITH
  Contents <- {Content(f) : f \in Files},
  files <- seen,
  formatting <- call.op = "format"

View == [id \in Ids |-> ReadBack(id)]

MCInit == Init /\ Store!Init

Observe ==
  /\ seen' = IF Mounted' THEN View' ELSE seen
  /\ intent' = IF Mounted' THEN Store!NoIntent
               ELSE IF call = NoCall /\ call'.op \in {"write", "delete"}
               THEN [id |-> call'.id,
                     new |-> IF call'.op = "write" THEN Content(call') ELSE Absent]
               ELSE intent

MCNext == Next /\ Observe

MCSpec == MCInit /\ [][MCNext]_<<vars, seen, intent>>

(* Every call does to the files what its name says and nothing else,       *)
(* however full the zone is and wherever its exchange sector is: only the  *)
(* end of hal_fs_format takes a file that no write or deletion names.      *)
StoreSpec == Store!Spec

(* The same when the supply may fail during a write or a deletion: its own *)
(* file is the old one, or gone, or the beginning of the new one, and the  *)
(* others are what they were.                                              *)
StoreCutSpec == Store!CutSpec

(* hal_fs_garbage_collect: "release all deleted file zone to free": a file *)
(* that was not deleted is read as before.                                 *)
CollectKeepsFiles ==
  [][call.op = "collect" /\ ret' = "SUCCESS" => View' = seen]_<<vars, seen, intent>>
=============================================================================
