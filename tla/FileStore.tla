----------------------------- MODULE FileStore -----------------------------
(***************************************************************************)
(* What the file system of components/fs.c promises: a map from file ids   *)
(* to contents.  A write replaces one file and a deletion removes one; all *)
(* of them go only in the step that ends a format, and go then; nothing    *)
(* else changes what an id reads as, neither a restart nor a collection.   *)
(* When the supply fails in the middle of a write or a deletion, only the  *)
(* file of that call is in doubt: it is the old one, or gone, or the       *)
(* beginning of the new one.                                               *)
(***************************************************************************)
EXTENDS Naturals, Sequences

CONSTANTS
  Ids,        \* file ids
  Contents,   \* what a file may contain: records of its len and its data
  Absent,     \* the id has no file
  Blank       \* the data of a frame that was never written

VARIABLES
  files,      \* what each id reads as
  intent,     \* the call under way or cut short: an id and what it shall be
  formatting  \* a format of the zone is under way

storeVars == <<files, intent, formatting>>

NoIntent == [id |-> 0, new |-> Absent]

Init == files = [id \in Ids |-> Absent] /\ intent = NoIntent /\ ~formatting

(* A write or a delete of id begins.                                       *)
Begin(id, new) ==
  /\ intent = NoIntent /\ ~formatting
  /\ intent' = [id |-> id, new |-> new]
  /\ UNCHANGED <<files, formatting>>

Settle(result) ==
  /\ intent # NoIntent /\ ~formatting
  /\ files' = [files EXCEPT ![intent.id] = result]
  /\ intent' = NoIntent
  /\ UNCHANGED formatting

(* It succeeds.                                                            *)
Finish == Settle(intent.new)

(* The first k frames of content c.                                        *)
Beginning(c, k) ==
  [c EXCEPT !.data = [f \in DOMAIN c.data |-> IF f <= k THEN c.data[f] ELSE Blank]]

(* It was cut short.                                                       *)
Tear ==
  \/ Settle(files[intent.id])
  \/ Settle(Absent)
  \/ /\ intent.new # Absent
     /\ \E k \in DOMAIN intent.new.data : Settle(Beginning(intent.new, k))

(* A format begins, perhaps because a call was cut short, and ends: no     *)
(* file is left and none is in doubt.                                      *)
StartFormat == ~formatting /\ formatting' /\ UNCHANGED <<files, intent>>

Format ==
  /\ formatting /\ ~formatting'
  /\ files' = [id \in Ids |-> Absent]
  /\ intent' = NoIntent

Next ==
  \/ \E id \in Ids, new \in Contents \cup {Absent} : Begin(id, new)
  \/ Finish \/ StartFormat \/ Format

Spec == Init /\ [][Next]_storeVars

(* The same when the supply may fail during a write or a deletion.         *)
CutSpec == Init /\ [][Next \/ Tear]_storeVars
=============================================================================
