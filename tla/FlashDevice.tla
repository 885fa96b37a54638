----------------------------- MODULE FlashDevice -----------------------------
(***************************************************************************)
(* What components/flash.c promises its callers: a memory of sectors, one  *)
(* request at a time.  Until the driver gives up on a chip that stays      *)
(* busy, a request ends only when it has had its effect on the chip, once, *)
(* and a read returns what the chip holds.                                 *)
(***************************************************************************)
EXTENDS Naturals

CONSTANTS Sectors,      \* the sectors of the chip
          Items         \* what can be programmed into a sector

VARIABLES memory,       \* the items programmed into each sector
          request,      \* what was asked for, or Idle
          done,         \* the request has had its effect
          value,        \* what the running read has found
          failed        \* the driver has given up once

vars == <<memory, request, done, value, failed>>

Idle == [op |-> "none", on |-> {}]
Requests == [op : {"read", "write"}, on : {{s} : s \in Sectors}]
                \cup [op : {"erase"}, on : (SUBSET Sectors) \ {{}}]

Init == /\ memory \in [Sectors -> SUBSET Items]
        /\ request = Idle /\ done = FALSE /\ value = {} /\ failed = FALSE

Begin == /\ request = Idle
         /\ request' \in Requests /\ done' = FALSE
         /\ UNCHANGED <<memory, value, failed>>

\* Programming only adds to a sector and erasing empties it.
Program == /\ request.op = "write" /\ ~ done
           /\ \E s \in request.on, i \in Items :
                 memory' = [memory EXCEPT ![s] = @ \cup {i}]
           /\ done' = TRUE
           /\ UNCHANGED <<request, value, failed>>

Erase == /\ request.op = "erase" /\ ~ done
         /\ memory' = [s \in Sectors |-> IF s \in request.on THEN {} ELSE memory[s]]
         /\ done' = TRUE
         /\ UNCHANGED <<request, value, failed>>

Read == /\ request.op = "read" /\ ~ done
        /\ \E s \in request.on : value' = memory[s]
        /\ done' = TRUE
        /\ UNCHANGED <<memory, request, failed>>

End == /\ request # Idle /\ done
       /\ request' = Idle /\ done' = FALSE /\ value' = {}
       /\ UNCHANGED <<memory, failed>>

\* The driver gives up: nothing is promised from then on.
Fail == ~ failed /\ failed'
Broken == failed /\ failed'

Next == \/ ~ failed /\ (Begin \/ Program \/ Erase \/ Read \/ End)
        \/ Fail \/ Broken

Spec == Init /\ [][Next]_vars
==============================================================================
