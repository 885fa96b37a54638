------------------------------- MODULE OnAir -------------------------------
(***************************************************************************)
(* What the application of source/Lenze_phy.c promises about the air.      *)
(*                                                                         *)
(* The radio performs one operation at a time.  Operations come in cycles: *)
(* an advertising cycle transmits once on channels 37, 38 and 39, a scan   *)
(* cycle listens on the same channels in the same order, any number of     *)
(* times on each, and a cycle that has begun is never abandoned.  Every    *)
(* operation uses the whitening seed of its own channel.  The comments     *)
(* "37->38->39 scan channel" (Lenze_phy.c:551) and "37->38->39 adv         *)
(* channel" (Lenze_phy.c:587) are the informal version.                    *)
(***************************************************************************)
EXTENDS Naturals

VARIABLES
  phase,   \* "done": nothing on the air; "tuned": programmed; "on": on the air
  op       \* the latest operation the radio was programmed with

absVars == <<phase, op>>

Channels == 37 .. 39

(* An operation: its kind, its channel and the channel its seed is for.    *)
Ops == [mode : {"STX", "SRX"}, chn : Channels, seed : Channels]
NoOp == [mode |-> "NONE", chn |-> 39, seed |-> 39]

Op(m, c) == [mode |-> m, chn |-> c, seed |-> c]

(* The operations that may follow o: the next channel of the same cycle,   *)
(* the same channel again when listening, a new cycle after channel 39.    *)
Successors(o) ==
  (IF o.chn < 39 THEN {Op(o.mode, o.chn + 1)} ELSE {Op("STX", 37), Op("SRX", 37)})
  \cup (IF o.mode = "SRX" THEN {Op("SRX", o.chn)} ELSE {})

Init == phase = "done" /\ op = NoOp

Tune == phase = "done" /\ op' \in Successors(op) /\ phase' = "tuned"

Trigger == phase = "tuned" /\ phase' = "on" /\ UNCHANGED op

Finish == phase = "on" /\ phase' = "done" /\ UNCHANGED op

Next == Tune \/ Trigger \/ Finish

(* Safety alone, and with the promise that the radio never stops for good. *)
SafeSpec == Init /\ [][Next]_absVars

Spec == SafeSpec /\ WF_absVars(Next)
=============================================================================
