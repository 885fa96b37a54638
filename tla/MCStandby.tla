----------------------------- MODULE MCStandby -----------------------------
(* Tables for Standby: one pin, P0 and another one, two, and all three.    *)
EXTENDS Standby

Wait(p, t, n) == [pin |-> p, type |-> t, on |-> n]

MCConfigs == {
  <<Wait(1, POL_RISING, 2)>>,
  <<Wait(P0, POL_RISING, 1)>>,
  <<Wait(1, POL_FALLING, 0), Wait(2, POL_RISING, 1)>>,
  <<Wait(0, POL_RISING, 1), Wait(1, POL_FALLING, 2), Wait(2, POL_RISING, 0)>>}

(* A button: P0 ends standby when it rises.                                *)
MCButton == {<<Wait(P0, POL_RISING, 0)>>}
=============================================================================
