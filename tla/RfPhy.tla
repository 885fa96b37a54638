-------------------------------- MODULE RfPhy --------------------------------
(***************************************************************************)
(* lib/rf_phy_driver.c and the radio's part of source/Lenze_phy.c: the     *)
(* registers of the radio, which initialisation, calibration, a change of  *)
(* power and every packet write in part, and which a sleep clears.  A      *)
(* register, or the bits of it that have a meaning of their own, is a      *)
(* field; its values are named after what they are for.                    *)
(***************************************************************************)
EXTENDS Naturals

CONSTANTS Channels,     \* channels the application uses
          Powers        \* power settings, Extra among them

ASSUME RfAssumption == Channels \subseteq 2 .. 80 /\ "extra" \in Powers

VARIABLES reg,          \* the registers a sleep clears
          dcdc,         \* the DC-DC's setting, which a sleep keeps
          txPower,      \* g_rfPhyTxPower
          pktFmt,       \* g_rfPhyPktFmt
          going,        \* the format of the operation that runs, or Silent
          rc            \* rc32k_calibration: its step, counter, flag and code

vars == <<reg, dcdc, txPower, pktFmt, going, rc>>

BLE == {"1M", "2M", "500K", "125K"}
Formats == BLE \cup {"ZB", "other"}
Silent == "silent"

------------------------------------------------------------------------------
(* What the functions do to the registers.                                 *)

Reset == [pga |-> "reset", dac |-> 0, regDc |-> "reset", gauss |-> "reset",
          preamble |-> 0, format |-> "reset", syncThd |-> "reset", sync |-> "reset",
          crc |-> "reset", agc |-> "reset", chn |-> 0, tp |-> "reset", pa |-> "reset",
          ldo |-> "reset", dcoc |-> "reset"]

\* RF_PHY_EXT_PREAMBLE_US is 8: one byte at 1M, two at 2M.
Preamble(f) == CASE f = "1M" -> 1 [] f = "2M" -> 2 [] OTHER -> 0

Narrow(f) == f \in {"ZB", "2M"}

\* The deviation a format sends with: dac is 1 for 0.5 MHz and 2 for 1 MHz.
Dac(f) == IF Narrow(f) THEN 2 ELSE 1

\* Slip: the gain control is only set for the formats that need their own.
BbCfgSparse(r, f) ==
    [r EXCEPT !.pga = IF Narrow(f) THEN "narrow" ELSE "wide",
              !.dac = Dac(f), !.regDc = IF Narrow(f) THEN "2M" ELSE "1M",
              !.tp = "0", !.format = f,
              !.syncThd = IF f \in {"500K", "125K"} THEN "coded" ELSE @,
              !.sync = IF f = "ZB" THEN "ZB" ELSE "BLE",
              !.crc = IF f = "ZB" THEN "ZB" ELSE "BLE",
              !.gauss = IF f \in BLE THEN "on" ELSE "off",
              !.agc = IF Narrow(f) THEN f ELSE @,
              !.preamble = Preamble(f)]
BbCfg(r, f) ==
    [r EXCEPT !.pga = IF Narrow(f) THEN "narrow" ELSE "wide",
              !.dac = Dac(f), !.regDc = IF Narrow(f) THEN "2M" ELSE "1M",
              !.tp = "0", !.format = f,
              !.syncThd = IF f \in {"500K", "125K"} THEN "coded" ELSE @,
              !.sync = IF f = "ZB" THEN "ZB" ELSE "BLE",
              !.crc = IF f = "ZB" THEN "ZB" ELSE "BLE",
              !.gauss = IF f \in BLE THEN "on" ELSE "off",
              !.agc = IF Narrow(f) THEN f ELSE "BLE",
              !.preamble = Preamble(f)]

\* RF_PHY_TX_POWER_EXTRA_MAX and _MAX are the same setting of the amplifier.
Amplifier(p) == IF p = "extra" THEN "max" ELSE p
Supply(p) == IF p = "extra" THEN "extra" ELSE "normal"

AnaCfg(r) == [r EXCEPT !.dac = 2, !.pa = Amplifier(txPower), !.ldo = "normal"]

SetTxPower(r, p) == [r EXCEPT !.pa = Amplifier(p), !.ldo = Supply(p)]

\* rf_phy_ini: the initialisation, and the ROM's entry after a sleep.
Ini(r) == BbCfg(SetTxPower(AnaCfg(r), txPower), pktFmt)

\* rf_tp_cal leaves the deviation it measured at, and BLE's modulation.
TpCal(r, chn, dac) ==
    [r EXCEPT !.dac = dac, !.chn = chn, !.gauss = "on", !.preamble = Preamble(pktFmt)]

\* rf_rxDcoc_cfg: the averaging time of the gain control stays, and without
\* a result the offset stays under the calibration's control.
RxDcoc(r, chn, found) ==
    [r EXCEPT !.chn = chn, !.pga = "wide", !.agc = "averaging",
              !.dcoc = IF found THEN "code" ELSE "calibrating"]

\* rf_tpCal_gen_cap_arrary: the deviation each pair of results belongs to.
MeasuredAt(pair) == IF pair = "0" THEN 1 ELSE 2

------------------------------------------------------------------------------
IdleRc == [at |-> "idle", delay |-> 0, ok |-> FALSE, code |-> "reset"]

Init ==
    /\ txPower \in Powers /\ pktFmt \in BLE
    /\ reg = Ini(Reset) /\ dcdc = Supply(txPower)
    /\ going = Silent /\ rc = IdleRc

Idle == going = Silent /\ rc.at = "idle"

\* rf_tpCal_gen_cap_arrary and rf_rxDcoc_cfg, as rf_calibrate1 calls them.
Calibrate ==
    /\ Idle
    /\ \E found \in BOOLEAN :
          reg' = RxDcoc(TpCal(reg, 66, 2), 88, found)
    /\ rc' = [rc EXCEPT !.at = "start"]
    /\ UNCHANGED <<dcdc, txPower, pktFmt, going>>

------------------------------------------------------------------------------
(* rc32k_calibration, which comes last in rf_calibrate1.  Its counter is   *)
(* an 8-bit one.  It is done once: the flag that says so is kept through   *)
(* sleeps, and stands here as a code other than "reset".                   *)

RcStart ==
    /\ rc.at = "start"
    /\ rc' = IF rc.code = "reset" THEN [rc EXCEPT !.at = "poll", !.delay = 10, !.ok = FALSE]
                                  ELSE [rc EXCEPT !.at = "idle"]
    /\ UNCHANGED <<reg, dcdc, txPower, pktFmt, going>>

\* The oscillator's logic has found a code.
RcFlag ==
    /\ rc.at \in {"poll", "write"} /\ ~ rc.ok
    /\ rc' = [rc EXCEPT !.ok = TRUE]
    /\ UNCHANGED <<reg, dcdc, txPower, pktFmt, going>>

RcPoll ==
    /\ rc.at = "poll"
    /\ \/ ~ rc.ok /\ rc.delay > 0 /\ rc' = [rc EXCEPT !.delay = @ - 1]
       \/ ~ rc.ok /\ rc.delay = 0 /\ rc' = [rc EXCEPT !.at = "write", !.delay = (@ + 255) % 256]
       \/ rc.ok /\ rc' = [rc EXCEPT !.at = "write"]
    /\ UNCHANGED <<reg, dcdc, txPower, pktFmt, going>>

\* Slip: the last wait counts as a time-out.
RcWriteEarly ==
    /\ rc.at = "write"
    /\ rc' = [rc EXCEPT !.at = "idle",
                        !.code = IF rc.delay < 2 THEN "kept"
                                 ELSE IF rc.ok THEN "calibrated" ELSE "unready"]
    /\ UNCHANGED <<reg, dcdc, txPower, pktFmt, going>>
RcWrite ==
    /\ rc.at = "write"
    /\ rc' = [rc EXCEPT !.at = "idle",
                        !.code = IF rc.delay = 0 THEN "kept"
                                 ELSE IF rc.ok THEN "calibrated" ELSE "unready"]
    /\ UNCHANGED <<reg, dcdc, txPower, pktFmt, going>>

------------------------------------------------------------------------------
\* The pair of calibrations RF_PHY_TPCAL_CALC interpolates between.
Pair(f) == IF f = "2M" THEN "0_2Mbps" ELSE "0"

\* phy_rf_tx and phy_rf_rx, as far as the radio's registers go.  phy_hw_go
\* triggers the operation (Lenze_phy.c:196) a few lines before it writes the
\* correction of its channel; both are in the caller's critical section and
\* one step here.
Go(f) ==
    /\ Idle
    /\ \E chn \in Channels :
          reg' = [BbCfg(reg, f) EXCEPT !.chn = chn, !.tp = Pair(f)]
    /\ going' = f
    /\ UNCHANGED <<dcdc, txPower, pktFmt, rc>>

Stop ==
    /\ going # Silent /\ going' = Silent
    /\ UNCHANGED <<reg, dcdc, txPower, pktFmt, rc>>

ChangePower(p) ==
    /\ Idle
    /\ reg' = SetTxPower(reg, p) /\ dcdc' = Supply(p)
    /\ UNCHANGED <<txPower, pktFmt, going, rc>>

\* The registers are lost and rf_phy_ini writes them again.
SleepAndWake ==
    /\ Idle
    /\ reg' = Ini(Reset) /\ dcdc' = Supply(txPower)
    /\ UNCHANGED <<txPower, pktFmt, going, rc>>

Next == \/ Calibrate \/ RcStart \/ RcFlag \/ RcPoll \/ RcWrite
        \/ \E f \in Formats : Go(f)
        \/ Stop
        \/ \E p \in Powers : ChangePower(p)
        \/ SleepAndWake

Spec == Init /\ [][Next]_vars

------------------------------------------------------------------------------
(* What an operation of the radio depends on is what its format asks for,  *)
(* as it would be right after a reset, whatever formats, calibrations,     *)
(* powers and sleeps came before; a packet in a format of Bluetooth is     *)
(* sent with a correction measured at the format's own deviation; and the  *)
(* settings of the supply go together, raised for the highest power only   *)
(* (rf_calibrate1's comment: rf_phy_ana_cfg "will overwrite txpower        *)
(* setting").  The threshold of line 472 is left out: it stays as the      *)
(* coded formats set it.                                                   *)
GoConfigured ==
    going # Silent =>
        LET fresh == BbCfg(Reset, going)
        IN /\ \A field \in {"pga", "dac", "regDc", "gauss", "preamble", "format", "sync",
                            "crc", "agc"} :
                 reg[field] = fresh[field]
           /\ going \in BLE => MeasuredAt(reg.tp) = reg.dac
           /\ reg.ldo = dcdc
           /\ dcdc = "extra" => reg.pa = "max"

(* A code the oscillator's logic has flagged before the tenth wait is the  *)
(* one that is written: only a wait that ran out leaves the oscillator     *)
(* with none, or with whatever the logic had.                              *)
RcCalibrated ==
    rc.at = "idle" /\ rc.delay \in 1 .. 10 => rc.code = "calibrated"
==============================================================================
