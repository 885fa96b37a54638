------------------------------ MODULE RfPhy_proofs ------------------------------
(***************************************************************************)
(* Proofs about RfPhy, for any channels and any power settings.            *)
(*                                                                         *)
(* What makes GoConfigured inductive: only two things about the registers  *)
(* hold all the time, that the supply and the amplifier agree with the     *)
(* DC-DC's setting; the rest holds from Go to Stop, because every other    *)
(* writer of the registers waits for the radio to be silent.               *)
(***************************************************************************)
EXTENDS RfPhy, TLAPS

Calibration ==
  [at : {"idle", "start", "poll", "write"}, delay : 0 .. 255, ok : BOOLEAN,
   code : {"reset", "kept", "calibrated", "unready"}]

TypeOK ==
  /\ DOMAIN reg = DOMAIN Reset
  /\ dcdc \in {"normal", "extra"}
  /\ txPower \in Powers /\ pktFmt \in BLE
  /\ going \in Formats \cup {Silent}
  /\ rc \in Calibration

(* The settings of the supply go together whatever the radio does.         *)
SupplyInv == reg.ldo = dcdc /\ (dcdc = "extra" => reg.pa = "max")

(* While an operation runs, the registers are as its format asks.          *)
FormatInv ==
  going # Silent =>
    /\ reg.pga = (IF Narrow(going) THEN "narrow" ELSE "wide")
    /\ reg.dac = Dac(going)
    /\ reg.regDc = (IF Narrow(going) THEN "2M" ELSE "1M")
    /\ reg.gauss = (IF going \in BLE THEN "on" ELSE "off")
    /\ reg.preamble = Preamble(going)
    /\ reg.format = going
    /\ reg.sync = (IF going = "ZB" THEN "ZB" ELSE "BLE")
    /\ reg.crc = (IF going = "ZB" THEN "ZB" ELSE "BLE")
    /\ reg.agc = (IF Narrow(going) THEN going ELSE "BLE")
    /\ reg.tp = Pair(going)

(* Before it has run, the calibration of the oscillator has counted        *)
(* nothing; the count it leaves the loop with tells whether it saw a code. *)
RcInv ==
  /\ rc.at \in {"idle", "start"} =>
       IF rc.code = "reset" THEN rc.delay = 0
       ELSE rc.delay \in 1 .. 10 => rc.code = "calibrated"
  /\ rc.at \in {"poll", "write"} => rc.code = "reset"
  /\ rc.at = "poll" => rc.delay \in 0 .. 10
  /\ rc.at = "write" /\ rc.delay \in 1 .. 10 => rc.ok

IInv == TypeOK /\ SupplyInv /\ FormatInv /\ RcInv

(* Writing the registers of a format makes them as the format asks, and    *)
(* leaves the supply's alone.                                              *)
LEMMA BbCfgConfigures ==
  ASSUME NEW r, DOMAIN r = DOMAIN Reset, NEW f \in Formats
  PROVE  LET s == BbCfg(r, f)
         IN  /\ DOMAIN s = DOMAIN Reset
             /\ s.ldo = r.ldo /\ s.pa = r.pa
             /\ s.pga = (IF Narrow(f) THEN "narrow" ELSE "wide")
             /\ s.dac = Dac(f)
             /\ s.regDc = (IF Narrow(f) THEN "2M" ELSE "1M")
             /\ s.gauss = (IF f \in BLE THEN "on" ELSE "off")
             /\ s.preamble = Preamble(f)
             /\ s.format = f
             /\ s.sync = (IF f = "ZB" THEN "ZB" ELSE "BLE")
             /\ s.crc = (IF f = "ZB" THEN "ZB" ELSE "BLE")
             /\ s.agc = (IF Narrow(f) THEN f ELSE "BLE")
BY DEF BbCfg, Reset

(* After rf_phy_ini the registers have their types and the supply is set   *)
(* for the power of the application.                                       *)
LEMMA IniSupplies ==
  ASSUME txPower \in Powers, pktFmt \in BLE
  PROVE  /\ DOMAIN Ini(Reset) = DOMAIN Reset
         /\ Ini(Reset).ldo = Supply(txPower) /\ Ini(Reset).pa = Amplifier(txPower)
BY DEF Ini, BbCfg, SetTxPower, AnaCfg, Reset

LEMMA InitInvariant == Init => IInv
<1> SUFFICES ASSUME Init PROVE IInv
  OBVIOUS
<1>1. TypeOK
  BY IniSupplies DEF Init, TypeOK, Calibration, IdleRc, Supply
<1>2. SupplyInv
  BY IniSupplies DEF Init, SupplyInv, Supply, Amplifier
<1>3. FormatInv
  BY DEF Init, FormatInv
<1>4. RcInv
  BY DEF Init, RcInv, IdleRc
<1>5. QED
  BY <1>1, <1>2, <1>3, <1>4 DEF IInv

(* A step that runs while the radio is silent and leaves it silent owes    *)
(* nothing to the formats.                                                 *)
LEMMA CalibrateStep ==
  ASSUME IInv, Calibrate
  PROVE  IInv'
<1>1. PICK found \in BOOLEAN : reg' = RxDcoc(TpCal(reg, 66, 2), 88, found)
  BY DEF Calibrate
<1>2. DOMAIN reg' = DOMAIN Reset /\ reg'.ldo = reg.ldo /\ reg'.pa = reg.pa
  BY <1>1 DEF RxDcoc, TpCal, IInv, TypeOK, Reset
<1>3. RcInv'
  BY DEF Calibrate, IInv, TypeOK, Calibration, RcInv, Idle
<1>4. TypeOK'
  BY <1>2 DEF Calibrate, IInv, TypeOK, Calibration, Idle
<1>5. QED
  BY <1>2, <1>3, <1>4 DEF Calibrate, Idle, IInv, SupplyInv, FormatInv

LEMMA RcStep ==
  ASSUME IInv, RcStart \/ RcFlag \/ RcPoll \/ RcWrite
  PROVE  IInv'
<1>1. UNCHANGED <<reg, dcdc, txPower, pktFmt, going>>
  BY DEF RcStart, RcFlag, RcPoll, RcWrite
<1>2. rc \in Calibration /\ RcInv
  BY DEF IInv, TypeOK
<1>3. rc' \in Calibration /\ RcInv'
  <2>1. CASE RcStart
    <3>1. CASE rc.code = "reset"
      <4>1. rc' = [at |-> "poll", delay |-> 10, ok |-> FALSE, code |-> "reset"]
        BY <1>2, <2>1, <3>1 DEF RcStart, Calibration
      <4>2. QED
        BY <4>1 DEF Calibration, RcInv
    <3>2. CASE rc.code # "reset"
      BY <1>2, <2>1, <3>2 DEF RcStart, Calibration, RcInv
    <3>3. QED
      BY <3>1, <3>2
  <2>2. CASE RcFlag
    BY <1>2, <2>2 DEF RcFlag, Calibration, RcInv
  <2>3. CASE RcPoll
    <3>1. CASE rc.ok
      BY <1>2, <2>3, <3>1 DEF RcPoll, Calibration, RcInv
    <3>2. CASE ~rc.ok /\ rc.delay > 0
      BY <1>2, <2>3, <3>2 DEF RcPoll, Calibration, RcInv
    <3>3. CASE ~rc.ok /\ rc.delay = 0
      <4>1. (rc.delay + 255) % 256 = 255
        <5>1. rc.delay + 255 = 255
          BY <3>3
        <5>2. 255 % 256 = 255
          OBVIOUS
        <5>3. QED
          BY <5>1, <5>2, Zenon
      <4>2. rc' = [at |-> "write", delay |-> 255, ok |-> rc.ok, code |-> rc.code]
        <5>1. rc' = [rc EXCEPT !.at = "write", !.delay = (rc.delay + 255) % 256]
          BY <2>3, <3>3 DEF RcPoll
        <5>2. rc' = [rc EXCEPT !.at = "write", !.delay = 255]
          BY <4>1, <5>1, Zenon
        <5>3. QED
          BY <1>2, <5>2 DEF Calibration
      <4>3. rc.at = "poll"
        BY <2>3 DEF RcPoll
      <4>4. QED
        BY <1>2, <4>2, <4>3 DEF Calibration, RcInv
    <3>4. QED
      BY <1>2, <3>1, <3>2, <3>3 DEF Calibration
  <2>4. CASE RcWrite
    <3> DEFINE c == IF rc.delay = 0 THEN "kept"
                    ELSE IF rc.ok THEN "calibrated" ELSE "unready"
    <3>1. rc' = [at |-> "idle", delay |-> rc.delay, ok |-> rc.ok, code |-> c]
      BY <1>2, <2>4 DEF RcWrite, Calibration
    <3>2. rc.delay \in 1 .. 10 => c = "calibrated"
      BY <1>2, <2>4 DEF RcWrite, RcInv
    <3>3. QED
      BY <1>2, <3>1, <3>2 DEF Calibration, RcInv
  <2>5. QED
    BY <2>1, <2>2, <2>3, <2>4
<1>4. QED
  BY <1>1, <1>3 DEF IInv, TypeOK, SupplyInv, FormatInv

LEMMA GoStep ==
  ASSUME IInv, NEW f \in Formats, Go(f)
  PROVE  IInv'
<1>1. PICK chn \in Channels : reg' = [BbCfg(reg, f) EXCEPT !.chn = chn, !.tp = Pair(f)]
  BY DEF Go
<1>2. chn \in 0 .. 88 /\ Pair(f) \in {"0", "0_2Mbps"} /\ DOMAIN BbCfg(reg, f) = DOMAIN Reset
  BY RfAssumption, BbCfgConfigures DEF Pair, IInv, TypeOK
<1>3. /\ DOMAIN reg' = DOMAIN Reset /\ reg'.tp = Pair(f)
      /\ \A field \in {"pga", "dac", "regDc", "gauss", "preamble", "format", "sync", "crc",
                        "agc", "ldo", "pa"} : reg'[field] = BbCfg(reg, f)[field]
  BY <1>1, <1>2 DEF Reset
<1>4. SupplyInv'
  BY <1>3, BbCfgConfigures DEF Go, IInv, TypeOK, SupplyInv
<1>5. FormatInv'
  BY <1>3, BbCfgConfigures DEF Go, IInv, TypeOK, FormatInv
<1>6. QED
  BY <1>3, <1>4, <1>5 DEF Go, IInv, TypeOK, RcInv

LEMMA PowerStep ==
  ASSUME IInv, SleepAndWake \/ \E p \in Powers : ChangePower(p)
  PROVE  IInv'
<1>1. going = Silent /\ UNCHANGED <<txPower, pktFmt, going, rc>>
  BY DEF SleepAndWake, ChangePower, Idle
<1>2. PICK p \in Powers : /\ DOMAIN reg' = DOMAIN Reset /\ dcdc' = Supply(p)
                          /\ reg'.ldo = Supply(p) /\ reg'.pa = Amplifier(p)
  <2>1. CASE SleepAndWake
    BY <2>1, IniSupplies DEF SleepAndWake, IInv, TypeOK
  <2>2. CASE \E p \in Powers : ChangePower(p)
    <3>1. PICK p \in Powers : ChangePower(p)
      BY <2>2
    <3>2. DOMAIN reg' = DOMAIN Reset /\ reg'.ldo = Supply(p) /\ reg'.pa = Amplifier(p)
      BY <3>1 DEF ChangePower, SetTxPower, IInv, TypeOK, Reset
    <3>3. QED
      BY <3>1, <3>2 DEF ChangePower
  <2>3. QED
    BY <2>1, <2>2
<1>3. SupplyInv' /\ TypeOK'
  BY <1>1, <1>2 DEF SupplyInv, Supply, Amplifier, IInv, TypeOK
<1>4. QED
  BY <1>1, <1>3 DEF IInv, FormatInv, RcInv

(* IInv is an invariant of the radio.                                      *)
THEOREM Invariance == Spec => []IInv
<1>1. IInv /\ [Next]_vars => IInv'
  <2> SUFFICES ASSUME IInv, [Next]_vars PROVE IInv'
    OBVIOUS
  <2>1. CASE Stop
    BY <2>1 DEF Stop, IInv, TypeOK, SupplyInv, FormatInv, RcInv
  <2>2. CASE UNCHANGED vars
    BY <2>2 DEF vars, IInv, TypeOK, SupplyInv, FormatInv, RcInv
  <2>3. QED
    BY <2>1, <2>2, CalibrateStep, RcStep, GoStep, PowerStep DEF Next
<1>2. QED
  BY <1>1, InitInvariant, PTL DEF Spec

(* Whatever formats, calibrations, changes of power and sleeps came        *)
(* before, phy_rf_tx and phy_rf_rx run with the registers of their format, *)
(* as rf_phy_bb_cfg would leave them after a reset, with a correction that *)
(* was measured at the format's deviation, and with a supply that matches  *)
(* the power.                                                              *)
THEOREM ConfiguredForTheFormat == Spec => []GoConfigured
<1>1. ASSUME IInv, going # Silent PROVE GoConfigured
  <2> DEFINE fresh == BbCfg(Reset, going)
  <2>1. going \in Formats
    BY <1>1 DEF IInv, TypeOK
  <2>2. \A field \in {"pga", "dac", "regDc", "gauss", "preamble", "format", "sync", "crc",
                      "agc"} : reg[field] = fresh[field]
    BY <1>1, <2>1 DEF IInv, FormatInv, BbCfg, Reset
  <2>3. going \in BLE => MeasuredAt(reg.tp) = reg.dac
    BY <1>1 DEF IInv, FormatInv, MeasuredAt, Pair, Dac, Narrow, BLE
  <2>4. QED
    BY <1>1, <2>2, <2>3 DEF GoConfigured, IInv, SupplyInv
<1>2. IInv => GoConfigured
  BY <1>1 DEF GoConfigured
<1>3. QED
  BY <1>2, Invariance, PTL

(* rc32k_calibration writes the code it saw flagged before its last wait.  *)
THEOREM OscillatorCalibrated == Spec => []RcCalibrated
<1>1. IInv => RcCalibrated
  BY DEF IInv, RcInv, RcCalibrated
<1>2. QED
  BY <1>1, Invariance, PTL
=============================================================================
